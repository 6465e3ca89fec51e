--------------------------- MODULE RequestBudget ---------------------------
(***************************************************************************)
(* The request budget of the CRM, shared by all processes that call it.    *)
(*                                                                         *)
(* A row of the database holds the time of the next free slot and the end  *)
(* of the cooldown after the CRM answered 429.  A caller takes a slot under*)
(* the lock of the row or sleeps and tries again, then posts, however much *)
(* later; reads are tried up to three times, writes once.                  *)
(***************************************************************************)
EXTENDS Naturals, FiniteSetsExt

CONSTANTS Caller,
          Spacing,      \* time between slots: 1 / payment_bitrix_requests_per_second
          Cooldown,     \* payment_bitrix_cooldown_seconds
          MaxSleep,     \* a caller sleeps no longer before it tries again
          MaxAttempts,  \* of a read
          MaxTime       \* bound: the clock of the database

ASSUME BudgetAssumption ==
  /\ Spacing \in Nat \ {0} /\ Cooldown \in Nat \ {0} /\ MaxSleep \in Nat \ {0}
  /\ MaxAttempts \in Nat \ {0} /\ MaxTime \in Nat

VARIABLES
  time,
  nextSlot, cooldownUntil,  \* the row
  step,                     \* of a caller
  wakeAt,                   \* when its sleep ends
  left,                     \* attempts it has left
  granted,                  \* when the last slot was granted, 0 before
  limited                   \* when a 429 was last recorded, 0 before

callVars   == <<step, wakeAt, left>>
budgetVars == <<time, nextSlot, cooldownUntil, callVars, granted, limited>>

BudgetInit ==
  /\ time = Spacing + Cooldown
  /\ nextSlot = time /\ cooldownUntil = time
  /\ step = [c \in Caller |-> "idle"]
  /\ wakeAt = [c \in Caller |-> 0]
  /\ left = [c \in Caller |-> 0]
  /\ granted = 0 /\ limited = 0

Advance ==
  /\ time < MaxTime
  /\ time' = time + 1
  /\ UNCHANGED <<nextSlot, cooldownUntil, callVars, granted, limited>>

\* call: a read may be repeated, a write may not.
Call(c) ==
  /\ step[c] = "idle"
  /\ \E n \in {1, MaxAttempts} : left' = [left EXCEPT ![c] = n]
  /\ step' = [step EXCEPT ![c] = "acquiring"]
  /\ wakeAt' = [wakeAt EXCEPT ![c] = time]
  /\ UNCHANGED <<time, nextSlot, cooldownUntil, granted, limited>>

\* Mutant of Reserve: the slot is taken from the time before the row was locked.
ReserveStale(c) ==
  /\ step[c] = "acquiring" /\ wakeAt[c] <= time
  /\ LET slot == Max({wakeAt[c], nextSlot, cooldownUntil}) IN
     IF slot <= time
     THEN /\ nextSlot' = slot + Spacing
          /\ granted' = time
          /\ step' = [step EXCEPT ![c] = "posting"]
          /\ UNCHANGED wakeAt
     ELSE /\ wakeAt' = [wakeAt EXCEPT ![c] = time + Min({slot - time, MaxSleep})]
          /\ UNCHANGED <<nextSlot, granted, step>>
  /\ UNCHANGED <<time, cooldownUntil, left, limited>>

\* reserve_request under the lock of the row, by the database's clock: the slot is
\* free now, or the caller sleeps.
Reserve(c) ==
  /\ step[c] = "acquiring" /\ wakeAt[c] <= time
  /\ LET slot == Max({time, nextSlot, cooldownUntil}) IN
     IF slot = time
     THEN /\ nextSlot' = time + Spacing
          /\ granted' = time
          /\ step' = [step EXCEPT ![c] = "posting"]
          /\ UNCHANGED wakeAt
     ELSE /\ wakeAt' = [wakeAt EXCEPT ![c] = time + Min({slot - time, MaxSleep})]
          /\ UNCHANGED <<nextSlot, granted, step>>
  /\ UNCHANGED <<time, cooldownUntil, left, limited>>

\* A failed attempt of a read is repeated after a pause, for which it needs a slot
\* of its own; the last one, and a write's only one, fails the call.
Retry(c) ==
  IF left[c] > 1
  THEN /\ left' = [left EXCEPT ![c] = @ - 1]
       /\ step' = [step EXCEPT ![c] = "acquiring"]
       /\ wakeAt' = [wakeAt EXCEPT ![c] = time]
  ELSE /\ step' = [step EXCEPT ![c] = "idle"]
       /\ UNCHANGED <<left, wakeAt>>

\* The CRM answers, is out of order (5xx, no connection), or answers 429.
Post(c) ==
  /\ step[c] = "posting"
  /\ \/ step' = [step EXCEPT ![c] = "idle"] /\ UNCHANGED <<left, wakeAt>>
     \/ Retry(c)
     \/ step' = [step EXCEPT ![c] = "limited"] /\ UNCHANGED <<left, wakeAt>>
  /\ UNCHANGED <<time, nextSlot, cooldownUntil, granted, limited>>

\* limited: everybody's slots are put off before this caller goes on.
Limited(c) ==
  /\ step[c] = "limited"
  /\ cooldownUntil' = Max({cooldownUntil, time + Cooldown})
  /\ limited' = time
  /\ Retry(c)
  /\ UNCHANGED <<time, nextSlot, granted>>

\* The process dies or its lease is lost before it posts: the slot is spent.
GiveUp(c) ==
  /\ step[c] # "idle"
  /\ step' = [step EXCEPT ![c] = "idle"]
  /\ UNCHANGED <<time, nextSlot, cooldownUntil, wakeAt, left, granted, limited>>

BudgetNext ==
  \/ Advance
  \/ \E c \in Caller : Call(c) \/ Reserve(c) \/ Post(c) \/ Limited(c) \/ GiveUp(c)

BudgetSpec == BudgetInit /\ [][BudgetNext]_budgetVars

-----------------------------------------------------------------------------
\* Every variable holds a value of its kind.
BudgetTypeOK ==
  /\ time \in Nat /\ nextSlot \in Nat /\ cooldownUntil \in Nat
  /\ step \in [Caller -> {"idle", "acquiring", "posting", "limited"}]
  /\ wakeAt \in [Caller -> Nat] /\ left \in [Caller -> 0..MaxAttempts]
  /\ granted \in Nat /\ limited \in Nat

\* "Shared request budget across API, event workers and Redis-free fallback":
\* whoever takes a slot, however long the caller before slept or waited for the row,
\* slots are Spacing apart and none is granted within the cooldown after a 429.
SlotsAreSpaced ==
  [][\A c \in Caller : step[c] = "acquiring" /\ step'[c] = "posting"
       => time >= granted + Spacing /\ time >= limited + Cooldown]_budgetVars
=============================================================================
