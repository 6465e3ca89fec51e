------------------------------ MODULE CrmLedger ------------------------------
(***************************************************************************)
(* What the payment engine promises about the CRM (Bitrix24).              *)
(*                                                                         *)
(* A payment is a row whose columns are filled one by one.  A column that  *)
(* holds a result of the CRM has the writes that produce it: the client    *)
(* may take several (lead, contact, their link, an address), the payment   *)
(* document takes one, the public link none.  Each column builds on some   *)
(* others, its Prior: there is no payment document before the invoice is   *)
(* recorded.                                                               *)
(*                                                                         *)
(* The promise, whatever the number of workers, crashes, lost answers and  *)
(* retries: every write takes effect at most once, only after everything   *)
(* it builds on is recorded, and never after its own column is; and the    *)
(* row records a column only when the writes it stands for took effect.    *)
(***************************************************************************)
EXTENDS Naturals

CONSTANTS Column,        \* columns of the payment row that record results
          Write,         \* the CRM writes of one payment
          Field,         \* the column a write belongs to
          Optional,      \* writes a column may do without
          Prior          \* the columns a column builds on

VARIABLES remote,        \* remote[i]: how many times write i took effect
          recorded       \* the columns the payment row holds

vars == <<remote, recorded>>

Init ==
  /\ remote = [i \in Write |-> 0]
  /\ recorded = {}

\* A write takes effect in the CRM, for the first and only time.
Apply(i) ==
  /\ remote[i] = 0
  /\ Prior[Field[i]] \subseteq recorded
  /\ Field[i] \notin recorded
  /\ remote' = [remote EXCEPT ![i] = 1]
  /\ UNCHANGED recorded

\* The payment row learns a result whose writes took effect.
Record(c) ==
  /\ c \notin recorded
  /\ Prior[c] \subseteq recorded
  /\ \A i \in Write \ Optional : Field[i] = c => remote[i] = 1
  /\ recorded' = recorded \cup {c}
  /\ UNCHANGED remote

Next ==
  \/ \E i \in Write : Apply(i)
  \/ \E c \in Column : Record(c)

Spec == Init /\ [][Next]_vars
=============================================================================
