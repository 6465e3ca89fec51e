----------------------------- MODULE RuntimeMode -----------------------------
(***************************************************************************)
(* The interlock of the two ways to run payments.                          *)
(*                                                                         *)
(* The database names the mode in force.  A process registers under the    *)
(* mode it was configured with and keeps its registration alive by a       *)
(* heartbeat; a job is claimed only in the mode in force; set_mode refuses *)
(* while anybody is registered or any execution lease is live.  Register,  *)
(* claim and set_mode hold the row of the mode, so each is one step here.  *)
(* renew does not: it is evaluated in one step and committed in another.   *)
(*                                                                         *)
(* A process is one incarnation: a restarted one is another process.       *)
(***************************************************************************)
EXTENDS Naturals

CONSTANTS Api,        \* incarnations of the API
          Worker,     \* incarnations of the payment workers
          Payment,
          Nobody,     \* no owner
          MaxFaults   \* bound: crashes, late heartbeats, database errors, ...

Process == Api \cup Worker
RunMode == {"legacy", "events"}
Modes   == RunMode \cup {"maintenance"}

ASSUME ProcessAssumption == Nobody \notin Process /\ Api \cap Worker = {}
ASSUME FaultAssumption == MaxFaults \in Nat

VARIABLES
  mode,     \* the mode in force
  conf,     \* the mode each process is configured with
  state,    \* "off", "running", "draining", "gone"
  beating,  \* the heartbeat task of the process is alive
  member,   \* its registration: "none", "healthy", "stale"
  owner,    \* who claimed the execution lease of a payment last
  live,     \* lease_until is in the future
  renewing, \* a renewal of the lease is evaluated and not yet committed
  outlived, \* the lease ran out while it was being renewed
  faults    \* faults so far

leaseVars == <<owner, live, renewing, outlived>>
procVars  == <<state, beating, member>>
vars == <<mode, conf, procVars, leaseVars, faults>>

Fault == faults < MaxFaults /\ faults' = faults + 1

Up(x) == state[x] \in {"running", "draining"}

Init ==
  /\ mode = "legacy"
  /\ conf \in [Process -> RunMode]
  /\ state = [x \in Process |-> "off"]
  /\ beating = [x \in Process |-> FALSE]
  /\ member = [x \in Process |-> "none"]
  /\ owner = [t \in Payment |-> Nobody]
  /\ live = [t \in Payment |-> FALSE]
  /\ renewing = [t \in Payment |-> FALSE]
  /\ outlived = [t \in Payment |-> FALSE]
  /\ faults = 0

-----------------------------------------------------------------------------
\* A process registers before it starts any task; refused, it does not start.
Start(x) ==
  /\ state[x] = "off"
  /\ IF conf[x] = mode
     THEN /\ state' = [state EXCEPT ![x] = "running"]
          /\ beating' = [beating EXCEPT ![x] = TRUE]
          /\ member' = [member EXCEPT ![x] = "healthy"]
     ELSE /\ state' = [state EXCEPT ![x] = "gone"]
          /\ UNCHANGED <<beating, member>>
  /\ UNCHANGED <<mode, conf, leaseVars, faults>>

\* The heartbeat raises.  run waits for the first task that ends and stops the
\* worker; nobody waits for the task of the API, which goes on without it.
HeartbeatEnds(x) ==
  /\ beating' = [beating EXCEPT ![x] = FALSE]
  /\ state' = IF x \in Worker THEN [state EXCEPT ![x] = "draining"] ELSE state

\* Mutant of Heartbeat: a refused registration is tried again later.
HeartbeatRetries(x) ==
  /\ state[x] = "running" /\ beating[x]
  /\ conf[x] = mode
  /\ member' = [member EXCEPT ![x] = "healthy"]
  /\ UNCHANGED <<mode, conf, state, beating, leaseVars, faults>>

Heartbeat(x) ==
  /\ state[x] = "running" /\ beating[x]
  /\ IF conf[x] = mode
     THEN member' = [member EXCEPT ![x] = "healthy"] /\ UNCHANGED <<state, beating>>
     ELSE HeartbeatEnds(x) /\ UNCHANGED member
  /\ UNCHANGED <<mode, conf, leaseVars, faults>>

\* A database error ends the heartbeat as well.
HeartbeatFails(x) ==
  /\ state[x] = "running" /\ beating[x]
  /\ Fault
  /\ HeartbeatEnds(x)
  /\ UNCHANGED <<mode, conf, member, leaseVars>>

\* healthy_until passes, although the process lives when its heartbeat is late.
MemberExpires(x) ==
  /\ member[x] = "healthy"
  /\ IF state[x] = "running" /\ beating[x] THEN Fault ELSE UNCHANGED faults
  /\ member' = [member EXCEPT ![x] = "stale"]
  /\ UNCHANGED <<mode, conf, state, beating, leaseVars>>

\* SIGTERM: the heartbeat ends at once, the jobs that run may still be finished.
Stop(x) ==
  /\ state[x] = "running"
  /\ state' = [state EXCEPT ![x] = "draining"]
  /\ beating' = [beating EXCEPT ![x] = FALSE]
  /\ UNCHANGED <<mode, conf, member, leaseVars, faults>>

\* The grace period ends: what still runs is cancelled, its leases stay.  The
\* registration stays too when it cannot be deleted.
Exit(x) ==
  /\ state[x] = "draining"
  /\ state' = [state EXCEPT ![x] = "gone"]
  /\ \/ member' = [member EXCEPT ![x] = "none"] /\ UNCHANGED faults
     \/ Fault /\ UNCHANGED member
  /\ UNCHANGED <<mode, conf, beating, leaseVars>>

Crash(x) ==
  /\ Up(x)
  /\ Fault
  /\ state' = [state EXCEPT ![x] = "gone"]
  /\ beating' = [beating EXCEPT ![x] = FALSE]
  /\ UNCHANGED <<mode, conf, member, leaseVars>>

-----------------------------------------------------------------------------
\* claim: in the mode in force, when no live lease is in the way; it waits for a
\* renewal that holds the row.  The tasks of a draining process still come to it.
Claim(x, t) ==
  /\ Up(x)
  /\ conf[x] = mode
  /\ ~live[t] /\ ~renewing[t]
  /\ owner' = [owner EXCEPT ![t] = x]
  /\ live' = [live EXCEPT ![t] = TRUE]
  /\ outlived' = [outlived EXCEPT ![t] = FALSE]
  /\ UNCHANGED <<mode, conf, procVars, renewing, faults>>

\* renew finds the lease live.
BeginRenew(x, t) ==
  /\ Up(x)
  /\ owner[t] = x /\ live[t] /\ ~renewing[t]
  /\ renewing' = [renewing EXCEPT ![t] = TRUE]
  /\ UNCHANGED <<mode, conf, procVars, owner, live, outlived, faults>>

\* Its transaction commits, however long after, or is lost.
EndRenew(t) ==
  /\ renewing[t]
  /\ \/ live' = [live EXCEPT ![t] = TRUE] /\ UNCHANGED faults
     \/ Fault /\ UNCHANGED live
  /\ renewing' = [renewing EXCEPT ![t] = FALSE]
  /\ UNCHANGED <<mode, conf, procVars, owner, outlived>>

\* finish lets the lease go; it waits for a renewal that holds the row.
Finish(x, t) ==
  /\ Up(x)
  /\ owner[t] = x /\ live[t] /\ ~renewing[t]
  /\ live' = [live EXCEPT ![t] = FALSE]
  /\ UNCHANGED <<mode, conf, procVars, owner, renewing, outlived, faults>>

\* lease_until passes: late renewals are faults, orphaned leases are not.
LeaseExpires(t) ==
  /\ live[t]
  /\ IF Up(owner[t]) THEN Fault ELSE UNCHANGED faults
  /\ live' = [live EXCEPT ![t] = FALSE]
  /\ outlived' = [outlived EXCEPT ![t] = @ \/ renewing[t]]
  /\ UNCHANGED <<mode, conf, procVars, owner, renewing>>

-----------------------------------------------------------------------------
Held == \E t \in Payment : live[t]

\* Mutant of SetMode: live leases are not looked at.
SetModeOfMembers(m) ==
  /\ m \in Modes /\ m # mode
  /\ \A x \in Process : member[x] # "healthy"
  /\ mode' = m
  /\ UNCHANGED <<conf, procVars, leaseVars, faults>>

\* Mutant of SetMode: the target is not validated.
SetModeAny(m) ==
  /\ m # mode
  /\ (\A x \in Process : member[x] # "healthy") /\ ~Held
  /\ mode' = m
  /\ UNCHANGED <<conf, procVars, leaseVars, faults>>

SetMode(m) ==
  /\ m \in Modes /\ m # mode
  /\ (\A x \in Process : member[x] # "healthy") /\ ~Held
  /\ mode' = m
  /\ UNCHANGED <<conf, procVars, leaseVars, faults>>

Next ==
  \/ \E x \in Process :
       \/ Start(x) \/ Heartbeat(x) \/ HeartbeatFails(x) \/ MemberExpires(x)
       \/ Stop(x) \/ Exit(x) \/ Crash(x)
  \/ \E x \in Worker, t \in Payment : Claim(x, t) \/ BeginRenew(x, t) \/ Finish(x, t)
  \/ \E t \in Payment : EndRenew(t) \/ LeaseExpires(t)
  \/ \E m \in Modes \cup {"other"} : SetMode(m)

\* Tasks that run go on, the grace period of a stopping process ends, time passes.
Fairness ==
  /\ \A x \in Process : WF_vars(Heartbeat(x) \/ Exit(x) \/ MemberExpires(x))
  /\ \A t \in Payment : WF_vars(EndRenew(t) \/ LeaseExpires(t))

Spec == Init /\ [][Next]_vars /\ Fairness

-----------------------------------------------------------------------------
\* Every variable holds a value of its kind.
TypeOK ==
  /\ mode \in Modes
  /\ conf \in [Process -> RunMode]
  /\ state \in [Process -> {"off", "running", "draining", "gone"}]
  /\ beating \in [Process -> BOOLEAN]
  /\ member \in [Process -> {"none", "healthy", "stale"}]
  /\ owner \in [Payment -> Process \cup {Nobody}]
  /\ live \in [Payment -> BOOLEAN]
  /\ renewing \in [Payment -> BOOLEAN]
  /\ outlived \in [Payment -> BOOLEAN]
  /\ faults \in 0..MaxFaults

\* Whoever counts as alive is configured for the mode in force: a process that
\* missed a switch cannot come back by its heartbeat (require_mode, set_mode).
MembersInMode == \A x \in Process : member[x] = "healthy" => conf[x] = mode

\* T28, "incompatible modes do not run at the same time": an executor that holds
\* a live lease runs in the mode in force, also one that is draining, cancelled
\* or cut off from the database.  The one way out is a renewal evaluated before
\* the lease ran out and committed after the switch.
LeasesInMode ==
  \A t \in Payment : live[t] => conf[owner[t]] = mode \/ outlived[t]

\* A worker that lives in the mode of yesterday notices and stops (run: the
\* failed heartbeat ends the process), unless its mode comes back.
OldWorkersStop ==
  \A x \in Worker : Up(x) /\ conf[x] # mode ~> ~Up(x) \/ conf[x] = mode
=============================================================================
