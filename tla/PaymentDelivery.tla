--------------------------- MODULE PaymentDelivery ---------------------------
(***************************************************************************)
(* How a durable payment job reaches a worker.                             *)
(*                                                                         *)
(* A job and its outbox row are committed together.  Relays publish the    *)
(* row to a Redis stream (at least once), consumers of the stream's group  *)
(* execute the job it names and acknowledge the entry, and a recovery loop *)
(* executes due jobs straight from the database.  The stream only carries  *)
(* hints: the database decides whether a job may run, and the execution    *)
(* lease of the payment who runs it (PaymentFencing has its details).      *)
(*                                                                         *)
(* One payment.  The streams of the two job kinds are one stream here,     *)
(* whose consumers take both kinds.                                        *)
(***************************************************************************)
EXTENDS Naturals

CONSTANTS Relay,       \* outbox relays
          Consumer,    \* stream consumers
          Recoverer,   \* database recovery loops
          Nobody,      \* no relay, no executor
          Volatile,    \* Redis may restart without its data
          MaxJobs,     \* bound: jobs of the payment
          MaxEntries,  \* bound: entries ever added to the stream
          MaxFaults    \* bound: crashes, late heartbeats, lost answers, ...

ASSUME ActorAssumption ==
  /\ Nobody \notin Relay \cup Consumer \cup Recoverer
  /\ Consumer \cap Recoverer = {}
ASSUME VolatileAssumption == Volatile \in BOOLEAN
ASSUME BoundAssumption ==
  MaxJobs \in Nat \ {0} /\ MaxEntries \in Nat /\ MaxFaults \in Nat

VARIABLES
  \* jobs
  nJobs, jobKind, jobState,
  due,         \* available_at has come
  \* outbox rows
  published,   \* last_published_at is set
  rowOwner,    \* whose publisher_token the row carries
  rowLease,    \* publisher_lease_until is in the future
  \* the execution lease of the payment
  leaseOwner, leaseLive,
  \* the stream and its consumer group
  nEntries, entryJob, entryState,
  \* relays and executors
  relayPc, relayJob,
  pc, work,    \* the job an executor was handed
  held,        \* the stream entry it came with, 0 from the database
  faults       \* faults so far

jobVars    == <<nJobs, jobKind, jobState, due>>
rowVars    == <<published, rowOwner, rowLease>>
leaseVars  == <<leaseOwner, leaseLive>>
streamVars == <<nEntries, entryJob, entryState>>
relayVars  == <<relayPc, relayJob>>
execVars   == <<pc, work, held>>
vars == <<jobVars, rowVars, leaseVars, streamVars, relayVars, execVars, faults>>

Job      == 1..MaxJobs
Entry    == 1..MaxEntries
Executor == Consumer \cup Recoverer
Active   == {"ready", "running"}
Unacked  == {"new", "pending"}

Fault == faults < MaxFaults /\ faults' = faults + 1

Init ==
  /\ nJobs = 1
  /\ jobKind = [j \in Job |-> "formation"]
  /\ jobState = [j \in Job |-> IF j = 1 THEN "ready" ELSE "none"]
  /\ due = [j \in Job |-> j = 1]
  /\ published = [j \in Job |-> FALSE]
  /\ rowOwner = [j \in Job |-> Nobody]
  /\ rowLease = [j \in Job |-> FALSE]
  /\ leaseOwner = Nobody
  /\ leaseLive = FALSE
  /\ nEntries = 0
  /\ entryJob = [e \in Entry |-> 0]
  /\ entryState = [e \in Entry |-> "none"]
  /\ relayPc = [r \in Relay |-> "idle"]
  /\ relayJob = [r \in Relay |-> 0]
  /\ pc = [x \in Executor |-> "idle"]
  /\ work = [x \in Executor |-> 0]
  /\ held = [x \in Executor |-> 0]
  /\ faults = 0

-----------------------------------------------------------------------------
\* Time reaches available_at.
Due(j) ==
  /\ jobState[j] \in Active
  /\ ~due[j]
  /\ due' = [due EXCEPT ![j] = TRUE]
  /\ UNCHANGED <<nJobs, jobKind, jobState, rowVars, leaseVars, streamVars, relayVars,
                 execVars, faults>>

\* A job is added, with a row still to be published.
Enqueue(kind, now, base) ==
  /\ nJobs < MaxJobs
  /\ nJobs' = nJobs + 1
  /\ jobKind' = [jobKind EXCEPT ![nJobs + 1] = kind]
  /\ jobState' = [base EXCEPT ![nJobs + 1] = "ready"]
  /\ due' = [due EXCEPT ![nJobs + 1] = now]
  /\ UNCHANGED published

\* available_at of a queued job moves; its row is to be published again.
Reschedule(j, now) ==
  /\ due' = [due EXCEPT ![j] = now]
  /\ published' = [published EXCEPT ![j] = FALSE]
  /\ UNCHANGED <<nJobs, jobKind>>

Oldest(S, j) == j \in S /\ \A k \in S : j <= k

\* A callback asks for a check now: the oldest reconciliation job that is only
\* queued absorbs it, else a new job is created.
Callback ==
  /\ Fault
  /\ LET queued == {j \in 1..nJobs : jobKind[j] = "reconciliation" /\ jobState[j] = "ready"} IN
     IF queued = {}
     THEN Enqueue("reconciliation", TRUE, jobState)
     ELSE \E j \in queued : Oldest(queued, j) /\ Reschedule(j, TRUE) /\ UNCHANGED jobState
  /\ UNCHANGED <<rowOwner, rowLease, leaseVars, streamVars, relayVars, execVars>>

-----------------------------------------------------------------------------
\* Mutant of ClaimOutbox: the row is marked published before it is sent.
ClaimOutboxMarks(r, j) ==
  /\ relayPc[r] = "idle"
  /\ jobState[j] \in Active
  /\ ~published[j] /\ due[j] /\ ~rowLease[j]
  /\ published' = [published EXCEPT ![j] = TRUE]
  /\ rowOwner' = [rowOwner EXCEPT ![j] = r]
  /\ rowLease' = [rowLease EXCEPT ![j] = TRUE]
  /\ relayPc' = [relayPc EXCEPT ![r] = "claimed"]
  /\ relayJob' = [relayJob EXCEPT ![r] = j]
  /\ UNCHANGED <<jobVars, leaseVars, streamVars, execVars, faults>>

\* claim_outbox: an unpublished, unfinished, due row no live publisher holds.
ClaimOutbox(r, j) ==
  /\ relayPc[r] = "idle"
  /\ jobState[j] \in Active
  /\ ~published[j] /\ due[j] /\ ~rowLease[j]
  /\ rowOwner' = [rowOwner EXCEPT ![j] = r]
  /\ rowLease' = [rowLease EXCEPT ![j] = TRUE]
  /\ relayPc' = [relayPc EXCEPT ![r] = "claimed"]
  /\ relayJob' = [relayJob EXCEPT ![r] = j]
  /\ UNCHANGED <<jobVars, published, leaseVars, streamVars,
                 execVars, faults>>

\* XADD, whether or not the row still is the relay's.
Publish(r) ==
  /\ relayPc[r] = "claimed"
  /\ nEntries < MaxEntries
  /\ nEntries' = nEntries + 1
  /\ entryJob' = [entryJob EXCEPT ![nEntries + 1] = relayJob[r]]
  /\ entryState' = [entryState EXCEPT ![nEntries + 1] = "new"]
  /\ relayPc' = [relayPc EXCEPT ![r] = "added"]
  /\ UNCHANGED <<jobVars, rowVars, leaseVars, relayJob, execVars, faults>>

RelayDone(r) ==
  /\ relayPc' = [relayPc EXCEPT ![r] = "idle"]
  /\ relayJob' = [relayJob EXCEPT ![r] = 0]

\* published: recorded only by the publisher that still holds the row.
Published(r) ==
  /\ relayPc[r] = "added"
  /\ LET j == relayJob[r] IN
     IF rowOwner[j] = r /\ rowLease[j] /\ jobState[j] \in Active
     THEN /\ published' = [published EXCEPT ![j] = TRUE]
          /\ rowOwner' = [rowOwner EXCEPT ![j] = Nobody]
          /\ rowLease' = [rowLease EXCEPT ![j] = FALSE]
     ELSE UNCHANGED <<published, rowOwner, rowLease>>
  /\ RelayDone(r)
  /\ UNCHANGED <<jobVars, leaseVars, streamVars, execVars, faults>>

\* XADD raises, before or after it took effect, or the commit after it does:
\* publish_failed gives the row back for a later attempt.
PublishFails(r) ==
  /\ relayPc[r] \in {"claimed", "added"}
  /\ Fault
  /\ LET j == relayJob[r] IN
     IF rowOwner[j] = r /\ jobState[j] \in Active
     THEN /\ rowOwner' = [rowOwner EXCEPT ![j] = Nobody]
          /\ rowLease' = [rowLease EXCEPT ![j] = FALSE]
     ELSE UNCHANGED <<rowOwner, rowLease>>
  /\ RelayDone(r)
  /\ UNCHANGED <<jobVars, published, leaseVars, streamVars, execVars>>

\* The relay dies; its row waits for the publisher lease to run out.
RelayCrashes(r) ==
  /\ relayPc[r] # "idle"
  /\ Fault
  /\ RelayDone(r)
  /\ UNCHANGED <<jobVars, rowVars, leaseVars, streamVars, execVars>>

\* The publisher lease of a row runs out: at once when its relay is gone.
RowLeaseExpires(j) ==
  /\ rowLease[j]
  /\ IF \E r \in Relay : relayJob[r] = j /\ rowOwner[j] = r
     THEN Fault ELSE UNCHANGED faults
  /\ rowLease' = [rowLease EXCEPT ![j] = FALSE]
  /\ UNCHANGED <<jobVars, published, rowOwner, leaseVars,
                 streamVars, relayVars, execVars>>

-----------------------------------------------------------------------------
\* A consumer gets an entry: a new one, or one pending for reclaim_idle_ms,
\* whoever it was delivered to first.
Receive(c, e) ==
  /\ pc[c] = "idle"
  /\ entryState[e] \in Unacked
  /\ entryState' = [entryState EXCEPT ![e] = "pending"]
  /\ pc' = [pc EXCEPT ![c] = "handed"]
  /\ work' = [work EXCEPT ![c] = entryJob[e]]
  /\ held' = [held EXCEPT ![c] = e]
  /\ UNCHANGED <<jobVars, rowVars, leaseVars, nEntries, entryJob, relayVars, faults>>

\* Mutant of PickDue: a job that was started once is not picked again.
PickReady(f, j) ==
  /\ pc[f] = "idle"
  /\ jobState[j] = "ready" /\ due[j] /\ ~leaseLive
  /\ pc' = [pc EXCEPT ![f] = "handed"]
  /\ work' = [work EXCEPT ![f] = j]
  /\ UNCHANGED <<jobVars, rowVars, leaseVars, streamVars, relayVars, held, faults>>

\* The recovery loop takes a due job that nobody holds a live lease for.
PickDue(f, j) ==
  /\ pc[f] = "idle"
  /\ jobState[j] \in Active /\ due[j] /\ ~leaseLive
  /\ pc' = [pc EXCEPT ![f] = "handed"]
  /\ work' = [work EXCEPT ![f] = j]
  /\ UNCHANGED <<jobVars, rowVars, leaseVars, streamVars, relayVars, held, faults>>

\* recover_publications: a stale publication of an unfinished job is repeated.
Republish(f, j) ==
  /\ pc[f] = "idle"
  /\ jobState[j] \in Active /\ due[j] /\ ~leaseLive
  /\ published[j]
  /\ published' = [published EXCEPT ![j] = FALSE]
  /\ UNCHANGED <<jobVars, rowOwner, rowLease, leaseVars, streamVars,
                 relayVars, execVars, faults>>

\* An executor returns; an entry it does not acknowledge stays pending.
Return(x) ==
  /\ pc' = [pc EXCEPT ![x] = "idle"]
  /\ work' = [work EXCEPT ![x] = 0]
  /\ held' = [held EXCEPT ![x] = 0]

\* After the job is known to be finished: a consumer acknowledges.
Finished(x) ==
  IF held[x] # 0
  THEN pc' = [pc EXCEPT ![x] = "acking"] /\ UNCHANGED <<work, held>>
  ELSE Return(x)

\* Mutant of CheckJob: the entry of a finished job is dropped, not acknowledged.
CheckJobDrops(x) ==
  /\ pc[x] = "handed"
  /\ IF jobState[work[x]] \in Active
     THEN pc' = [pc EXCEPT ![x] = "claiming"] /\ UNCHANGED <<work, held>>
     ELSE Return(x)
  /\ UNCHANGED <<jobVars, rowVars, leaseVars, streamVars, relayVars, faults>>

\* execute: finished work is only acknowledged, the rest asks for the lease.
CheckJob(x) ==
  /\ pc[x] = "handed"
  /\ IF jobState[work[x]] \in Active
     THEN pc' = [pc EXCEPT ![x] = "claiming"] /\ UNCHANGED <<work, held>>
     ELSE Finished(x)
  /\ UNCHANGED <<jobVars, rowVars, leaseVars, streamVars, relayVars, faults>>

Claimable(j) == jobState[j] \in Active /\ due[j] /\ ~leaseLive

Claim(x) ==
  /\ pc[x] = "claiming"
  /\ Claimable(work[x])
  /\ jobState' = [jobState EXCEPT ![work[x]] = "running"]
  /\ leaseOwner' = x
  /\ leaseLive' = TRUE
  /\ pc' = [pc EXCEPT ![x] = "executing"]
  /\ UNCHANGED <<nJobs, jobKind, due, rowVars, streamVars, relayVars, work, held, faults>>

\* Mutant of ClaimRefused: the entry is acknowledged although nothing was done.
ClaimRefusedAcks(x) ==
  /\ pc[x] = "claiming"
  /\ ~Claimable(work[x])
  /\ Finished(x)
  /\ UNCHANGED <<jobVars, rowVars, leaseVars, streamVars, relayVars, faults>>

\* Busy, not due any more or finished in the meantime: not acknowledged.
ClaimRefused(x) ==
  /\ pc[x] = "claiming"
  /\ ~Claimable(work[x])
  /\ Return(x)
  /\ UNCHANGED <<jobVars, rowVars, leaseVars, streamVars, relayVars, faults>>

Owns(x) == leaseLive /\ leaseOwner = x

\* finish: the job and its outbox row are closed and the lease is let go.  The
\* next job is queued for later; a reconciliation job that is queued already
\* continues the polling instead, postponed after an error.
Finish(x) ==
  /\ pc[x] = "executing"
  /\ Owns(x)
  /\ jobState[work[x]] = "running"
  /\ LET base == [jobState EXCEPT ![work[x]] = "finished"]
         queued == {j \in 1..nJobs : jobKind[j] = "reconciliation" /\ base[j] \in Active}
     IN  \/ jobState' = base /\ UNCHANGED <<nJobs, jobKind, due, published>>
         \/ jobKind[work[x]] = "formation" /\ Enqueue("formation", FALSE, base)
         \/ queued = {} /\ Enqueue("reconciliation", FALSE, base)
         \/ \E j \in queued : Oldest(queued, j) /\ Reschedule(j, FALSE) /\ jobState' = base
  /\ leaseLive' = FALSE
  /\ Finished(x)
  /\ UNCHANGED <<rowOwner, rowLease, leaseOwner, streamVars, relayVars, faults>>

\* The heartbeat or a fenced call finds the lease gone: not acknowledged.
LeaseLost(x) ==
  /\ pc[x] = "executing"
  /\ ~Owns(x)
  /\ Return(x)
  /\ UNCHANGED <<jobVars, rowVars, leaseVars, streamVars, relayVars, faults>>

Ack(c) ==
  /\ pc[c] = "acking"
  /\ entryState' = [entryState EXCEPT ![held[c]] =
                      IF @ \in Unacked THEN "acked" ELSE @]
  /\ Return(c)
  /\ UNCHANGED <<jobVars, rowVars, leaseVars, nEntries, entryJob, relayVars, faults>>

\* The process dies at any point; so does an acknowledgement on its way.
ExecutorCrashes(x) ==
  /\ pc[x] # "idle"
  /\ Fault
  /\ Return(x)
  /\ UNCHANGED <<jobVars, rowVars, leaseVars, streamVars, relayVars>>

\* The lease runs out: at once when nobody executes under it any more.
LeaseExpires ==
  /\ leaseLive
  /\ IF pc[leaseOwner] = "executing" THEN Fault ELSE UNCHANGED faults
  /\ leaseLive' = FALSE
  /\ UNCHANGED <<jobVars, rowVars, leaseOwner, streamVars, relayVars, execVars>>

\* Redis restarts without its data.
RedisLosesData ==
  /\ Volatile
  /\ Fault
  /\ entryState' = [e \in Entry |->
                      IF entryState[e] \in Unacked THEN "lost" ELSE entryState[e]]
  /\ UNCHANGED <<jobVars, rowVars, leaseVars, nEntries, entryJob, relayVars, execVars>>

-----------------------------------------------------------------------------
Relaying(r) == (\E j \in Job : ClaimOutbox(r, j)) \/ Publish(r) \/ Published(r)

Executing(x) ==
  CheckJob(x) \/ Claim(x) \/ ClaimRefused(x) \/ Finish(x) \/ LeaseLost(x)

Next ==
  \/ \E r \in Relay : Relaying(r) \/ PublishFails(r) \/ RelayCrashes(r)
  \/ \E c \in Consumer : (\E e \in Entry : Receive(c, e)) \/ Ack(c)
  \/ \E f \in Recoverer : \E j \in Job : PickDue(f, j) \/ Republish(f, j)
  \/ \E x \in Executor : Executing(x) \/ ExecutorCrashes(x)
  \/ \E j \in Job : Due(j) \/ RowLeaseExpires(j)
  \/ LeaseExpires
  \/ Callback
  \/ RedisLosesData

\* Running processes keep running, clocks advance, and each scan (outbox poll,
\* XREADGROUP, XAUTOCLAIM, due_jobs) is repeated for ever and comes to every row.
Fairness ==
  /\ \A r \in Relay : WF_vars(Relaying(r))
  /\ \A x \in Executor : WF_vars(Executing(x))
  /\ \A c \in Consumer : WF_vars(Ack(c))
  /\ \A e \in Entry : WF_vars(\E c \in Consumer : Receive(c, e))
  /\ \A j \in Job : WF_vars(\E f \in Recoverer : PickDue(f, j))
  /\ \A j \in Job : WF_vars(Due(j)) /\ WF_vars(RowLeaseExpires(j))
  /\ WF_vars(LeaseExpires)

Spec == Init /\ [][Next]_vars /\ Fairness

-----------------------------------------------------------------------------
\* Every variable holds a value of its kind.
TypeOK ==
  /\ nJobs \in 1..MaxJobs
  /\ jobKind \in [Job -> {"formation", "reconciliation"}]
  /\ jobState \in [Job -> {"none", "ready", "running", "finished"}]
  /\ due \in [Job -> BOOLEAN] /\ published \in [Job -> BOOLEAN] /\ rowLease \in [Job -> BOOLEAN]
  /\ rowOwner \in [Job -> Relay \cup {Nobody}]
  /\ leaseOwner \in Executor \cup {Nobody}
  /\ leaseLive \in BOOLEAN
  /\ nEntries \in 0..MaxEntries
  /\ entryJob \in [Entry -> 0..MaxJobs]
  /\ entryState \in [Entry -> {"none", "new", "pending", "acked", "lost"}]
  /\ relayPc \in [Relay -> {"idle", "claimed", "added"}]
  /\ relayJob \in [Relay -> 0..MaxJobs]
  /\ pc \in [Executor -> {"idle", "handed", "claiming", "executing", "acking"}]
  /\ work \in [Executor -> 0..MaxJobs]
  /\ held \in [Executor -> 0..MaxEntries]
  /\ faults \in 0..MaxFaults

\* payment_consumer: "Never ACK uncommitted business work".
AckedIsFinished ==
  \A e \in Entry : entryState[e] = "acked" => jobState[entryJob[e]] = "finished"

\* A row that says it is published really has an entry somebody will read,
\* unless the job is finished or Redis lost data: a stale relay, a callback and a
\* postponing finish may all touch the row between XADD and published.
PublishedIsReadable ==
  \A j \in Job :
    published[j] /\ jobState[j] \in Active =>
      \E e \in Entry : entryJob[e] = j /\ entryState[e] \in Unacked \cup {"lost"}

\* Every job that is queued is executed to its end.
EveryJobFinishes ==
  \A j \in Job : jobState[j] \in Active ~> jobState[j] = "finished"

\* Every entry is acknowledged in the end, also one delivered twice or left
\* pending by a crashed consumer.
EveryEntryAcked ==
  \A e \in Entry : entryState[e] \in Unacked ~> entryState[e] \in {"acked", "lost"}
=============================================================================
