------------------------ MODULE PaymentDeliveryProofs ------------------------
(***************************************************************************)
(* Safety of PaymentDelivery, for any relays, consumers, recovery loops,   *)
(* jobs, stream entries and faults, with a Redis that may lose its data.   *)
(***************************************************************************)
EXTENDS PaymentDelivery, TLAPS

\* The stream has an entry for the job, in whatever state.
HasEntry(j) == \E e \in 1..nEntries : entryJob[e] = j

\* Jobs are numbered as they are made.
JobsAreKnown == \A j \in Job : jobState[j] = "none" <=> j > nJobs

\* So are entries, and each names a job.
EntriesAreKnown ==
  \A e \in Entry : IF e <= nEntries
                   THEN entryJob[e] \in 1..nJobs /\ entryState[e] # "none"
                   ELSE entryState[e] = "none"

\* What a relay says it has added is in the stream.
RelaysAreTrue ==
  \A r \in Relay : relayPc[r] # "idle" =>
    /\ relayJob[r] \in 1..nJobs
    /\ relayPc[r] = "added" => HasEntry(relayJob[r])

\* An executor works for the entry it holds, and acknowledges it only when its job
\* is finished.
ExecutorsAreTrue ==
  \A x \in Executor :
    /\ held[x] # 0 => held[x] \in 1..nEntries /\ work[x] = entryJob[held[x]]
    /\ pc[x] = "idle" => held[x] = 0
    /\ pc[x] # "idle" => work[x] \in 1..nJobs
    /\ pc[x] = "acking" => held[x] # 0 /\ jobState[work[x]] = "finished"

\* A row that was published has an entry for good.
PublishedHasEntry == \A j \in Job : published[j] => HasEntry(j)

\* AckedIsFinished needs to know what executors acknowledge; PublishedIsReadable
\* what relays have added, and that only entries of finished jobs are acknowledged.
IInv ==
  /\ TypeOK /\ JobsAreKnown /\ EntriesAreKnown /\ RelaysAreTrue /\ ExecutorsAreTrue
  /\ PublishedHasEntry /\ AckedIsFinished

LEMMA InitIInv == Init => IInv
<1> SUFFICES ASSUME Init PROVE IInv
  OBVIOUS
<1> USE ActorAssumption, BoundAssumption DEF Init, Job, Entry, Executor
<1>1. TypeOK
  <2>1. /\ nJobs \in 1..MaxJobs /\ jobKind \in [Job -> {"formation", "reconciliation"}]
        /\ nEntries \in 0..MaxEntries /\ entryJob \in [Entry -> 0..MaxJobs] /\ faults \in 0..MaxFaults
        /\ relayJob \in [Relay -> 0..MaxJobs] /\ held \in [Executor -> 0..MaxEntries]
        /\ work \in [Executor -> 0..MaxJobs]
    OBVIOUS
  <2>2. jobState \in [Job -> {"none", "ready", "running", "finished"}]
    OBVIOUS
  <2>3. due \in [Job -> BOOLEAN] /\ published \in [Job -> BOOLEAN] /\ rowLease \in [Job -> BOOLEAN]
    OBVIOUS
  <2> QED BY <2>1, <2>2, <2>3 DEF TypeOK
<1>2. JobsAreKnown
  BY DEF JobsAreKnown
<1>3. EntriesAreKnown /\ RelaysAreTrue /\ PublishedHasEntry /\ AckedIsFinished
  BY DEF EntriesAreKnown, RelaysAreTrue, PublishedHasEntry, AckedIsFinished
<1>4. ExecutorsAreTrue
  BY DEF ExecutorsAreTrue
<1> QED BY <1>1, <1>2, <1>3, <1>4 DEF IInv

\* A fault is counted and stays within its bound.
LEMMA FaultBound ==
  ASSUME faults \in 0..MaxFaults, Fault \/ UNCHANGED faults PROVE faults' \in 0..MaxFaults
  BY BoundAssumption DEF Fault

\* A relay that is done holds no row.
LEMMA RelayDoneFacts ==
  ASSUME TypeOK, NEW r \in Relay, RelayDone(r)
  PROVE  /\ relayPc' \in [Relay -> {"idle", "claimed", "added"}] /\ relayPc'[r] = "idle"
         /\ relayJob' \in [Relay -> 0..MaxJobs]
         /\ \A q \in Relay \ {r} : relayPc'[q] = relayPc[q] /\ relayJob'[q] = relayJob[q]
<1>1. 0 \in 0..MaxJobs
  BY BoundAssumption
<1> QED BY <1>1 DEF RelayDone, TypeOK

\* An executor that returns holds nothing; the others are where they were.
LEMMA ReturnFacts ==
  ASSUME TypeOK, NEW x \in Executor, Return(x)
  PROVE  /\ pc' \in [Executor -> {"idle", "handed", "claiming", "executing", "acking"}]
         /\ work' \in [Executor -> 0..MaxJobs] /\ held' \in [Executor -> 0..MaxEntries]
         /\ pc'[x] = "idle" /\ held'[x] = 0
         /\ \A y \in Executor \ {x} : pc'[y] = pc[y] /\ work'[y] = work[y] /\ held'[y] = held[y]
<1>1. 0 \in 0..MaxJobs /\ 0 \in 0..MaxEntries
  BY BoundAssumption
<1> QED BY <1>1 DEF Return, TypeOK

\* Nothing else changed, or jobs were only finished and entries added: executors are
\* as true as before.
LEMMA ReturnKeepsTrue ==
  ASSUME TypeOK, ExecutorsAreTrue, NEW x \in Executor, Return(x),
         UNCHANGED <<nJobs, jobState, nEntries, entryJob>>
  PROVE  ExecutorsAreTrue'
  BY ReturnFacts DEF ExecutorsAreTrue

\* The steps of relays change no job and no executor.
LEMMA RelaySteps ==
  ASSUME IInv, NEW r \in Relay, Relaying(r) \/ PublishFails(r) \/ RelayCrashes(r)
  PROVE  IInv'
<1> USE BoundAssumption, ActorAssumption DEF IInv, Job, Entry
<1>1. UNCHANGED <<jobVars, leaseVars, execVars>>
  BY DEF Relaying, ClaimOutbox, Publish, Published, PublishFails, RelayCrashes
<1>2. faults' \in 0..MaxFaults
  BY FaultBound DEF TypeOK, Relaying, ClaimOutbox, Publish, Published, PublishFails, RelayCrashes
<1>3. ASSUME NEW j \in Job, ClaimOutbox(r, j) PROVE IInv'
  <2>1. TypeOK'
    BY <1>1, <1>2, <1>3 DEF ClaimOutbox, TypeOK, jobVars, leaseVars, streamVars, execVars
  <2>2. j \in 1..nJobs
    BY <1>3 DEF ClaimOutbox, JobsAreKnown, TypeOK, Active
  <2>3. RelaysAreTrue'
    BY <1>1, <1>3, <2>2 DEF ClaimOutbox, RelaysAreTrue, HasEntry, TypeOK, jobVars, streamVars
  <2>4. JobsAreKnown' /\ EntriesAreKnown' /\ ExecutorsAreTrue' /\ PublishedHasEntry' /\ AckedIsFinished'
    BY <1>1, <1>3 DEF ClaimOutbox, JobsAreKnown, EntriesAreKnown, ExecutorsAreTrue,
       PublishedHasEntry, AckedIsFinished, HasEntry, jobVars, streamVars, execVars
  <2> QED BY <2>1, <2>3, <2>4
<1>4. CASE Publish(r)
  <2>1. TypeOK'
    BY <1>1, <1>2, <1>4 DEF Publish, TypeOK, RelaysAreTrue, jobVars, rowVars, leaseVars, execVars
  <2>2. relayJob[r] \in 1..nJobs /\ nEntries + 1 \in Entry
    BY <1>4 DEF Publish, RelaysAreTrue, TypeOK
  <2>3. \A j \in Job : HasEntry(j) => HasEntry(j)'
    BY <1>4 DEF Publish, HasEntry, TypeOK
  <2>4. HasEntry(relayJob[r])'
    BY <1>4, <2>2 DEF Publish, HasEntry, TypeOK
  <2>5. RelaysAreTrue'
    BY <1>1, <1>4, <2>2, <2>3, <2>4 DEF Publish, RelaysAreTrue, TypeOK, jobVars
  <2>6. EntriesAreKnown' /\ AckedIsFinished'
    BY <1>1, <1>4, <2>2 DEF Publish, EntriesAreKnown, AckedIsFinished, TypeOK, jobVars
  <2>7. ExecutorsAreTrue'
    BY <1>1, <1>4 DEF Publish, ExecutorsAreTrue, TypeOK, jobVars, execVars
  <2>8. JobsAreKnown' /\ PublishedHasEntry'
    BY <1>1, <1>4, <2>3 DEF Publish, JobsAreKnown, PublishedHasEntry, jobVars, rowVars
  <2> QED BY <2>1, <2>5, <2>6, <2>7, <2>8
<1>5. CASE Published(r)
  <2>1. TypeOK'
    <3>1. rowOwner' \in [Job -> Relay \cup {Nobody}]
      BY <1>5 DEF Published, TypeOK
    <3>2. published' \in [Job -> BOOLEAN] /\ rowLease' \in [Job -> BOOLEAN]
      BY ZenonT(40), <1>5 DEF Published, TypeOK
    <3>3. relayPc' \in [Relay -> {"idle", "claimed", "added"}] /\ relayJob' \in [Relay -> 0..MaxJobs]
      BY <1>5, RelayDoneFacts DEF Published
    <3> QED BY <1>1, <1>2, <1>5, <3>1, <3>2, <3>3 DEF Published, TypeOK, jobVars, leaseVars,
               streamVars, execVars
  <2>2. relayJob[r] \in 1..nJobs /\ HasEntry(relayJob[r])
    BY <1>5 DEF Published, RelaysAreTrue
  <2>3. PublishedHasEntry'
    BY ZenonT(40), <1>5, <2>2 DEF Published, PublishedHasEntry, HasEntry, TypeOK, streamVars
  <2>4. RelaysAreTrue'
    BY <1>1, <1>5 DEF Published, RelayDone, RelaysAreTrue, HasEntry, TypeOK, jobVars, streamVars
  <2>5. JobsAreKnown' /\ EntriesAreKnown' /\ ExecutorsAreTrue' /\ AckedIsFinished'
    BY <1>1, <1>5 DEF Published, JobsAreKnown, EntriesAreKnown, ExecutorsAreTrue,
       AckedIsFinished, jobVars, streamVars, execVars
  <2> QED BY <2>1, <2>3, <2>4, <2>5
<1>6. CASE PublishFails(r) \/ RelayCrashes(r)
  <2>1. TypeOK'
    <3>1. rowOwner' \in [Job -> Relay \cup {Nobody}] /\ UNCHANGED published
      BY <1>6 DEF PublishFails, RelayCrashes, rowVars, TypeOK
    <3>2. rowLease' \in [Job -> BOOLEAN]
      BY <1>6 DEF PublishFails, RelayCrashes, rowVars, TypeOK
    <3>3. relayPc' \in [Relay -> {"idle", "claimed", "added"}] /\ relayJob' \in [Relay -> 0..MaxJobs]
      BY <1>6, RelayDoneFacts DEF PublishFails, RelayCrashes
    <3>4. UNCHANGED streamVars
      BY <1>6 DEF PublishFails, RelayCrashes
    <3> QED BY <1>1, <1>2, <3>1, <3>2, <3>3, <3>4 DEF TypeOK, jobVars, leaseVars, streamVars, execVars
  <2>2. RelaysAreTrue'
    BY ZenonT(40), <1>1, <1>6 DEF PublishFails, RelayCrashes, RelayDone, RelaysAreTrue, HasEntry, TypeOK,
       jobVars, streamVars
  <2>3. JobsAreKnown' /\ EntriesAreKnown' /\ ExecutorsAreTrue' /\ PublishedHasEntry' /\ AckedIsFinished'
    BY <1>1, <1>6 DEF PublishFails, RelayCrashes, JobsAreKnown, EntriesAreKnown, ExecutorsAreTrue,
       PublishedHasEntry, AckedIsFinished, HasEntry, jobVars, rowVars, streamVars, execVars
  <2> QED BY <2>1, <2>2, <2>3
<1> QED BY <1>3, <1>4, <1>5, <1>6 DEF Relaying

\* Executors that change no job: entries are only delivered, reclaimed and, by who
\* knows the job is finished, acknowledged.
LEMMA WorkSteps ==
  ASSUME IInv, NEW x \in Executor,
         \/ x \in Consumer /\ ((\E e \in Entry : Receive(x, e)) \/ Ack(x))
         \/ x \in Recoverer /\ \E j \in Job : PickDue(x, j)
         \/ CheckJob(x) \/ ClaimRefused(x) \/ LeaseLost(x) \/ ExecutorCrashes(x)
  PROVE  IInv'
<1> USE BoundAssumption, ActorAssumption DEF IInv, Job, Entry
<1>1. UNCHANGED <<jobVars, rowVars, leaseVars, nEntries, entryJob, relayVars>>
  BY DEF Receive, Ack, PickDue, CheckJob, ClaimRefused, LeaseLost, ExecutorCrashes, streamVars
<1>2. faults' \in 0..MaxFaults
  BY FaultBound DEF TypeOK, Receive, Ack, PickDue, CheckJob, ClaimRefused, LeaseLost, ExecutorCrashes
<1>3. JobsAreKnown' /\ RelaysAreTrue' /\ PublishedHasEntry'
  BY <1>1 DEF JobsAreKnown, RelaysAreTrue, PublishedHasEntry, HasEntry, jobVars, rowVars, relayVars
<1>4. ASSUME NEW e \in Entry, Receive(x, e) PROVE IInv'
  <2>1. e \in 1..nEntries /\ entryJob[e] \in 1..nJobs
    BY <1>4 DEF Receive, EntriesAreKnown, TypeOK, Unacked
  <2>2. TypeOK'
    BY <1>1, <1>2, <1>4, <2>1 DEF Receive, TypeOK, jobVars, rowVars, leaseVars, relayVars
  <2>3. EntriesAreKnown' /\ AckedIsFinished'
    BY <1>1, <1>4, <2>1 DEF Receive, EntriesAreKnown, AckedIsFinished, TypeOK, jobVars
  <2>4. ExecutorsAreTrue'
    BY <1>1, <1>4, <2>1 DEF Receive, ExecutorsAreTrue, TypeOK, jobVars
  <2> QED BY <1>3, <2>2, <2>3, <2>4
<1>5. CASE Ack(x)
  <2>1. held[x] \in 1..nEntries /\ jobState[entryJob[held[x]]] = "finished"
    BY <1>5 DEF Ack, ExecutorsAreTrue
  <2>2. TypeOK'
    <3>1. entryState' \in [Entry -> {"none", "new", "pending", "acked", "lost"}]
      BY <1>5 DEF Ack, TypeOK
    <3> QED BY SMTT(30), <1>1, <1>2, <1>5, <3>1, ReturnFacts DEF Ack, TypeOK, jobVars, rowVars, leaseVars,
               relayVars
  <2>3. EntriesAreKnown' /\ AckedIsFinished'
    BY <1>1, <1>5, <2>1 DEF Ack, EntriesAreKnown, AckedIsFinished, TypeOK, jobVars
  <2>4. ExecutorsAreTrue'
    BY <1>1, <1>5, ReturnKeepsTrue DEF Ack, jobVars
  <2> QED BY <1>3, <2>2, <2>3, <2>4
<1>6. ASSUME NEW j \in Job, PickDue(x, j) PROVE IInv'
  <2>1. j \in 1..nJobs
    BY <1>6 DEF PickDue, JobsAreKnown, TypeOK, Active
  <2>2. TypeOK'
    BY <1>1, <1>2, <1>6 DEF PickDue, TypeOK, jobVars, rowVars, leaseVars, streamVars, relayVars
  <2>3. EntriesAreKnown' /\ AckedIsFinished'
    BY <1>1, <1>6 DEF PickDue, EntriesAreKnown, AckedIsFinished, jobVars, streamVars
  <2>4. ExecutorsAreTrue'
    BY <1>1, <1>6, <2>1 DEF PickDue, ExecutorsAreTrue, TypeOK, jobVars, streamVars
  <2> QED BY <1>3, <2>2, <2>3, <2>4
<1>7. CASE CheckJob(x)
  <2>1. TypeOK'
    <3>1. CASE Return(x)
      BY SMTT(30), <1>1, <1>2, <1>7, <3>1, ReturnFacts DEF CheckJob, TypeOK, jobVars, rowVars, leaseVars,
         streamVars, relayVars
    <3>2. CASE ~Return(x)
      BY ZenonT(40), <1>1, <1>2, <1>7, <3>2 DEF CheckJob, Finished, TypeOK, jobVars, rowVars, leaseVars,
         streamVars, relayVars
    <3> QED BY <3>1, <3>2
  <2>2. EntriesAreKnown' /\ AckedIsFinished'
    BY <1>1, <1>7 DEF CheckJob, EntriesAreKnown, AckedIsFinished, jobVars, streamVars
  <2>3. jobState[work[x]] \in Active \cup {"finished"}
    BY <1>7 DEF CheckJob, ExecutorsAreTrue, JobsAreKnown, TypeOK, Active
  <2>4. ExecutorsAreTrue'
    <3>1. CASE Return(x)
      BY <1>1, <1>7, <3>1, ReturnKeepsTrue DEF CheckJob, jobVars, streamVars
    <3>2. CASE ~Return(x)
      BY <1>1, <1>7, <2>3, <3>2 DEF CheckJob, Finished, ExecutorsAreTrue, TypeOK, jobVars, streamVars
    <3> QED BY <3>1, <3>2
  <2> QED BY <1>3, <2>1, <2>2, <2>4
<1>8. CASE ClaimRefused(x) \/ LeaseLost(x) \/ ExecutorCrashes(x)
  <2>1. TypeOK'
    BY SMTT(30), <1>1, <1>2, <1>8, ReturnFacts DEF ClaimRefused, LeaseLost, ExecutorCrashes, TypeOK, jobVars,
       rowVars, leaseVars, streamVars, relayVars
  <2>2. EntriesAreKnown' /\ AckedIsFinished'
    BY <1>1, <1>8 DEF ClaimRefused, LeaseLost, ExecutorCrashes, EntriesAreKnown, AckedIsFinished,
       jobVars, streamVars
  <2>3. ExecutorsAreTrue'
    BY <1>1, <1>8, ReturnKeepsTrue DEF ClaimRefused, LeaseLost, ExecutorCrashes, jobVars, streamVars
  <2> QED BY <1>3, <2>1, <2>2, <2>3
<1> QED BY <1>4, <1>5, <1>6, <1>7, <1>8

\* A new job gets the next number, and its row is still to be published.
LEMMA EnqueueKeeps ==
  ASSUME TypeOK, JobsAreKnown, NEW kind \in {"formation", "reconciliation"}, NEW now \in BOOLEAN,
         NEW base \in [Job -> {"none", "ready", "running", "finished"}],
         \A j \in Job : base[j] = "none" <=> j > nJobs,
         Enqueue(kind, now, base)
  PROVE  /\ nJobs' \in 1..MaxJobs /\ nJobs' >= nJobs
         /\ jobKind' \in [Job -> {"formation", "reconciliation"}]
         /\ jobState' \in [Job -> {"none", "ready", "running", "finished"}]
         /\ due' \in [Job -> BOOLEAN] /\ UNCHANGED published
         /\ JobsAreKnown'
         /\ \A j \in Job : base[j] = "finished" => jobState'[j] = "finished"
<1>1. nJobs + 1 \in Job /\ nJobs' = nJobs + 1 /\ nJobs' \in 1..MaxJobs
  BY BoundAssumption DEF Enqueue, TypeOK, Job
<1>2. base[nJobs + 1] = "none"
  BY <1>1 DEF TypeOK, Job
<1>3. /\ jobKind' \in [Job -> {"formation", "reconciliation"}]
      /\ jobState' \in [Job -> {"none", "ready", "running", "finished"}]
      /\ due' \in [Job -> BOOLEAN] /\ UNCHANGED published
  BY DEF Enqueue, TypeOK
<1>4. JobsAreKnown'
  BY <1>1 DEF Enqueue, JobsAreKnown, TypeOK, Job
<1>5. \A j \in Job : base[j] = "finished" => jobState'[j] = "finished"
  BY <1>1, <1>2 DEF Enqueue
<1> QED BY <1>1, <1>3, <1>4, <1>5 DEF TypeOK

\* A row that is rescheduled is only taken back, never published.
LEMMA RescheduleKeeps ==
  ASSUME TypeOK, NEW j \in Job, NEW now \in BOOLEAN, Reschedule(j, now)
  PROVE  /\ UNCHANGED <<nJobs, jobKind>>
         /\ due' \in [Job -> BOOLEAN] /\ published' \in [Job -> BOOLEAN]
         /\ \A k \in Job : published'[k] => published[k]
  BY DEF Reschedule, TypeOK

\* What a change of jobs must keep, and need not do more: jobs are only added, a
\* finished one stays finished, and rows are only taken back.
JobsMoveOn ==
  /\ nJobs' \in 1..MaxJobs /\ nJobs' >= nJobs
  /\ jobKind' \in [Job -> {"formation", "reconciliation"}]
  /\ jobState' \in [Job -> {"none", "ready", "running", "finished"}]
  /\ due' \in [Job -> BOOLEAN] /\ published' \in [Job -> BOOLEAN]
  /\ JobsAreKnown'
  /\ \A j \in Job : jobState[j] = "finished" => jobState'[j] = "finished"
  /\ \A j \in Job : published'[j] => published[j]
  /\ UNCHANGED <<streamVars, relayVars>>

LEMMA MovingOnKeeps ==
  ASSUME IInv, JobsMoveOn
  PROVE  EntriesAreKnown' /\ RelaysAreTrue' /\ PublishedHasEntry' /\ AckedIsFinished'
<1> USE BoundAssumption DEF IInv, JobsMoveOn, streamVars, relayVars, Job, Entry
<1>1. 1..nJobs \subseteq 1..nJobs' /\ 1..nJobs \subseteq Job
  BY DEF TypeOK
<1>2. EntriesAreKnown'
  BY <1>1 DEF EntriesAreKnown
<1>3. RelaysAreTrue'
  BY <1>1 DEF RelaysAreTrue, HasEntry
<1>4. PublishedHasEntry'
  BY DEF PublishedHasEntry, HasEntry
<1>5. AckedIsFinished'
  BY <1>1 DEF AckedIsFinished, EntriesAreKnown, TypeOK
<1> QED BY <1>2, <1>3, <1>4, <1>5

\* Executors that do not move stay true.
LEMMA RestingKeepsTrue ==
  ASSUME IInv, JobsMoveOn, UNCHANGED execVars PROVE ExecutorsAreTrue'
<1>1. 1..nJobs \subseteq 1..nJobs' /\ 1..nJobs \subseteq Job
  BY BoundAssumption DEF IInv, TypeOK, JobsMoveOn, Job
<1> QED BY <1>1 DEF IInv, ExecutorsAreTrue, JobsMoveOn, streamVars, execVars

\* The payment's jobs change by a callback, by time, by a claim and by its finish.
LEMMA CallbackStep == ASSUME IInv, Callback PROVE IInv'
<1> DEFINE queued == {j \in 1..nJobs : jobKind[j] = "reconciliation" /\ jobState[j] = "ready"}
<1>1. faults' \in 0..MaxFaults
  BY FaultBound DEF Callback, IInv, TypeOK
<1>2. UNCHANGED <<rowOwner, rowLease, leaseVars, streamVars, relayVars, execVars>>
  BY DEF Callback
<1>3. JobsMoveOn
  <2>1. CASE queued = {}
    <3>1. Enqueue("reconciliation", TRUE, jobState)
      BY <2>1 DEF Callback
    <3> QED BY <3>1, <1>2, EnqueueKeeps DEF IInv, JobsMoveOn, TypeOK, JobsAreKnown
  <2>2. CASE queued # {}
    <3>1. PICK j \in queued : Reschedule(j, TRUE) /\ UNCHANGED jobState
      BY <2>2 DEF Callback
    <3>2. j \in Job
      BY <3>1, BoundAssumption DEF IInv, TypeOK, Job
    <3>3. UNCHANGED <<nJobs, jobKind, jobState>> /\ due' \in [Job -> BOOLEAN]
          /\ published' \in [Job -> BOOLEAN] /\ \A k \in Job : published'[k] => published[k]
      BY <3>1, <3>2, RescheduleKeeps DEF IInv
    <3> QED BY <3>3, <1>2, BoundAssumption DEF IInv, JobsMoveOn, TypeOK, JobsAreKnown, Job
  <2> QED BY <2>1, <2>2
<1>4. TypeOK'
  BY <1>1, <1>2, <1>3 DEF IInv, TypeOK, JobsMoveOn, leaseVars, streamVars, relayVars, execVars
<1> QED BY <1>2, <1>3, <1>4, MovingOnKeeps, RestingKeepsTrue DEF IInv, JobsMoveOn

LEMMA TimeStep ==
  ASSUME IInv, NEW j \in Job, Due(j) \/ RowLeaseExpires(j) PROVE IInv'
<1>1. faults' \in 0..MaxFaults
  BY FaultBound DEF Due, RowLeaseExpires, IInv, TypeOK
<1>2. UNCHANGED <<nJobs, jobKind, jobState, published, rowOwner, leaseVars, streamVars, relayVars,
                  execVars>>
  BY DEF Due, RowLeaseExpires, rowVars, jobVars
<1>3. due' \in [Job -> BOOLEAN] /\ rowLease' \in [Job -> BOOLEAN]
  BY DEF Due, RowLeaseExpires, rowVars, jobVars, IInv, TypeOK
<1>4. TypeOK'
  BY <1>1, <1>2, <1>3 DEF IInv, TypeOK, leaseVars, streamVars, relayVars, execVars
<1>5. JobsMoveOn
  BY <1>2, <1>4, BoundAssumption DEF IInv, JobsMoveOn, TypeOK, JobsAreKnown, Job
<1> QED BY <1>2, <1>4, <1>5, MovingOnKeeps, RestingKeepsTrue DEF IInv, JobsMoveOn

LEMMA ClaimStep == ASSUME IInv, NEW x \in Executor, Claim(x) PROVE IInv'
<1> USE ActorAssumption, BoundAssumption DEF IInv
<1>1. work[x] \in 1..nJobs /\ work[x] \in Job /\ jobState[work[x]] \in Active
  BY DEF Claim, Claimable, ExecutorsAreTrue, TypeOK, Job
<1>2. JobsMoveOn
  <2>1. jobState' \in [Job -> {"none", "ready", "running", "finished"}]
    BY <1>1 DEF Claim, TypeOK
  <2>2. JobsAreKnown' /\ \A j \in Job : jobState[j] = "finished" => jobState'[j] = "finished"
    BY <1>1 DEF Claim, JobsAreKnown, TypeOK, Active, Job
  <2> QED BY <2>1, <2>2 DEF Claim, JobsMoveOn, TypeOK, rowVars
<1>3. TypeOK'
  BY <1>2 DEF Claim, JobsMoveOn, TypeOK, rowVars, streamVars, relayVars
<1>4. ExecutorsAreTrue'
  <2>1. jobState[work[x]] # "finished"
    BY <1>1 DEF Active
  <2>2. pc'[x] = "executing" /\ \A y \in Executor \ {x} : pc'[y] = pc[y]
    BY DEF Claim, TypeOK
  <2>3. UNCHANGED <<work, held, nEntries, entryJob, nJobs>>
    BY DEF Claim, streamVars
  <2>4. \A y \in Executor : jobState[work[y]] = "finished" /\ pc[y] = "acking" => jobState'[work[y]] = "finished"
    BY <1>2 DEF JobsMoveOn, ExecutorsAreTrue, TypeOK, Job
  <2>5. pc[x] # "idle"
    BY DEF Claim
  <2> QED BY <2>2, <2>3, <2>4, <2>5 DEF ExecutorsAreTrue
<1> QED BY <1>2, <1>3, <1>4, MovingOnKeeps DEF JobsMoveOn

\* finish closes the job of the executor before its entry may be acknowledged.
LEMMA FinishStep == ASSUME IInv, NEW x \in Executor, Finish(x) PROVE IInv'
<1> USE ActorAssumption, BoundAssumption DEF IInv
<1> DEFINE base == [jobState EXCEPT ![work[x]] = "finished"]
           open == {j \in 1..nJobs : jobKind[j] = "reconciliation" /\ base[j] \in Active}
<1>1. work[x] \in 1..nJobs /\ work[x] \in Job
  BY DEF Finish, ExecutorsAreTrue, TypeOK, Job
<1>2. /\ base \in [Job -> {"none", "ready", "running", "finished"}]
      /\ \A j \in Job : base[j] = "none" <=> j > nJobs
      /\ \A j \in Job : jobState[j] = "finished" => base[j] = "finished"
      /\ base[work[x]] = "finished"
  BY <1>1 DEF TypeOK, JobsAreKnown, Job
<1>3. UNCHANGED <<rowOwner, rowLease, leaseOwner, streamVars, relayVars, faults>> /\ leaseLive' = FALSE
  BY DEF Finish
<1>4. JobsMoveOn /\ jobState'[work[x]] = "finished"
  <2> HIDE DEF base
  <2>1. CASE jobState' = base /\ UNCHANGED <<nJobs, jobKind, due, published>>
    BY <1>1, <1>2, <1>3, <2>1 DEF JobsMoveOn, TypeOK, JobsAreKnown
  <2>2. CASE Enqueue("formation", FALSE, base) \/ Enqueue("reconciliation", FALSE, base)
    <3>1. PICK kind \in {"formation", "reconciliation"} : Enqueue(kind, FALSE, base)
      BY <2>2
    <3>2. /\ nJobs' \in 1..MaxJobs /\ nJobs' >= nJobs
          /\ jobKind' \in [Job -> {"formation", "reconciliation"}]
          /\ jobState' \in [Job -> {"none", "ready", "running", "finished"}]
          /\ due' \in [Job -> BOOLEAN] /\ UNCHANGED published
          /\ JobsAreKnown'
          /\ \A j \in Job : base[j] = "finished" => jobState'[j] = "finished"
      BY ZenonT(40), <1>2, <3>1, EnqueueKeeps
    <3> QED BY <1>1, <1>2, <1>3, <3>2 DEF JobsMoveOn, TypeOK
  <2>3. CASE \E j \in open : Reschedule(j, FALSE) /\ jobState' = base
    <3>1. PICK j \in open : Reschedule(j, FALSE) /\ jobState' = base
      BY <2>3
    <3>2. j \in Job
      BY <3>1 DEF TypeOK, Job
    <3>3. UNCHANGED <<nJobs, jobKind>> /\ due' \in [Job -> BOOLEAN]
          /\ published' \in [Job -> BOOLEAN] /\ \A k \in Job : published'[k] => published[k]
      BY <3>1, <3>2, RescheduleKeeps
    <3> QED BY <1>1, <1>2, <1>3, <3>1, <3>3 DEF JobsMoveOn, TypeOK, JobsAreKnown
  <2> QED BY <2>1, <2>2, <2>3 DEF Finish, base
<1>5. /\ pc' \in [Executor -> {"idle", "handed", "claiming", "executing", "acking"}]
      /\ work' \in [Executor -> 0..MaxJobs] /\ held' \in [Executor -> 0..MaxEntries]
  <2>1. CASE Return(x)
    BY <2>1, ReturnFacts
  <2>2. CASE ~Return(x)
    BY <2>2 DEF Finish, Finished, TypeOK
  <2> QED BY <2>1, <2>2
<1>6. TypeOK'
  <2>1. leaseLive' \in BOOLEAN /\ leaseOwner' \in Executor \cup {Nobody} /\ faults' \in 0..MaxFaults
    BY <1>3 DEF TypeOK
  <2>2. /\ rowOwner' \in [Job -> Relay \cup {Nobody}] /\ rowLease' \in [Job -> BOOLEAN]
        /\ nEntries' \in 0..MaxEntries /\ entryJob' \in [Entry -> 0..MaxJobs]
        /\ entryState' \in [Entry -> {"none", "new", "pending", "acked", "lost"}]
        /\ relayPc' \in [Relay -> {"idle", "claimed", "added"}] /\ relayJob' \in [Relay -> 0..MaxJobs]
    BY <1>3 DEF TypeOK, streamVars, relayVars
  <2> QED BY <1>4, <1>5, <2>1, <2>2 DEF JobsMoveOn, TypeOK
<1>7. ExecutorsAreTrue'
  <2>1. 1..nJobs \subseteq 1..nJobs' /\ 1..nJobs \subseteq Job
    BY <1>4 DEF JobsMoveOn, TypeOK, Job
  <2>2. \A y \in Executor : jobState[work[y]] = "finished" /\ pc[y] = "acking" => jobState'[work[y]] = "finished"
    BY <1>4, <2>1 DEF JobsMoveOn, ExecutorsAreTrue
  <2>3. CASE Return(x)
    BY <1>3, <2>1, <2>2, <2>3, ReturnFacts DEF ExecutorsAreTrue, streamVars
  <2>4. CASE ~Return(x)
    <3>1. held[x] # 0 /\ pc' = [pc EXCEPT ![x] = "acking"] /\ UNCHANGED <<work, held>> /\ pc[x] = "executing"
      BY <2>4 DEF Finish, Finished
    <3> QED BY <1>3, <1>4, <2>1, <2>2, <3>1 DEF ExecutorsAreTrue, streamVars, TypeOK
  <2> QED BY <2>3, <2>4
<1> QED BY <1>4, <1>6, <1>7, MovingOnKeeps DEF JobsMoveOn

\* The lease and the loss of the stream touch no job; recovery takes a publication back.
LEMMA OtherSteps ==
  ASSUME IInv,
         \/ LeaseExpires \/ RedisLosesData
         \/ \E f \in Recoverer, j \in Job : Republish(f, j)
  PROVE  IInv'
<1> USE BoundAssumption DEF IInv
<1>1. faults' \in 0..MaxFaults
  BY FaultBound DEF LeaseExpires, RedisLosesData, Republish, TypeOK
<1>2. UNCHANGED <<jobVars, rowOwner, rowLease, leaseOwner, nEntries, entryJob, relayVars, execVars>>
  BY DEF LeaseExpires, RedisLosesData, Republish, rowVars, leaseVars, streamVars
<1>3. /\ published' \in [Job -> BOOLEAN] /\ leaseLive' \in BOOLEAN
      /\ \A j \in Job : published'[j] => published[j]
  BY ZenonT(40) DEF LeaseExpires, RedisLosesData, Republish, rowVars, leaseVars, TypeOK
<1>4. /\ entryState' \in [Entry -> {"none", "new", "pending", "acked", "lost"}]
      /\ \A e \in Entry : /\ entryState'[e] = "acked" => entryState[e] = "acked"
                          /\ entryState'[e] = "none" <=> entryState[e] = "none"
  BY DEF LeaseExpires, RedisLosesData, Republish, streamVars, Unacked, TypeOK
<1>5. TypeOK'
  BY <1>1, <1>2, <1>3, <1>4 DEF TypeOK, jobVars, relayVars, execVars
<1>6. JobsAreKnown' /\ RelaysAreTrue' /\ ExecutorsAreTrue'
  BY <1>2 DEF JobsAreKnown, RelaysAreTrue, ExecutorsAreTrue, HasEntry, jobVars, relayVars, execVars
<1>7. EntriesAreKnown' /\ AckedIsFinished'
  <2>1. EntriesAreKnown /\ AckedIsFinished
    OBVIOUS
  <2>2. UNCHANGED <<nJobs, jobState, nEntries, entryJob>>
    BY <1>2 DEF jobVars
  <2>3. \A e \in Entry : /\ entryState'[e] = "acked" => entryState[e] = "acked"
                         /\ entryState'[e] = "none" <=> entryState[e] = "none"
    BY <1>4
  <2>4. EntriesAreKnown'
    BY <2>1, <2>2, <2>3 DEF EntriesAreKnown
  <2>5. AckedIsFinished'
    BY <2>1, <2>2, <2>3 DEF AckedIsFinished
  <2> QED BY <2>4, <2>5
<1>8. PublishedHasEntry'
  BY <1>2, <1>3 DEF PublishedHasEntry, HasEntry
<1> QED BY <1>5, <1>6, <1>7, <1>8

LEMMA StepIInv == IInv /\ [Next]_vars => IInv'
<1> SUFFICES ASSUME IInv, [Next]_vars PROVE IInv'
  OBVIOUS
<1>1. CASE UNCHANGED vars
  BY <1>1 DEF IInv, TypeOK, JobsAreKnown, EntriesAreKnown, RelaysAreTrue, ExecutorsAreTrue,
     PublishedHasEntry, AckedIsFinished, HasEntry, vars, jobVars, rowVars, leaseVars, streamVars,
     relayVars, execVars
<1>2. CASE Next
  <2>1. CASE \E r \in Relay : Relaying(r) \/ PublishFails(r) \/ RelayCrashes(r)
    BY <2>1, RelaySteps
  <2>2. CASE \E c \in Consumer : (\E e \in Entry : Receive(c, e)) \/ Ack(c)
    BY <2>2, WorkSteps DEF Executor
  <2>3. CASE \E f \in Recoverer, j \in Job : PickDue(f, j) \/ Republish(f, j)
    BY <2>3, WorkSteps, OtherSteps DEF Executor
  <2>4. CASE \E x \in Executor : Executing(x) \/ ExecutorCrashes(x)
    BY <2>4, WorkSteps, ClaimStep, FinishStep DEF Executing
  <2>5. CASE \E j \in Job : Due(j) \/ RowLeaseExpires(j)
    BY <2>5, TimeStep
  <2>6. CASE LeaseExpires \/ Callback \/ RedisLosesData
    BY <2>6, OtherSteps, CallbackStep
  <2> QED BY <1>2, <2>1, <2>2, <2>3, <2>4, <2>5, <2>6 DEF Next
<1> QED BY <1>1, <1>2

\* The invariant holds whatever relays, executors and Redis do.
THEOREM Invariance == Spec => []IInv
  BY InitIInv, StepIInv, PTL DEF Spec

\* Type correctness of jobs, rows, the lease and the stream.
THEOREM TypeCorrect == Spec => []TypeOK
<1>1. IInv => TypeOK
  BY DEF IInv
<1> QED BY <1>1, Invariance, PTL

\* An entry is acknowledged only after its job is durably finished (consume, execute).
THEOREM AcknowledgedAfterWork == Spec => []AckedIsFinished
<1>1. IInv => AckedIsFinished
  BY DEF IInv
<1> QED BY <1>1, Invariance, PTL

\* A row of an open job that says it is published has an entry that will be read, or
\* that Redis lost (claim_outbox, published, publish_failed).
THEOREM PublishedIsDelivered == Spec => []PublishedIsReadable
<1>1. IInv => PublishedIsReadable
  <2> SUFFICES ASSUME IInv, NEW j \in Job, published[j], jobState[j] \in Active
               PROVE  \E e \in Entry : entryJob[e] = j /\ entryState[e] \in Unacked \cup {"lost"}
    BY DEF PublishedIsReadable
  <2>1. PICK e \in 1..nEntries : entryJob[e] = j
    BY DEF IInv, PublishedHasEntry, HasEntry
  <2>2. e \in Entry /\ entryState[e] \in {"new", "pending", "acked", "lost"}
    BY BoundAssumption DEF IInv, EntriesAreKnown, TypeOK, Entry
  <2>3. entryState[e] # "acked"
    BY <2>1, <2>2 DEF IInv, AckedIsFinished, Active
  <2> QED BY <2>1, <2>2, <2>3 DEF Unacked
<1> QED BY <1>1, Invariance, PTL
=============================================================================
