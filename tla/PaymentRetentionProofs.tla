------------------------ MODULE PaymentRetentionProofs ------------------------
(***************************************************************************)
(* Theorems about PaymentRetention, for any number of jobs, entries and    *)
(* faults.                                                                 *)
(*                                                                         *)
(* Neither what is recognised nor what is deleted can be judged by an      *)
(* entry alone.  The invariant says that an entry names a job that was     *)
(* once queued, that a queued job is always in the table or in the         *)
(* archive, and that what the consumer and retention concluded from the    *)
(* database stays true while jobs move.                                    *)
(***************************************************************************)
EXTENDS PaymentRetention, TLAPS

\* The newest job is never archived, so generations count the jobs.
JobsInv ==
  /\ \A j \in Job : j <= nJobs => gen[j] = j /\ jobState[j] # "none"
  /\ \A j \in Job : j > nJobs => jobState[j] = "none"
  /\ InTable(nJobs)
  /\ \A j \in picked : j < nJobs /\ jobState[j] = "finished"

\* Entries name jobs that were queued, and only entries that were added are
\* delivered, pending, recorded or chosen for deletion.
StreamInv ==
  /\ \A s \in sending : s[1] <= nJobs
  /\ \A e \in Entry : event[e] <= nJobs
  /\ \A e \in inStream \cup eligible : e <= nEntries
  /\ \A g \in Group : \A e \in pending[g] : e <= nEntries
  /\ \A e \in Entry : record[e] # "none" => e <= nEntries

\* What retention knows of an entry it is about to delete.
Done(e) ==
  IF event[e] = 0 THEN record[e] \in {"old", "pruned"} ELSE jobState[event[e]] \in Closed

EligibleInv == \A e \in eligible : Done(e)

\* What the consumer knows of the entry it holds.
HeldInv ==
  pc # "idle" =>
    /\ held \in Entry /\ held <= nEntries
    /\ pc = "invalid" => event[held] = 0
    /\ pc \in {"valid", "rowless"} => event[held] # 0
    /\ pc = "rowless" => jobState[event[held]] = "archived"

IInv ==
  /\ TypeOK /\ JobsInv /\ StreamInv /\ EligibleInv /\ HeldInv
  /\ EventsAreRecognised /\ DeletedIsDone /\ DamageIsOnRecord

\* How jobs may move: they are not forgotten, and what is closed stays closed.
JobsMove ==
  /\ nJobs <= nJobs'
  /\ \A j \in Job : jobState[j] = "archived" => jobState'[j] = "archived"
  /\ \A j \in Job : jobState[j] \in Closed => jobState'[j] \in Closed

LEMMA InitIInv == Init => IInv
<1> SUFFICES ASSUME Init PROVE IInv
  OBVIOUS
<1>1. TypeOK
  <2>1. /\ nJobs \in 1..MaxJobs /\ gen \in [Job -> 0..MaxJobs]
        /\ event \in [Entry -> 0..MaxJobs] /\ last \in [Group -> 0..MaxEntries]
        /\ nEntries \in 0..MaxEntries /\ held \in 0..MaxEntries /\ faults \in 0..MaxFaults
    BY BoundAssumption DEF Init
  <2> QED BY <2>1 DEF Init, TypeOK
<1>2. JobsInv /\ StreamInv /\ EligibleInv /\ HeldInv
  BY BoundAssumption DEF Init, JobsInv, StreamInv, EligibleInv, HeldInv, InTable, Job, Entry, Group
<1>3. EventsAreRecognised /\ DeletedIsDone /\ DamageIsOnRecord
  BY DEF Init, EventsAreRecognised, DeletedIsDone, DamageIsOnRecord
<1> QED BY <1>1, <1>2, <1>3 DEF IInv

\* A fault is counted and stays within its bound.
LEMMA FaultBound == ASSUME faults \in 0..MaxFaults, Fault PROVE faults' \in 0..MaxFaults
  BY BoundAssumption DEF Fault

-----------------------------------------------------------------------------
(* Steps that move jobs and leave the stream alone.                          *)

\* Whatever is known of entries survives a move of the jobs, also the move the
\* consumer makes when it executes the job of its entry.
LEMMA EntriesKept ==
  ASSUME IInv, JobsMove, nJobs' \in Nat,
         UNCHANGED <<sending, streamVars, groupVars, record, eligible>>,
         UNCHANGED consVars \/ (pc # "idle" /\ pc' = "acking" /\ held' = held)
  PROVE  /\ StreamInv' /\ EligibleInv' /\ HeldInv'
         /\ EventsAreRecognised' /\ DeletedIsDone' /\ DamageIsOnRecord'
<1> USE DEF streamVars, groupVars, consVars
<1>1. /\ TypeOK /\ StreamInv /\ EligibleInv /\ HeldInv
      /\ EventsAreRecognised /\ DeletedIsDone /\ DamageIsOnRecord
  BY DEF IInv
<1>2. \A e \in Entry : event[e] = 0 \/ event[e] \in Job
  BY <1>1, BoundAssumption DEF TypeOK, Job
<1>3. nJobs \in Nat /\ \A e \in Entry : event[e] \in Nat
  BY <1>1, BoundAssumption DEF TypeOK
<1>4. StreamInv'
  BY <1>1, <1>3 DEF StreamInv, JobsMove, TypeOK, Job
<1>5. EligibleInv'
  BY <1>1, <1>2 DEF EligibleInv, Done, JobsMove, TypeOK
<1>6. HeldInv'
  BY <1>1, <1>2 DEF HeldInv, JobsMove
<1>7. EventsAreRecognised' /\ DamageIsOnRecord'
  BY <1>1 DEF EventsAreRecognised, DamageIsOnRecord
<1>8. DeletedIsDone'
  <2>1. \A e \in 1..nEntries : e \in Entry
    BY <1>1, BoundAssumption DEF TypeOK, Entry
  <2> QED BY <1>1, <1>2, <2>1 DEF DeletedIsDone, Handled, JobsMove
<1> QED BY <1>4, <1>5, <1>6, <1>7, <1>8

\* The number of a new job is its generation.
LEMMA EnqueueJobs ==
  ASSUME TypeOK, JobsInv, NEW base \in [Job -> {"active", "stopped", "finished", "archived", "none"}],
         Enqueue(base), UNCHANGED picked,
         \A j \in Job : base[j] = jobState[j] \/ (jobState[j] \in {"active", "stopped"}
                                                 /\ base[j] = "finished")
  PROVE  /\ JobsInv' /\ JobsMove /\ nJobs' \in 1..MaxJobs
         /\ jobState' \in [Job -> {"none", "active", "stopped", "finished", "archived"}]
         /\ gen' \in [Job -> 0..MaxJobs]
<1> DEFINE Gens == {0} \cup {gen[j] : j \in {k \in Job : InTable(k)}}
<1>1. nJobs \in Job /\ nJobs + 1 \in Job /\ nJobs \in Nat /\ nJobs # 0
  BY BoundAssumption DEF TypeOK, Enqueue, Job
<1>2. nJobs \in Gens
  BY <1>1 DEF JobsInv
<1>3. \A n \in Gens : n \in Nat /\ n <= nJobs
  <2>1. \A j \in Job : InTable(j) => gen[j] = j /\ j <= nJobs
    BY <1>1 DEF JobsInv, InTable, Job
  <2> QED BY <2>1, <1>1 DEF Job
<1>4. Max(Gens) = nJobs
  <2>1. \A n \in Gens : nJobs >= n
    BY <1>1, <1>3
  <2>2. \A x \in Gens : (\A y \in Gens : x >= y) => x = nJobs
    BY <1>1, <1>2, <1>3
  <2> HIDE DEF Gens
  <2> QED BY <2>1, <2>2, <1>2 DEF Max
<1>5. gen' = [gen EXCEPT ![nJobs + 1] = nJobs + 1]
  <2>1. gen' = [gen EXCEPT ![nJobs + 1] = 1 + Max(Gens)]
    BY Zenon DEF Enqueue
  <2>2. 1 + nJobs = nJobs + 1
    BY <1>1
  <2> HIDE DEF Gens
  <2> QED BY <2>1, <2>2, <1>4
<1>6. nJobs' = nJobs + 1 /\ jobState' = [base EXCEPT ![nJobs + 1] = "active"]
  BY DEF Enqueue
<1> HIDE DEF Gens
<1>7. jobState[nJobs + 1] = "none"
  BY <1>1 DEF JobsInv, Job
<1>8. JobsMove
  BY <1>1, <1>6, <1>7 DEF JobsMove, Closed, TypeOK
<1>9. JobsInv'
  <2>1. \A j \in Job : j <= nJobs' => gen'[j] = j /\ jobState'[j] # "none"
    BY <1>1, <1>5, <1>6, BoundAssumption DEF JobsInv, TypeOK, Job
  <2>2. \A j \in Job : j > nJobs' => jobState'[j] = "none"
    <3> SUFFICES ASSUME NEW j \in Job, j > nJobs + 1 PROVE jobState'[j] = "none"
      BY <1>6
    <3>1. j > nJobs /\ j # nJobs + 1
      BY <1>1, BoundAssumption DEF Job
    <3>2. jobState[j] = "none"
      BY <3>1 DEF JobsInv
    <3> QED BY <3>1, <3>2, <1>1, <1>6
  <2>3. InTable(nJobs)'
    BY <1>1, <1>6 DEF InTable
  <2>4. \A j \in picked' : j < nJobs' /\ jobState'[j] = "finished"
    BY <1>1, <1>6, <1>7 DEF JobsInv, TypeOK, Job
  <2> QED BY <2>1, <2>2, <2>3, <2>4 DEF JobsInv
<1>10. nJobs' \in 1..MaxJobs /\ gen' \in [Job -> 0..MaxJobs]
  BY <1>1, <1>5, <1>6, BoundAssumption DEF Job, TypeOK
<1> QED BY <1>6, <1>8, <1>9, <1>10

\* A job is finished, with a successor or without.
LEMMA FinishJobs ==
  ASSUME TypeOK, JobsInv, NEW j \in Job, Finish(j), UNCHANGED picked
  PROVE  /\ JobsInv' /\ JobsMove /\ nJobs' \in 1..MaxJobs
         /\ jobState' \in [Job -> {"none", "active", "stopped", "finished", "archived"}]
         /\ gen' \in [Job -> 0..MaxJobs] /\ settled' \in BOOLEAN
<1> DEFINE done == [jobState EXCEPT ![j] = "finished"]
<1>1. /\ done \in [Job -> {"active", "stopped", "finished", "archived", "none"}]
      /\ \A k \in Job : done[k] = jobState[k] \/ (jobState[k] \in {"active", "stopped"}
                                                 /\ done[k] = "finished")
  BY DEF Finish, TypeOK
<1>2. CASE Enqueue(done) /\ UNCHANGED settled
  <2> HIDE DEF done
  <2>1. settled' \in BOOLEAN
    BY <1>2 DEF TypeOK
  <2> QED BY <1>1, <1>2, <2>1, EnqueueJobs
<1>3. CASE jobState' = done /\ settled' \in {settled, TRUE} /\ UNCHANGED <<nJobs, gen>>
  <2>1. jobState[j] = "active"
    BY DEF Finish
  <2>2. settled' \in BOOLEAN
    BY <1>3 DEF TypeOK
  <2>3. JobsInv'
    BY <1>3, <2>1, BoundAssumption DEF TypeOK, JobsInv, InTable, Job
  <2>4. JobsMove
    BY <1>3, <2>1, BoundAssumption DEF TypeOK, JobsMove, Closed
  <2> QED BY <1>1, <1>3, <2>2, <2>3, <2>4 DEF TypeOK
<1> QED BY <1>2, <1>3 DEF Finish

LEMMA JobSteps ==
  ASSUME IInv, NEW j \in Job, Callback \/ Executed(j) \/ Fail(j) \/ Retry(j) \/ Age(j)
  PROVE  IInv'
<1>1. TypeOK /\ JobsInv
  BY DEF IInv
<1>2. UNCHANGED <<relayVars, picked, streamVars, groupVars, record, consVars, eligible>>
  BY DEF Callback, Executed, Fail, Retry, Age
<1>3. /\ JobsInv' /\ JobsMove /\ nJobs' \in 1..MaxJobs
      /\ jobState' \in [Job -> {"none", "active", "stopped", "finished", "archived"}]
      /\ gen' \in [Job -> 0..MaxJobs] /\ settled' \in BOOLEAN
  <2>1. CASE Callback
    BY <2>1, <1>1, <1>2, EnqueueJobs DEF Callback, TypeOK
  <2>2. CASE Executed(j)
    BY <2>2, <1>1, <1>2, FinishJobs DEF Executed
  <2>3. CASE Fail(j)
    BY <2>3, <1>1, BoundAssumption DEF Fail, TypeOK, JobsInv, JobsMove, InTable, Closed, Job
  <2>4. CASE Retry(j)
    <3> DEFINE base == [jobState EXCEPT ![j] = "finished"]
    <3>1. /\ base \in [Job -> {"active", "stopped", "finished", "archived", "none"}]
          /\ \A k \in Job : base[k] = jobState[k] \/ (jobState[k] \in {"active", "stopped"}
                                                     /\ base[k] = "finished")
      BY <2>4, <1>1 DEF Retry, TypeOK
    <3>2. Enqueue(base) /\ UNCHANGED <<settled, picked>>
      BY <2>4 DEF Retry
    <3> HIDE DEF base
    <3> QED BY <3>1, <3>2, <1>1, EnqueueJobs DEF TypeOK
  <2>5. CASE Age(j)
    BY <2>5, <1>1, BoundAssumption DEF Age, TypeOK, JobsInv, JobsMove, InTable, Closed, Job
  <2> QED BY <2>1, <2>2, <2>3, <2>4, <2>5
<1>4. faults' \in 0..MaxFaults /\ old' \in [Job -> BOOLEAN]
  BY <1>1, FaultBound DEF TypeOK, Callback, Executed, Fail, Retry, Age, Finish
<1>5. TypeOK'
  BY <1>1, <1>2, <1>3, <1>4 DEF TypeOK, relayVars, streamVars, groupVars, consVars
<1>6. nJobs' \in Nat /\ UNCHANGED sending
  BY <1>2, <1>3, BoundAssumption DEF relayVars
<1> QED BY <1>2, <1>3, <1>5, <1>6, EntriesKept DEF IInv

\* Job retention keeps the newest job.
LEMMA RetentionSteps == ASSUME IInv, Pick \/ Archive PROVE IInv'
<1>1. TypeOK /\ JobsInv
  BY DEF IInv
<1>2. UNCHANGED <<nJobs, gen, relayVars, streamVars, groupVars, record, consVars, eligible>>
  BY DEF Pick, Archive, jobVars
<1>3. nJobs \in Job /\ nJobs \in Nat
  BY <1>1, BoundAssumption DEF TypeOK, Job
<1>4. TypeOK' /\ JobsInv' /\ JobsMove
  <2>1. CASE Pick
    <3>1. \A j \in picked' : j \in Job /\ jobState[j] = "finished" /\ Superseded(j)
      BY <2>1 DEF Pick
    <3>2. \A j \in Job : jobState[j] = "finished" /\ Superseded(j) => j < nJobs
      <4> SUFFICES ASSUME NEW j \in Job, jobState[j] = "finished", Superseded(j)
                   PROVE  j < nJobs
        OBVIOUS
      <4>1. PICK k \in Job : InTable(k) /\ gen[k] > gen[j]
        BY DEF Superseded
      <4>2. k <= nJobs /\ j <= nJobs
        BY <1>1, <1>3, <4>1 DEF JobsInv, InTable, Job
      <4> QED BY <1>1, <1>3, <4>1, <4>2 DEF JobsInv, Job
    <3>3. TypeOK'
      BY <2>1, <1>1 DEF Pick, TypeOK, jobVars, relayVars, streamVars, groupVars, consVars
    <3> QED BY <2>1, <3>1, <3>2, <3>3, <1>1, <1>3
            DEF Pick, JobsInv, JobsMove, InTable, jobVars
  <2>2. CASE Archive
    <3>1. TypeOK'
      BY <2>2, <1>1 DEF Archive, TypeOK, relayVars, streamVars, groupVars, consVars
    <3>2. nJobs \notin picked
      BY <1>1, <1>3 DEF JobsInv
    <3> QED BY <2>2, <3>1, <3>2, <1>1, <1>3
            DEF Archive, JobsInv, JobsMove, InTable, Closed, TypeOK
  <2> QED BY <2>1, <2>2
<1> QED BY <1>2, <1>3, <1>4, EntriesKept DEF IInv, relayVars

-----------------------------------------------------------------------------
(* Steps of relays, groups and the consumer.                                 *)
LEMMA RelaySteps == ASSUME IInv, NEW j \in Job, ClaimRow(j) \/ RowLeaseExpires(j) PROVE IInv'
<1>1. TypeOK /\ JobsInv /\ StreamInv
  BY DEF IInv
<1>2. UNCHANGED <<jobVars, picked, streamVars, groupVars, record, consVars, eligible>>
  BY DEF ClaimRow, RowLeaseExpires
<1>3. faults' \in 0..MaxFaults /\ rowLease' \in [Job -> BOOLEAN]
  BY <1>1, FaultBound DEF ClaimRow, RowLeaseExpires, TypeOK
<1>4. \A s \in sending' : s \in sending \/ s = <<j, TRUE>> \/ s = <<j, FALSE>>
  BY Zenon DEF ClaimRow, RowLeaseExpires
<1>5. sending' # sending => j <= nJobs
  <2>1. CASE ClaimRow(j)
    <3>1. jobState[j] # "none"
      BY <2>1 DEF ClaimRow
    <3>2. nJobs \in Nat /\ j \in Nat
      BY <1>1, BoundAssumption DEF TypeOK, Job
    <3> QED BY <3>1, <3>2, <1>1 DEF JobsInv
  <2>2. CASE RowLeaseExpires(j)
    <3>1. CASE <<j, TRUE>> \in sending
      BY <3>1, <1>1 DEF StreamInv
    <3>2. CASE <<j, TRUE>> \notin sending
      BY <3>2, <2>2 DEF RowLeaseExpires
    <3> QED BY <3>1, <3>2
  <2> QED BY <2>1, <2>2
<1>6. \A s \in sending' : s \in Job \X BOOLEAN /\ s[1] <= nJobs
  <2> SUFFICES ASSUME NEW s \in sending', s \notin sending
               PROVE  s \in Job \X BOOLEAN /\ s[1] <= nJobs
    BY <1>1 DEF TypeOK, StreamInv
  <2>1. s = <<j, TRUE>> \/ s = <<j, FALSE>>
    BY <1>4
  <2>2. j <= nJobs
    BY <1>5
  <2>3. CASE s = <<j, TRUE>>
    BY <2>2, <2>3
  <2>4. CASE s = <<j, FALSE>>
    BY <2>2, <2>4
  <2> QED BY <2>1, <2>3, <2>4
<1>7. TypeOK'
  <2>1. sending' \subseteq Job \X BOOLEAN
    BY <1>6
  <2> QED BY <1>1, <1>2, <1>3, <2>1 DEF TypeOK, jobVars, streamVars, groupVars, consVars
<1>8. JobsInv' /\ StreamInv' /\ EligibleInv' /\ HeldInv'
  BY <1>2, <1>6 DEF IInv, JobsInv, StreamInv, EligibleInv, HeldInv, Done, InTable,
     jobVars, streamVars, groupVars, consVars
<1>9. EventsAreRecognised' /\ DeletedIsDone' /\ DamageIsOnRecord'
  BY <1>2 DEF IInv, EventsAreRecognised, DeletedIsDone, DamageIsOnRecord, Handled, jobVars,
     streamVars, groupVars
<1> QED BY <1>7, <1>8, <1>9 DEF IInv

\* A new entry is unread, unrecorded and not chosen.
LEMMA AddSteps ==
  ASSUME IInv, NEW j \in Job, NEW holds \in BOOLEAN, Publish(j, holds) \/ Damage
  PROVE  IInv'
<1>1. /\ TypeOK /\ JobsInv /\ StreamInv /\ EligibleInv /\ HeldInv
      /\ EventsAreRecognised /\ DeletedIsDone /\ DamageIsOnRecord
  BY DEF IInv
<1>2. PICK i \in {0} \cup Job : Add(i) /\ i <= nJobs
  <2>1. CASE Publish(j, holds)
    <3>1. <<j, holds>>[1] <= nJobs
      BY <2>1, <1>1 DEF Publish, StreamInv
    <3> QED BY <2>1, <3>1 DEF Publish
  <2>2. CASE Damage
    BY <2>2, <1>1, BoundAssumption DEF Damage, TypeOK
  <2> QED BY <2>1, <2>2
<1>3. /\ nEntries \in Nat /\ nEntries + 1 \in Entry /\ nEntries' = nEntries + 1
      /\ event' = [event EXCEPT ![nEntries + 1] = i]
      /\ inStream' = inStream \cup {nEntries + 1}
  BY <1>1, <1>2, BoundAssumption DEF Add, TypeOK, Entry
<1>4. UNCHANGED <<jobVars, picked, groupVars, record, consVars, eligible>> /\ sending' \subseteq sending
  BY DEF Publish, Damage, relayVars
<1>5. TypeOK'
  <2>1. faults' \in 0..MaxFaults
    BY <1>1, FaultBound DEF TypeOK, Publish, Damage
  <2>2. rowLease' \in [Job -> BOOLEAN] /\ sending' \subseteq Job \X BOOLEAN
    <3>1. CASE Publish(j, holds)
      BY <3>1, <1>1 DEF Publish, TypeOK
    <3>2. CASE Damage
      BY <3>2, <1>1 DEF Damage, TypeOK, relayVars
    <3> QED BY <3>1, <3>2
  <2>3. event' \in [Entry -> 0..MaxJobs]
    <3>1. i \in 0..MaxJobs
      BY BoundAssumption DEF Job
    <3> QED BY <3>1, <1>1, <1>3 DEF TypeOK
  <2>4. inStream' \subseteq Entry
    BY <1>1, <1>3 DEF TypeOK
  <2>5. nEntries' \in 0..MaxEntries
    BY <1>3, BoundAssumption DEF Entry
  <2> QED BY <1>1, <1>4, <2>1, <2>2, <2>3, <2>4, <2>5 DEF TypeOK, jobVars, groupVars, consVars
<1>6. JobsInv'
  BY <1>1, <1>4 DEF JobsInv, InTable, jobVars
<1>7. StreamInv'
  <2>1. (\A e \in Entry : event[e] <= nJobs)'
    BY <1>1, <1>2, <1>3, <1>4 DEF StreamInv, TypeOK, jobVars
  <2>2. (\A e \in inStream \cup eligible : e <= nEntries)'
    BY <1>1, <1>3, <1>4 DEF StreamInv, TypeOK, Entry
  <2>3. (\A g \in Group : \A e \in pending[g] : e <= nEntries)'
    BY <1>1, <1>3, <1>4 DEF StreamInv, TypeOK, Entry, groupVars
  <2>4. (\A e \in Entry : record[e] # "none" => e <= nEntries)'
    BY <1>1, <1>3, <1>4 DEF StreamInv, Entry
  <2>5. (\A s \in sending : s[1] <= nJobs)'
    BY <1>1, <1>4 DEF StreamInv, jobVars
  <2> QED BY <2>1, <2>2, <2>3, <2>4, <2>5 DEF StreamInv
<1>8. EligibleInv' /\ HeldInv'
  <2>1. \A e \in Entry : e <= nEntries => event'[e] = event[e]
    BY <1>1, <1>3 DEF TypeOK, Entry
  <2>2. \A e \in eligible : e \in Entry /\ e <= nEntries
    BY <1>1 DEF TypeOK, StreamInv
  <2>3. EligibleInv'
    BY <1>1, <1>4, <2>1, <2>2 DEF EligibleInv, Done, jobVars
  <2>4. HeldInv'
    BY <1>1, <1>3, <1>4, <2>1 DEF HeldInv, Entry, jobVars, consVars
  <2> QED BY <2>3, <2>4
<1>9. EventsAreRecognised' /\ DeletedIsDone' /\ DamageIsOnRecord'
  <2>1. record[nEntries + 1] = "none"
    BY <1>1, <1>3 DEF StreamInv, Entry
  <2>2. EventsAreRecognised'
    BY <1>1, <1>3, <1>4, <2>1 DEF EventsAreRecognised, TypeOK
  <2>3. \A e \in 1..nEntries' : e \notin inStream' => e \in 1..nEntries /\ event'[e] = event[e]
                                                     /\ e \notin inStream
    BY <1>1, <1>3, BoundAssumption DEF TypeOK, Entry
  <2>4. DeletedIsDone'
    BY <1>1, <1>4, <2>3 DEF DeletedIsDone, Handled, jobVars, groupVars
  <2>5. \A e \in 1..nEntries' : record'[e] = "pruned" => e \in 1..nEntries /\ event'[e] = event[e]
                                                     /\ e # nEntries + 1
    BY <1>1, <1>3, <1>4, <2>1, BoundAssumption DEF TypeOK, Entry
  <2>6. DamageIsOnRecord'
    BY <1>1, <1>3, <1>4, <2>5 DEF DamageIsOnRecord
  <2> QED BY <2>2, <2>4, <2>6
<1> QED BY <1>5, <1>6, <1>7, <1>8, <1>9 DEF IInv

\* A step that leaves jobs, relays, entries and what is known of them alone.
LEMMA StillThere ==
  ASSUME IInv, UNCHANGED <<jobVars, picked, sending, streamVars>>,
         \A g \in Group : \A e \in pending'[g] : e <= nEntries,
         \A e \in eligible' : e \in Entry /\ e <= nEntries,
         \A e \in Entry : record'[e] = record[e] \/ (record'[e] # "none" /\ e <= nEntries)
  PROVE  JobsInv' /\ StreamInv'
BY DEF IInv, JobsInv, StreamInv, InTable, TypeOK, jobVars, streamVars

LEMMA GroupSteps ==
  ASSUME IInv, NEW e \in Entry,
         OtherReads(e) \/ OtherAcks(e) \/ Read(e) \/ (Ack /\ e = held)
  PROVE  IInv'
<1>1. /\ TypeOK /\ StreamInv /\ EligibleInv /\ HeldInv
      /\ EventsAreRecognised /\ DeletedIsDone /\ DamageIsOnRecord
  BY DEF IInv
<1>2. UNCHANGED <<jobVars, relayVars, picked, streamVars, record, eligible, faults>>
  BY DEF OtherReads, OtherAcks, Read, Ack
<1>3. /\ "workers" \in Group /\ "other" \in Group
      /\ Entry \subseteq 0..MaxEntries /\ 0 \in 0..MaxEntries
      /\ Entry \subseteq Nat /\ nEntries \in Nat
  BY <1>1, BoundAssumption DEF Group, Entry, TypeOK
<1>4. /\ last' \in [Group -> 0..MaxEntries] /\ pending' \in [Group -> SUBSET Entry]
      /\ \A g \in Group : last'[g] \in Nat /\ last[g] \in Nat /\ last[g] <= last'[g]
      /\ \A g \in Group : \A d \in pending'[g] : d \in pending[g] \/ (d = e /\ d \in inStream)
  <2>1. ASSUME NEW g \in Group, Deliver(g, e)
        PROVE  /\ last' \in [Group -> 0..MaxEntries] /\ pending' \in [Group -> SUBSET Entry]
               /\ \A h \in Group : last'[h] \in Nat /\ last[h] \in Nat /\ last[h] <= last'[h]
               /\ \A h \in Group : \A d \in pending'[h] :
                    d \in pending[h] \/ (d = e /\ d \in inStream)
    <3>1. \A h \in Group : last[h] \in Nat
      BY <1>1, BoundAssumption DEF TypeOK
    <3>2. last' \in [Group -> 0..MaxEntries] /\ \A h \in Group : last'[h] = last[h] \/ last'[h] = e
      BY <2>1, <1>1, <1>3 DEF Deliver, TypeOK
    <3>3. \A h \in Group : last'[h] \in Nat /\ last[h] <= last'[h]
      BY <2>1, <3>1, <1>1, <1>3 DEF Deliver, TypeOK
    <3>4. /\ pending' \in [Group -> SUBSET Entry]
          /\ \A h \in Group : \A d \in pending'[h] :
               d \in pending[h] \/ (d = e /\ d \in inStream)
      BY <2>1, <1>1 DEF Deliver, TypeOK
    <3> QED BY <3>1, <3>2, <3>3, <3>4
  <2>2. \A h \in Group : last[h] \in Nat /\ last[h] <= last[h]
    BY <1>1, BoundAssumption DEF TypeOK
  <2>3. CASE OtherReads(e)
    BY <2>1, <2>3, <1>3 DEF OtherReads
  <2>4. CASE OtherAcks(e)
    BY <2>2, <2>4, <1>1, <1>3 DEF OtherAcks, TypeOK
  <2>5. CASE Read(e)
    <3>1. CASE Deliver("workers", e)
      BY <2>1, <3>1, <1>3
    <3>2. CASE UNCHANGED groupVars
      BY <2>2, <3>2, <1>1 DEF groupVars, TypeOK
    <3> QED BY <2>5, <3>1, <3>2 DEF Read
  <2>6. CASE Ack
    BY <2>2, <2>6, <1>1, <1>3 DEF Ack, TypeOK
  <2> QED BY <2>3, <2>4, <2>5, <2>6
<1>5. /\ pc' \in {"idle", "read", "rowless", "valid", "invalid", "acking"}
      /\ held' \in 0..MaxEntries
  BY <1>1, <1>3 DEF OtherReads, OtherAcks, Read, Ack, Goto, TypeOK, consVars
<1>6. TypeOK'
  BY <1>1, <1>2, <1>4, <1>5 DEF TypeOK, jobVars, relayVars, streamVars
<1>7. HeldInv'
  <2>1. CASE Read(e)
    <3>1. e <= nEntries
      BY <2>1, <1>1, <1>3 DEF Read, Deliver, StreamInv
    <3> QED BY <2>1, <3>1, <1>2 DEF Read, Goto, HeldInv, streamVars
  <2>2. CASE Ack
    BY <2>2 DEF Ack, Goto, HeldInv
  <2>3. CASE OtherReads(e) \/ OtherAcks(e)
    BY <2>3, <1>1, <1>2 DEF OtherReads, OtherAcks, HeldInv, jobVars, streamVars, consVars
  <2> QED BY <2>1, <2>2, <2>3
<1>8. JobsInv' /\ StreamInv'
  <2>1. \A g \in Group : \A d \in pending'[g] : d <= nEntries
    BY <1>1, <1>4 DEF StreamInv
  <2>2. \A d \in eligible' : d \in Entry /\ d <= nEntries
    BY <1>1, <1>2 DEF StreamInv, TypeOK
  <2> QED BY <1>2, <2>1, <2>2, StillThere DEF relayVars
<1>9. EligibleInv' /\ EventsAreRecognised' /\ DamageIsOnRecord'
  BY <1>1, <1>2 DEF EligibleInv, Done, EventsAreRecognised, DamageIsOnRecord, jobVars, streamVars
<1>10. DeletedIsDone'
  <2> SUFFICES ASSUME NEW d \in 1..nEntries, d \notin inStream
               PROVE  Handled(d)'
    BY <1>1, <1>2 DEF DeletedIsDone, jobVars, streamVars
  <2>1. Handled(d)
    BY <1>1 DEF DeletedIsDone
  <2>2. \A g \in Group : d \notin pending'[g]
    BY <2>1, <1>4 DEF Handled
  <2>3. \A g \in Group : d <= last'[g]
    BY <2>1, <1>4, <1>3 DEF Handled
  <2> QED BY <2>2, <2>3 DEF Handled
<1> QED BY <1>6, <1>7, <1>8, <1>9, <1>10 DEF IInv

\* The consumer looks, and what it sees of the entry it holds is lasting.
LEMMA LookSteps ==
  ASSUME IInv, LookUpRow \/ LookUpArchive \/ Crash \/ (Execute /\ UNCHANGED jobVars)
  PROVE  IInv'
<1>1. TypeOK /\ JobsInv /\ StreamInv /\ EligibleInv /\ HeldInv
  BY DEF IInv
<1>2. UNCHANGED <<jobVars, relayVars, picked, streamVars, groupVars, record, eligible>>
  BY DEF LookUpRow, LookUpArchive, Crash, Execute, Looks
<1>3. faults' \in 0..MaxFaults
  BY <1>1, FaultBound DEF LookUpRow, LookUpArchive, Crash, Execute, Looks, TypeOK
<1>4. 0 \in 0..MaxEntries
  BY BoundAssumption
<1>5. /\ pc' \in {"idle", "read", "rowless", "valid", "invalid", "acking"}
      /\ held' \in 0..MaxEntries
  BY <1>1, <1>4 DEF LookUpRow, LookUpArchive, Crash, Execute, Looks, Goto, TypeOK
<1>6. TypeOK'
  BY <1>1, <1>2, <1>3, <1>5 DEF TypeOK, jobVars, relayVars, streamVars, groupVars
<1>7. HeldInv'
  <2>1. CASE LookUpRow
    <3>1. held \in Entry /\ pc' \in {"invalid", "rowless", "valid"} /\ held' = held
      BY <2>1, <1>1 DEF LookUpRow, Looks, Goto, HeldInv
    <3>2. event[held] \in {0} \cup Job /\ event[held] <= nJobs
      BY <3>1, <1>1, BoundAssumption DEF TypeOK, StreamInv, Job
    <3>3. event[held] # 0 /\ ~InTable(event[held]) => jobState[event[held]] = "archived"
      BY <3>2, <1>1 DEF JobsInv, InTable
    <3> QED BY <2>1, <3>1, <3>3, <1>1, <1>2
            DEF LookUpRow, Looks, Goto, HeldInv, jobVars, streamVars
  <2>2. CASE LookUpArchive
    BY <2>2, <1>1, <1>2 DEF LookUpArchive, Looks, Goto, HeldInv, jobVars, streamVars
  <2>3. CASE Crash
    BY <2>3 DEF Crash, Goto, HeldInv
  <2>4. CASE Execute
    BY <2>4, <1>1, <1>2 DEF Execute, Looks, Goto, HeldInv, jobVars, streamVars
  <2> QED BY <2>1, <2>2, <2>3, <2>4
<1>8. JobsInv' /\ StreamInv' /\ EligibleInv'
  BY <1>1, <1>2 DEF JobsInv, StreamInv, EligibleInv, Done, InTable, jobVars, relayVars,
     streamVars, groupVars
<1>9. EventsAreRecognised' /\ DeletedIsDone' /\ DamageIsOnRecord'
  BY <1>2 DEF IInv, EventsAreRecognised, DeletedIsDone, DamageIsOnRecord, Handled, jobVars,
     streamVars, groupVars
<1> QED BY <1>6, <1>7, <1>8, <1>9 DEF IInv

LEMMA FinishStep ==
  ASSUME IInv, Execute, Finish(event[held]), Goto("acking", held),
         UNCHANGED <<relayVars, picked, streamVars, groupVars, record, eligible, faults>>
  PROVE  IInv'
<1>1. TypeOK /\ JobsInv /\ HeldInv
  BY DEF IInv
<1>2. pc = "valid"
  BY DEF Execute
<1>3. event[held] \in Job
  BY <1>1, <1>2, BoundAssumption DEF HeldInv, TypeOK, Job
<1>4. /\ JobsInv' /\ JobsMove /\ nJobs' \in 1..MaxJobs
      /\ jobState' \in [Job -> {"none", "active", "stopped", "finished", "archived"}]
      /\ gen' \in [Job -> 0..MaxJobs] /\ settled' \in BOOLEAN
  BY <1>1, <1>3, FinishJobs
<1>5. UNCHANGED old
  BY DEF Finish
<1>6. TypeOK'
  BY <1>1, <1>4, <1>5 DEF TypeOK, Goto, relayVars, streamVars, groupVars
<1>7. nJobs' \in Nat /\ UNCHANGED sending
  BY <1>4, BoundAssumption DEF relayVars
<1> QED BY <1>2, <1>4, <1>6, <1>7, EntriesKept DEF IInv, Goto

-----------------------------------------------------------------------------
(* Steps that record, choose and delete entries.                             *)
LEMMA RecordSteps ==
  ASSUME IInv, NEW e \in Entry, Quarantine \/ AgeRecord(e) \/ Prune(e)
  PROVE  IInv'
<1>1. /\ TypeOK /\ StreamInv /\ EligibleInv /\ HeldInv
      /\ EventsAreRecognised /\ DeletedIsDone /\ DamageIsOnRecord
  BY DEF IInv
<1>2. UNCHANGED <<jobVars, relayVars, picked, streamVars, groupVars, eligible, faults>>
  BY DEF Quarantine, AgeRecord, Prune
<1>3. /\ record' \in [Entry -> {"none", "new", "old", "pruned"}]
      /\ \A d \in Entry :
           /\ record'[d] = record[d] \/ (record'[d] # "none" /\ d <= nEntries /\ event[d] = 0)
           /\ record[d] \in {"old", "pruned"} => record'[d] \in {"old", "pruned"}
           /\ record'[d] = "pruned" => record[d] = "pruned" \/ d \notin inStream
  <2>1. CASE Quarantine
    BY <2>1, <1>1 DEF Quarantine, TypeOK, HeldInv
  <2>2. CASE AgeRecord(e)
    BY <2>2, <1>1 DEF AgeRecord, TypeOK, StreamInv, EventsAreRecognised
  <2>3. CASE Prune(e)
    BY <2>3, <1>1 DEF Prune, TypeOK, StreamInv, EventsAreRecognised
  <2> QED BY <2>1, <2>2, <2>3
<1>4. TypeOK' /\ HeldInv'
  <2>1. CASE Quarantine
    BY <2>1, <1>1, <1>2, <1>3 DEF Quarantine, Goto, TypeOK, HeldInv, jobVars, relayVars,
       streamVars, groupVars
  <2>2. CASE AgeRecord(e) \/ Prune(e)
    BY <2>2, <1>1, <1>2, <1>3 DEF AgeRecord, Prune, TypeOK, HeldInv, jobVars, relayVars,
       streamVars, groupVars, consVars
  <2> QED BY <2>1, <2>2
<1>5. JobsInv' /\ StreamInv'
  <2>1. \A g \in Group : \A d \in pending'[g] : d <= nEntries
    BY <1>1, <1>2 DEF StreamInv, groupVars
  <2>2. \A d \in eligible' : d \in Entry /\ d <= nEntries
    BY <1>1, <1>2 DEF StreamInv, TypeOK
  <2> QED BY <1>2, <1>3, <2>1, <2>2, StillThere DEF relayVars
<1>6. EligibleInv'
  BY <1>1, <1>2, <1>3 DEF EligibleInv, Done, TypeOK, jobVars, streamVars
<1>7. EventsAreRecognised'
  BY <1>1, <1>2, <1>3 DEF EventsAreRecognised, streamVars
<1>8. \A d \in 1..nEntries : d \in Entry
  BY <1>1, BoundAssumption DEF TypeOK, Entry
<1>9. DeletedIsDone'
  BY <1>1, <1>2, <1>3, <1>8 DEF DeletedIsDone, Handled, jobVars, streamVars, groupVars
<1>10. DamageIsOnRecord'
  BY <1>1, <1>2, <1>3, <1>8 DEF DamageIsOnRecord, streamVars
<1> QED BY <1>4, <1>5, <1>6, <1>7, <1>9, <1>10 DEF IInv

LEMMA DeletionSteps == ASSUME IInv, Select \/ DeleteAcknowledged PROVE IInv'
<1>1. /\ TypeOK /\ StreamInv /\ EligibleInv /\ HeldInv
      /\ EventsAreRecognised /\ DeletedIsDone /\ DamageIsOnRecord
  BY DEF IInv
<1>2. /\ UNCHANGED <<jobVars, relayVars, picked, nEntries, event, groupVars, record, consVars, faults>>
      /\ inStream' \subseteq inStream /\ eligible' \subseteq inStream
  BY DEF Select, DeleteAcknowledged, streamVars
<1>3. \A d \in 1..nEntries : d \in Entry
  BY <1>1, BoundAssumption DEF TypeOK, Entry
<1>4. TypeOK'
  BY <1>1, <1>2 DEF TypeOK, jobVars, relayVars, groupVars, consVars
<1>5. JobsInv' /\ StreamInv' /\ HeldInv'
  BY <1>1, <1>2 DEF IInv, JobsInv, StreamInv, HeldInv, InTable, jobVars, relayVars,
     groupVars, consVars
<1>6. EligibleInv'
  <2>1. CASE Select
    <3>1. \A d \in eligible' : d \in Entry /\ Done(d)
      BY <2>1, <1>1 DEF Select, Done, DoneLongAgo, EventsAreRecognised, TypeOK
    <3> QED BY <3>1, <1>2 DEF EligibleInv, Done, jobVars
  <2>2. CASE DeleteAcknowledged
    BY <2>2 DEF DeleteAcknowledged, EligibleInv
  <2> QED BY <2>1, <2>2
<1>7. EventsAreRecognised' /\ DamageIsOnRecord'
  BY <1>1, <1>2 DEF EventsAreRecognised, DamageIsOnRecord
<1>8. DeletedIsDone'
  <2>1. \A d \in 1..nEntries : d \notin inStream' =>
          d \notin inStream \/ (Handled(d) /\ Done(d))
    BY <1>1 DEF Select, DeleteAcknowledged, EligibleInv, streamVars
  <2> QED BY <2>1, <1>1, <1>2 DEF DeletedIsDone, Handled, Done, jobVars, groupVars
<1> QED BY <1>4, <1>5, <1>6, <1>7, <1>8 DEF IInv

-----------------------------------------------------------------------------
(* The theorems.                                                             *)
LEMMA StepIInv == IInv /\ [Next]_vars => IInv'
<1> SUFFICES ASSUME IInv, [Next]_vars PROVE IInv'
  OBVIOUS
<1>1. CASE UNCHANGED vars
  BY <1>1 DEF IInv, TypeOK, JobsInv, StreamInv, EligibleInv, HeldInv, EventsAreRecognised,
     DeletedIsDone, DamageIsOnRecord, InTable, Done, Handled, vars, jobVars, relayVars,
     streamVars, groupVars, consVars
<1>2. CASE Callback
  <2>1. 1 \in Job
    BY BoundAssumption DEF Job
  <2> QED BY <1>2, <2>1, JobSteps
<1>3. ASSUME NEW j \in Job, Executed(j) \/ Fail(j) \/ Retry(j) \/ Age(j)
      PROVE  IInv'
  BY <1>3, JobSteps
<1>4. ASSUME NEW j \in Job, ClaimRow(j) \/ RowLeaseExpires(j)
      PROVE  IInv'
  BY <1>4, RelaySteps
<1>5. ASSUME NEW j \in Job, NEW holds \in BOOLEAN, Publish(j, holds)
      PROVE  IInv'
  BY <1>5, AddSteps
<1>6. CASE Damage
  <2>1. 1 \in Job
    BY BoundAssumption DEF Job
  <2> QED BY <1>6, <2>1, AddSteps
<1>7. ASSUME NEW e \in Entry, OtherReads(e) \/ OtherAcks(e) \/ Read(e)
      PROVE  IInv'
  BY <1>7, GroupSteps
<1>8. CASE Ack
  <2>1. held \in Entry
    BY <1>8 DEF Ack, IInv, HeldInv
  <2> QED BY <1>8, <2>1, GroupSteps
<1>9. CASE LookUpRow \/ LookUpArchive \/ Crash
  BY <1>9, LookSteps
<1>10. CASE Execute
  <2>1. CASE UNCHANGED jobVars
    BY <1>10, <2>1, LookSteps
  <2>2. CASE /\ Finish(event[held]) /\ Goto("acking", held)
             /\ UNCHANGED <<relayVars, picked, streamVars, groupVars, record, eligible, faults>>
    BY <1>10, <2>2, FinishStep
  <2> QED BY <1>10, <2>1, <2>2 DEF Execute, Looks
<1>11. CASE Quarantine
  <2>1. held \in Entry
    BY <1>11 DEF Quarantine, IInv, HeldInv
  <2> QED BY <1>11, <2>1, RecordSteps
<1>12. ASSUME NEW e \in Entry, AgeRecord(e) \/ Prune(e)
       PROVE  IInv'
  BY <1>12, RecordSteps
<1>13. CASE Pick \/ Archive
  BY <1>13, RetentionSteps
<1>14. CASE Select \/ DeleteAcknowledged
  BY <1>14, DeletionSteps
<1> QED BY <1>1, <1>2, <1>3, <1>4, <1>5, <1>6, <1>7, <1>8, <1>9, <1>10, <1>11, <1>12, <1>13,
           <1>14 DEF Next, Consuming, StreamRetention, TimePasses

\* The invariant of retention.
THEOREM Invariance == Spec => []IInv
BY InitIInv, StepIInv, PTL DEF Spec

\* Every variable holds a value of its kind.
THEOREM TypeCorrect == Spec => []TypeOK
<1>1. IInv => TypeOK
  BY DEF IInv
<1> QED BY <1>1, Invariance, PTL

\* T26: no entry the relay published is quarantined, however late it comes and
\* wherever its job is by then (valid_event, PaymentJobRetention).
THEOREM PublishedIsRecognised == Spec => []EventsAreRecognised
<1>1. IInv => EventsAreRecognised
  BY DEF IInv
<1> QED BY <1>1, Invariance, PTL

\* Nothing is deleted from the stream that anybody has still to read or to
\* acknowledge, or whose job is not closed (DELETE_ACKNOWLEDGED).
THEOREM OnlyDoneIsDeleted == Spec => []DeletedIsDone
<1>1. IInv => DeletedIsDone
  BY DEF IInv
<1> QED BY <1>1, Invariance, PTL

\* The record of a damaged entry outlives the entry (prune_quarantine).
THEOREM DamageStaysOnRecord == Spec => []DamageIsOnRecord
<1>1. IInv => DamageIsOnRecord
  BY DEF IInv
<1> QED BY <1>1, Invariance, PTL

\* Archive and table never hold the same generation twice (enqueue_in_session,
\* PaymentJobRetention).
THEOREM GenerationsNeverRepeat == Spec => []GenerationsAreUnique
<1>1. IInv => GenerationsAreUnique
  <2> SUFFICES ASSUME IInv PROVE GenerationsAreUnique
    OBVIOUS
  <2>1. \A j \in 1..nJobs : j \in Job /\ j <= nJobs
    BY BoundAssumption DEF IInv, TypeOK, Job
  <2> QED BY <2>1 DEF IInv, JobsInv, GenerationsAreUnique
<1> QED BY <1>1, Invariance, PTL
===============================================================================
