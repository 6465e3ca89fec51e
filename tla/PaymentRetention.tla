--------------------------- MODULE PaymentRetention ---------------------------
(***************************************************************************)
(* Cleaning up behind the payment queue.                                   *)
(*                                                                         *)
(* Job retention moves old finished jobs of a settled payment, with their  *)
(* outbox rows, to an archive of identities.  Stream retention deletes old *)
(* entries of finished or archived jobs once every consumer group has      *)
(* acknowledged them, and forgets quarantined entries after they are gone. *)
(* Relays, the consumer and administrators go on meanwhile.                *)
(*                                                                         *)
(* One payment and the stream of one job kind.  Entries are numbered in    *)
(* the order of their ids; a page of the scan is the whole stream.         *)
(***************************************************************************)
EXTENDS Naturals, FiniteSetsExt

CONSTANTS MaxJobs,     \* bound: jobs of the payment
          MaxEntries,  \* bound: entries ever added to the stream
          MaxFaults    \* bound: crashes, slow relays, failed jobs, damaged entries

ASSUME BoundAssumption == MaxJobs \in Nat \ {0} /\ MaxEntries \in Nat /\ MaxFaults \in Nat

Job   == 1..MaxJobs
Entry == 1..MaxEntries
Group == {"workers", "other"}  \* the consumers' group and one nobody expected
Closed == {"finished", "archived"}

VARIABLES
  nJobs, jobState,
  gen,        \* generation of a job within its kind
  old,        \* finished_at is before the cutoff
  settled,    \* final status, CRM entries made, no write of unknown result
  rowLease,   \* publisher_lease_until of its outbox row is in the future
  sending,    \* XADDs on their way: the job and whether its row lease is still theirs
  picked,     \* jobs selected by job retention, not yet moved
  nEntries, event,   \* the job an entry names, 0 for a damaged entry
  inStream,
  last, pending,     \* last-delivered-id and pending entries of each group
  record,     \* quarantine row of an entry: "none", "new", "old", "pruned"
  pc, held,   \* the consumer and its entry
  eligible,   \* entries stream retention is about to delete
  faults

jobVars    == <<nJobs, jobState, gen, old, settled>>
relayVars  == <<rowLease, sending>>
streamVars == <<nEntries, event, inStream>>
groupVars  == <<last, pending>>
consVars   == <<pc, held>>
vars == <<jobVars, relayVars, picked, streamVars, groupVars, record, consVars, eligible,
          faults>>

Fault == faults < MaxFaults /\ faults' = faults + 1

InTable(j) == jobState[j] \notin {"none", "archived"}

Init ==
  /\ nJobs = 1
  /\ jobState = [j \in Job |-> IF j = 1 THEN "active" ELSE "none"]
  /\ gen = [j \in Job |-> IF j = 1 THEN 1 ELSE 0]
  /\ old = [j \in Job |-> FALSE]
  /\ settled = FALSE
  /\ rowLease = [j \in Job |-> FALSE]
  /\ sending = {}
  /\ picked = {}
  /\ nEntries = 0
  /\ event = [e \in Entry |-> 0]
  /\ inStream = {}
  /\ last = [g \in Group |-> 0]
  /\ pending = [g \in Group |-> {}]
  /\ record = [e \in Entry |-> "none"]
  /\ pc = "idle" /\ held = 0
  /\ eligible = {}
  /\ faults = 0

-----------------------------------------------------------------------------
(* Jobs.                                                                     *)

\* A new job continues the generations of the rows that are in the table.
Enqueue(base) ==
  /\ nJobs < MaxJobs
  /\ nJobs' = nJobs + 1
  /\ jobState' = [base EXCEPT ![nJobs + 1] = "active"]
  /\ gen' = [gen EXCEPT ![nJobs + 1] = 1 + Max({0} \cup {gen[j] : j \in {k \in Job : InTable(k)}})]

\* Another job, of a callback or of a job that finished, also for a payment that
\* is settled.
Callback ==
  /\ Enqueue(jobState)
  /\ UNCHANGED <<old, settled, relayVars, picked, streamVars, groupVars, record, consVars,
                 eligible, faults>>

\* An executor finishes a job: with a successor, or the payment with it, or neither.
Finish(j) ==
  /\ jobState[j] = "active"
  /\ LET done == [jobState EXCEPT ![j] = "finished"] IN
     \/ Enqueue(done) /\ UNCHANGED settled
     \/ jobState' = done /\ settled' \in {settled, TRUE} /\ UNCHANGED <<nJobs, gen>>
  /\ UNCHANGED old

Executed(j) ==
  /\ Finish(j)
  /\ UNCHANGED <<relayVars, picked, streamVars, groupVars, record, consVars, eligible, faults>>

Fail(j) ==
  /\ jobState[j] = "active"
  /\ Fault
  /\ jobState' = [jobState EXCEPT ![j] = "stopped"]
  /\ UNCHANGED <<nJobs, gen, old, settled, relayVars, picked, streamVars, groupVars, record,
                 consVars, eligible>>

\* An administrator replaces a stopped job.
Retry(j) ==
  /\ jobState[j] = "stopped"
  /\ Enqueue([jobState EXCEPT ![j] = "finished"])
  /\ UNCHANGED <<old, settled, relayVars, picked, streamVars, groupVars, record, consVars,
                 eligible, faults>>

Age(j) ==
  /\ jobState[j] = "finished" /\ ~old[j]
  /\ old' = [old EXCEPT ![j] = TRUE]
  /\ UNCHANGED <<nJobs, jobState, gen, settled, relayVars, picked, streamVars, groupVars,
                 record, consVars, eligible, faults>>

-----------------------------------------------------------------------------
(* The relay and the stream.                                                 *)
ClaimRow(j) ==
  /\ jobState[j] = "active" /\ ~rowLease[j]
  /\ rowLease' = [rowLease EXCEPT ![j] = TRUE]
  /\ sending' = sending \cup {<<j, TRUE>>}
  /\ UNCHANGED <<jobVars, picked, streamVars, groupVars, record, consVars, eligible, faults>>

RowLeaseExpires(j) ==
  /\ rowLease[j]
  /\ IF <<j, TRUE>> \in sending
     THEN Fault /\ sending' = (sending \ {<<j, TRUE>>}) \cup {<<j, FALSE>>}
     ELSE UNCHANGED <<sending, faults>>
  /\ rowLease' = [rowLease EXCEPT ![j] = FALSE]
  /\ UNCHANGED <<jobVars, picked, streamVars, groupVars, record, consVars, eligible>>

Add(j) ==
  /\ nEntries < MaxEntries
  /\ nEntries' = nEntries + 1
  /\ event' = [event EXCEPT ![nEntries + 1] = j]
  /\ inStream' = inStream \cup {nEntries + 1}

\* XADD, whatever became of the job and the row since they were claimed; published
\* lets go of a row that is still held and whose job is not finished.
Publish(j, holds) ==
  /\ <<j, holds>> \in sending
  /\ Add(j)
  /\ sending' = sending \ {<<j, holds>>}
  /\ rowLease' = [rowLease EXCEPT ![j] = @ /\ ~(holds /\ jobState[j] \notin Closed)]
  /\ UNCHANGED <<jobVars, picked, groupVars, record, consVars, eligible, faults>>

\* Something that is no event of this queue gets into the stream.
Damage ==
  /\ Fault
  /\ Add(0)
  /\ UNCHANGED <<jobVars, relayVars, picked, groupVars, record, consVars, eligible>>

\* XREADGROUP ">": the next entry after the last one delivered to the group.
Deliver(g, e) ==
  /\ e \in inStream /\ e > last[g]
  /\ \A d \in inStream : d > last[g] => e <= d
  /\ last' = [last EXCEPT ![g] = e]
  /\ pending' = [pending EXCEPT ![g] = @ \cup {e}]

OtherReads(e) ==
  /\ Deliver("other", e)
  /\ UNCHANGED <<jobVars, relayVars, picked, streamVars, record, consVars, eligible, faults>>

OtherAcks(e) ==
  /\ e \in pending["other"]
  /\ pending' = [pending EXCEPT !["other"] = @ \ {e}]
  /\ UNCHANGED <<jobVars, relayVars, picked, streamVars, last, record, consVars, eligible, faults>>

-----------------------------------------------------------------------------
(* The consumer.                                                             *)
Goto(step, e) == pc' = step /\ held' = e

\* A new entry, or one left pending.
Read(e) ==
  /\ pc = "idle"
  /\ \/ Deliver("workers", e)
     \/ e \in pending["workers"] /\ UNCHANGED groupVars
  /\ Goto("read", e)
  /\ UNCHANGED <<jobVars, relayVars, picked, streamVars, record, eligible, faults>>

\* Steps of the consumer that only look at the database.
Looks(step) ==
  /\ Goto(step, held)
  /\ UNCHANGED <<jobVars, relayVars, picked, streamVars, groupVars, record, eligible, faults>>

\* Mutant of LookUpRow: the archive is not asked.
LookUpRowOnly ==
  /\ pc = "read"
  /\ Looks(IF event[held] # 0 /\ InTable(event[held]) THEN "valid" ELSE "invalid")

\* decode and event_for: the outbox row of the event and its job.
LookUpRow ==
  /\ pc = "read"
  /\ Looks(IF event[held] = 0 THEN "invalid"
           ELSE IF InTable(event[held]) THEN "valid" ELSE "rowless")

\* valid_event: failing that, the archive, by a query of its own.
LookUpArchive ==
  /\ pc = "rowless"
  /\ Looks(IF jobState[event[held]] = "archived" THEN "valid" ELSE "invalid")

Quarantine ==
  /\ pc = "invalid"
  /\ record' = [record EXCEPT ![held] = IF @ = "none" THEN "new" ELSE @]
  /\ Goto("acking", held)
  /\ UNCHANGED <<jobVars, relayVars, picked, streamVars, groupVars, eligible, faults>>

\* execute: what is finished, stopped or gone is acknowledged; the rest is finished
\* first, or left pending when somebody else has it.
Execute ==
  /\ pc = "valid"
  /\ \/ jobState[event[held]] # "active" /\ Looks("acking")
     \/ /\ Finish(event[held])
        /\ Goto("acking", held)
        /\ UNCHANGED <<relayVars, picked, streamVars, groupVars, record, eligible, faults>>
     \/ /\ jobState[event[held]] = "active"
        /\ Goto("idle", 0)
        /\ UNCHANGED <<jobVars, relayVars, picked, streamVars, groupVars, record, eligible,
                       faults>>

Ack ==
  /\ pc = "acking"
  /\ pending' = [pending EXCEPT !["workers"] = @ \ {held}]
  /\ Goto("idle", 0)
  /\ UNCHANGED <<jobVars, relayVars, picked, streamVars, last, record, eligible, faults>>

Crash ==
  /\ pc # "idle"
  /\ Fault
  /\ Goto("idle", 0)
  /\ UNCHANGED <<jobVars, relayVars, picked, streamVars, groupVars, record, eligible>>

-----------------------------------------------------------------------------
(* Retention of jobs.  The conditions are those of the statement's snapshot; *)
(* a job queued before the payment is locked may be younger than it.         *)
Quiet == settled /\ \A j \in Job : jobState[j] \in Closed \cup {"none"}

Superseded(j) == \E k \in Job : InTable(k) /\ gen[k] > gen[j]

\* Mutant of Pick: the newest job is not kept.
PickAny ==
  /\ picked = {} /\ Quiet
  /\ picked' = {j \in Job : jobState[j] = "finished" /\ old[j] /\ ~rowLease[j]}
  /\ UNCHANGED <<jobVars, relayVars, streamVars, groupVars, record, consVars, eligible, faults>>

Pick ==
  /\ picked = {} /\ Quiet
  /\ picked' = {j \in Job : jobState[j] = "finished" /\ old[j] /\ ~rowLease[j] /\ Superseded(j)}
  /\ UNCHANGED <<jobVars, relayVars, streamVars, groupVars, record, consVars, eligible, faults>>

Archive ==
  /\ picked # {}
  /\ jobState' = [j \in Job |-> IF j \in picked THEN "archived" ELSE jobState[j]]
  /\ picked' = {}
  /\ UNCHANGED <<nJobs, gen, old, settled, relayVars, streamVars, groupVars, record, consVars,
                 eligible, faults>>

-----------------------------------------------------------------------------
(* Retention of the stream.                                                  *)
AgeRecord(e) ==
  /\ record[e] = "new"
  /\ record' = [record EXCEPT ![e] = "old"]
  /\ UNCHANGED <<jobVars, relayVars, picked, streamVars, groupVars, consVars, eligible, faults>>

DoneLongAgo(j) == jobState[j] \in Closed /\ old[j]

\* Mutant of Select: an archived job is not known any more.
SelectRows ==
  /\ eligible = {}
  /\ eligible' = {e \in inStream :
                    \/ record[e] = "old"
                    \/ event[e] # 0 /\ jobState[event[e]] = "finished" /\ old[event[e]]}
  /\ UNCHANGED <<jobVars, relayVars, picked, streamVars, groupVars, record, consVars, faults>>

Select ==
  /\ eligible = {}
  /\ eligible' = {e \in inStream :
                    record[e] = "old" \/ (event[e] # 0 /\ DoneLongAgo(event[e]))}
  /\ UNCHANGED <<jobVars, relayVars, picked, streamVars, groupVars, record, consVars, faults>>

\* No group has it still to read or still to acknowledge.
Handled(e) == \A g \in Group : e <= last[g] /\ e \notin pending[g]

\* Mutant of DeleteAcknowledged: entries that are pending are deleted too.
DeleteRead ==
  /\ eligible # {}
  /\ inStream' = {e \in inStream : e \notin eligible \/ \E g \in Group : e > last[g]}
  /\ eligible' = {}
  /\ UNCHANGED <<jobVars, relayVars, picked, nEntries, event, groupVars, record, consVars, faults>>

\* The script: each entry is checked and deleted in one step with the others.
DeleteAcknowledged ==
  /\ eligible # {}
  /\ inStream' = {e \in inStream : e \notin eligible \/ ~Handled(e)}
  /\ eligible' = {}
  /\ UNCHANGED <<jobVars, relayVars, picked, nEntries, event, groupVars, record, consVars, faults>>

\* Mutant of Prune: whether the entry is gone is not asked.
PruneOld(e) ==
  /\ record[e] = "old"
  /\ record' = [record EXCEPT ![e] = "pruned"]
  /\ UNCHANGED <<jobVars, relayVars, picked, streamVars, groupVars, consVars, eligible, faults>>

\* prune_quarantine: an old row whose entry is deleted and nowhere pending.
Prune(e) ==
  /\ record[e] = "old"
  /\ e \notin inStream /\ \A g \in Group : e \notin pending[g]
  /\ record' = [record EXCEPT ![e] = "pruned"]
  /\ UNCHANGED <<jobVars, relayVars, picked, streamVars, groupVars, consVars, eligible, faults>>

-----------------------------------------------------------------------------
Consuming ==
  \/ \E e \in Entry : Read(e)
  \/ LookUpRow \/ LookUpArchive \/ Quarantine \/ Execute \/ Ack

StreamRetention == Select \/ DeleteAcknowledged

TimePasses == (\E j \in Job : Age(j)) \/ (\E e \in Entry : AgeRecord(e))

Next ==
  \/ Callback
  \/ \E j \in Job :
       \/ Executed(j) \/ Fail(j) \/ Retry(j) \/ ClaimRow(j) \/ RowLeaseExpires(j)
       \/ \E holds \in BOOLEAN : Publish(j, holds)
  \/ Damage \/ TimePasses
  \/ Consuming \/ Crash
  \/ \E e \in Entry : OtherReads(e) \/ OtherAcks(e) \/ Prune(e)
  \/ Pick \/ Archive \/ StreamRetention

\* The consumer and stream retention repeat their loops for ever, jobs that wait are
\* executed and time passes.  The other group, administrators and job retention may
\* do nothing.
Fairness ==
  /\ WF_vars(Consuming) /\ WF_vars(StreamRetention)
  /\ WF_vars(\E j \in Job : Executed(j)) /\ WF_vars(TimePasses)

Spec == Init /\ [][Next]_vars /\ Fairness

-----------------------------------------------------------------------------
\* Every variable holds a value of its kind.
TypeOK ==
  /\ nJobs \in 1..MaxJobs
  /\ jobState \in [Job -> {"none", "active", "stopped", "finished", "archived"}]
  /\ gen \in [Job -> 0..MaxJobs]
  /\ old \in [Job -> BOOLEAN] /\ rowLease \in [Job -> BOOLEAN]
  /\ settled \in BOOLEAN
  /\ sending \subseteq Job \X BOOLEAN
  /\ picked \subseteq Job
  /\ nEntries \in 0..MaxEntries
  /\ event \in [Entry -> 0..MaxJobs]
  /\ inStream \subseteq Entry /\ eligible \subseteq Entry
  /\ last \in [Group -> 0..MaxEntries]
  /\ pending \in [Group -> SUBSET Entry]
  /\ record \in [Entry -> {"none", "new", "old", "pruned"}]
  /\ pc \in {"idle", "read", "rowless", "valid", "invalid", "acking"}
  /\ held \in 0..MaxEntries
  /\ faults \in 0..MaxFaults

\* T26: an entry the relay published is recognised however late it comes, and not
\* quarantined: its job is in the table or in the archive, and a job that moves
\* between the two lookups is found by the second (valid_event, PaymentJobRetention).
EventsAreRecognised == \A e \in Entry : event[e] # 0 => record[e] = "none"

\* An entry is deleted only when every group is through with it, and its job is
\* closed or its quarantine row is written (DELETE_ACKNOWLEDGED).
DeletedIsDone ==
  \A e \in 1..nEntries :
    e \notin inStream =>
      /\ Handled(e)
      /\ IF event[e] = 0 THEN record[e] \in {"old", "pruned"} ELSE jobState[event[e]] \in Closed

\* A damaged entry is on record as long as it can be seen (prune_quarantine).
DamageIsOnRecord ==
  \A e \in 1..nEntries :
    event[e] = 0 /\ record[e] = "pruned" => e \notin inStream

\* Generations name the jobs of a kind for ever, although they are counted from the
\* rows that are left: archive and table never hold the same one twice.
GenerationsAreUnique ==
  \A j, k \in 1..nJobs : j # k => gen[j] # gen[k]

\* An entry that no other group and no stopped job keeps is deleted in the end: job
\* retention does not make it unrecognisable to stream retention.
EntriesLeave ==
  \A e \in Entry :
    (e \in inStream /\ last["other"] >= e /\ e \notin pending["other"])
      ~> e \notin inStream \/ (event[e] # 0 /\ jobState[event[e]] = "stopped")
=============================================================================
