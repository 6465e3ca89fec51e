----------------------------- MODULE Completion -----------------------------
(* The saga that completes a ticket (completion_service.py): the mark in     *)
(* TechPortal, then the report in the GIS, then the link to the report in    *)
(* TechPortal.  One operation, which is one row of the database and one      *)
(* idempotency key; the requests of the employee (Posts, the press of the    *)
(* button and its repetitions with that key) and the completion workers      *)
(* advance it, each through its own reads and transactions.  No lease is     *)
(* checked when a result is written.                                         *)
(*                                                                           *)
(* Left out: texts, photos as data, the attempts' journal, and the minute    *)
(* between two attempts (a row that waits is due at any later moment).       *)
EXTENDS Naturals

CONSTANTS Posts,      \* requests with the operation's key
          Workers,    \* completion_worker processes
          MaxFaults   \* bound: crashes and requests that fail or lose their answer

ASSUME ActorsAssumption == Posts \cap Workers = {}
ASSUME FaultsAssumption == MaxFaults \in Nat

VARIABLES op,        \* the row
          pc,        \* where each request or worker stands in its handler
          marks,     \* completion comments in TechPortal: 0, 1, or 2 for more
          reported,  \* the GIS holds the report
          linked,    \* TechPortal holds a link to the report
          late,      \* requests sent, given up by the sender and not yet applied
          faults

vars == <<op, pc, marks, reported, linked, late, faults>>

Actors == Posts \cup Workers

CompletionStatus == {"absent", "prepared", "marking", "completion_unknown",
                     "completed", "completion_failed", "needs_review"}
GisStatus == {"not_requested", "not_ready", "pending", "sending", "retry_wait",
              "delivered", "needs_attention"}
LinkStatus == {"not_requested", "waiting_gis", "pending", "sending", "retry_wait",
               "delivered", "failed"}
Lease == {"none", "held", "over"}

\* The object the report is about: none, one that is on a map, or one with no map.
Feature == {"none", "mapped", "unmapped"}

Row == [status : CompletionStatus, gis : GisStatus, link : LinkStatus,
        lease : Lease, linkLease : Lease, feature : Feature]

MarkSteps == {"marking", "mark_ok", "mark_unclear", "mark_refused"}
ReconcileSteps == {"reconcile", "ask", "recorded", "not_recorded", "ask_later"}
GisSteps == {"lookup", "create", "lookup_again", "found", "gis_retry", "gis_refused"}
LinkSteps == {"append", "appended", "link_retry"}
Steps == {"idle", "photos", "mark", "gis", "gis_begin", "link", "link_begin", "done"}
           \cup MarkSteps \cup ReconcileSteps \cup GisSteps \cup LinkSteps

Requests == {"mark", "report", "link"}

TypeOK ==
  /\ op \in Row
  /\ pc \in [Actors -> Steps]
  /\ marks \in 0..2
  /\ reported \in BOOLEAN
  /\ linked \in BOOLEAN
  /\ late \in SUBSET Requests
  /\ faults \in 0..MaxFaults

Init ==
  /\ op = [status |-> "absent", gis |-> "not_requested", link |-> "not_requested",
           lease |-> "none", linkLease |-> "none", feature |-> "none"]
  /\ pc = [a \in Actors |-> "idle"]
  /\ marks = 0
  /\ reported = FALSE /\ linked = FALSE
  /\ late = {}
  /\ faults = 0

-----------------------------------------------------------------------------
\* The worker's handler ends with its loop, a request's with its answer.
End(a) == IF a \in Workers THEN "idle" ELSE "done"

Goto(a, step) == pc' = [pc EXCEPT ![a] = step]

At(a, step) == pc[a] = step

Fault == faults < MaxFaults /\ faults' = faults + 1

World == <<marks, reported, linked, late>>

HasFeature == op.feature # "none"

\* A transaction of the repository's update and the next step of the handler.
Write(a, row, step) ==
  /\ op' = row
  /\ Goto(a, step)
  /\ UNCHANGED <<World, faults>>

\* A read of the row, or of nothing, that decides the next step.
Read(a, step) == Goto(a, step) /\ UNCHANGED <<op, World, faults>>

-----------------------------------------------------------------------------
(* begin: the row is created by the first request with the key; the others   *)
(* find it.  Only the creator stores the photos.                             *)
CreateOrGet(p) ==
  /\ At(p, "idle")
  /\ \/ /\ op.status = "absent"
        /\ \E f \in Feature :
             Write(p, [op EXCEPT !.status = "prepared", !.feature = f,
                         !.gis = IF f = "none" THEN "not_requested" ELSE "not_ready",
                         !.link = IF f = "none" THEN "not_requested" ELSE "waiting_gis"],
                   "photos")
     \/ op.status # "absent" /\ Read(p, "mark")

SavePhotos(p) ==
  /\ At(p, "photos")
  /\ \/ Write(p, [op EXCEPT !.status = "marking"], "mark")
     \/ Fault /\ op' = [op EXCEPT !.status = "completion_failed"] /\ Goto(p, "done")
        /\ UNCHANGED World

-----------------------------------------------------------------------------
(* mark_techportal: the comment and the tag are one request, sent when the   *)
(* row was read as 'marking'.                                                *)
ReadToMark(p) ==
  /\ At(p, "mark")
  /\ Read(p, IF op.status = "marking" THEN "marking" ELSE "done")

OneMore == IF marks < 2 THEN marks + 1 ELSE 2

\* TechPortal applies the mark.  The answer may be lost, or be one the client
\* cannot read, which is another error than an unavailable TechPortal.
MarkApplied(p) ==
  /\ At(p, "marking")
  /\ marks' = OneMore
  /\ \/ Goto(p, "mark_ok") /\ UNCHANGED faults
     \/ Fault /\ \E s \in {"mark_unclear", "mark_refused"} : Goto(p, s)
  /\ UNCHANGED <<op, reported, linked, late>>

\* The request is refused or lost, or it is given up and applied later.
MarkNotApplied(p) ==
  /\ At(p, "marking")
  /\ Fault
  /\ \/ \E s \in {"mark_unclear", "mark_refused"} : Goto(p, s) /\ UNCHANGED late
     \/ Goto(p, "mark_unclear") /\ late' = late \cup {"mark"}
  /\ UNCHANGED <<op, marks, reported, linked>>

CompletedRow == [op EXCEPT !.status = "completed",
                   !.gis = IF HasFeature THEN "pending" ELSE "not_requested"]

RecordMarked(p) ==
  /\ At(p, "mark_ok")
  /\ Write(p, CompletedRow, IF HasFeature THEN "gis" ELSE "done")

\* Mutant: a lost answer is taken for success.
RecordUnclearAsDone(p) ==
  /\ At(p, "mark_unclear")
  /\ Write(p, CompletedRow, "done")

RecordUnclear(p) ==
  /\ At(p, "mark_unclear")
  /\ Write(p, [op EXCEPT !.status = "completion_unknown", !.lease = "none"], "done")

RecordRefused(p) ==
  /\ At(p, "mark_refused")
  /\ Write(p, [op EXCEPT !.status = "completion_failed"], "done")

-----------------------------------------------------------------------------
(* reconcile_techportal: the worker asks whether the mark is in TechPortal.  *)
\* Mutant: a lease that has ended is not taken over.
ClaimReconciliationOnce(w) ==
  /\ At(w, "idle")
  /\ op.status = "completion_unknown" /\ op.lease = "none"
  /\ Write(w, [op EXCEPT !.lease = "held"], "reconcile")

ClaimReconciliation(w) ==
  /\ At(w, "idle")
  /\ op.status = "completion_unknown" /\ op.lease # "held"
  /\ Write(w, [op EXCEPT !.lease = "held"], "reconcile")

ReadToReconcile(w) ==
  /\ At(w, "reconcile")
  /\ Read(w, IF op.status = "completion_unknown" THEN "ask" ELSE "idle")

\* Mutant: a ticket that can be read counts as marked.
AskRecordedTrusting(w) ==
  /\ At(w, "ask")
  /\ \/ Goto(w, "recorded") /\ UNCHANGED faults
     \/ Fault /\ \E s \in {"not_recorded", "ask_later"} : Goto(w, s)
  /\ UNCHANGED <<op, World>>

AskRecorded(w) ==
  /\ At(w, "ask")
  /\ \/ Goto(w, IF marks > 0 THEN "recorded" ELSE "not_recorded") /\ UNCHANGED faults
     \/ Fault /\ \E s \in {"not_recorded", "ask_later"} : Goto(w, s)
  /\ UNCHANGED <<op, World>>

RecordReconciled(w) ==
  \/ /\ At(w, "recorded")
     /\ Write(w, [CompletedRow EXCEPT !.lease = "none"], IF HasFeature THEN "gis" ELSE "idle")
  \/ /\ At(w, "not_recorded")
     /\ Write(w, [op EXCEPT !.status = "needs_review", !.lease = "none"], "idle")
  \/ /\ At(w, "ask_later")
     /\ Write(w, [op EXCEPT !.lease = "none"], "idle")

-----------------------------------------------------------------------------
(* send_gis, of a request that just marked or of a worker with a claim.      *)
\* Mutant: a delivery whose sender died is not taken over.
ClaimGisOnce(w) ==
  /\ At(w, "idle")
  /\ op.status = "completed"
  /\ op.gis \in {"pending", "retry_wait"}
  /\ Write(w, [op EXCEPT !.gis = "sending", !.lease = "held"], "gis")

ClaimGis(w) ==
  /\ At(w, "idle")
  /\ op.status = "completed"
  /\ \/ op.gis \in {"pending", "retry_wait"}
     \/ op.gis = "sending" /\ op.lease = "over"
  /\ Write(w, [op EXCEPT !.gis = "sending", !.lease = "held"], "gis")

Sendable == {"pending", "retry_wait", "sending", "not_ready"}

ReadToSend(a) ==
  /\ At(a, "gis")
  /\ Read(a, IF op.status = "completed" /\ HasFeature /\ op.gis \in Sendable
             THEN IF op.gis = "sending" THEN "lookup" ELSE "gis_begin"
             ELSE End(a))

BeginSending(a) ==
  /\ At(a, "gis_begin")
  /\ Write(a, [op EXCEPT !.gis = "sending", !.lease = "held"], "lookup")

LookupReport(a) ==
  /\ At(a, "lookup")
  /\ \/ Goto(a, IF reported THEN "found" ELSE "create") /\ UNCHANGED faults
     \/ Fault /\ \E s \in {"lookup_again", "gis_refused"} : Goto(a, s)
  /\ UNCHANGED <<op, World>>

\* The GIS keeps one report for the operation's external id.
CreateReport(a) ==
  /\ At(a, "create")
  /\ \/ reported' = TRUE /\ Goto(a, "found") /\ UNCHANGED <<late, faults>>
     \/ /\ Fault
        /\ \E s \in {"lookup_again", "gis_refused"} : Goto(a, s)
        /\ \/ reported' = TRUE /\ UNCHANGED late
           \/ late' \in {late, late \cup {"report"}} /\ UNCHANGED reported
  /\ UNCHANGED <<op, marks, linked>>

\* After an unavailable GIS it is asked once more; any other error of that
\* question leaves the handler, and in a worker ends the process.
LookupAgain(a) ==
  /\ At(a, "lookup_again")
  /\ \/ Goto(a, IF reported THEN "found" ELSE "gis_retry") /\ UNCHANGED faults
     \/ Fault /\ \E s \in {"gis_retry", End(a)} : Goto(a, s)
  /\ UNCHANGED <<op, World>>

RecordSent(a) ==
  \/ /\ At(a, "found")
     /\ Write(a, [op EXCEPT !.gis = "delivered", !.link = "pending", !.lease = "none"], "link")
  \/ /\ At(a, "gis_retry")
     /\ Write(a, [op EXCEPT !.gis = "retry_wait", !.lease = "none"], End(a))
  \/ /\ At(a, "gis_refused")
     /\ Write(a, [op EXCEPT !.gis = "needs_attention", !.lease = "none"], End(a))

-----------------------------------------------------------------------------
(* send_techportal_gis_link: a second comment with the link to the report.   *)
ClaimLink(w) ==
  /\ At(w, "idle")
  /\ op.gis = "delivered"
  /\ \/ op.link \in {"pending", "retry_wait"}
     \/ op.link = "sending" /\ op.linkLease = "over"
  /\ Write(w, [op EXCEPT !.link = "sending", !.linkLease = "held"], "link")

ReadToLink(a) ==
  /\ At(a, "link")
  /\ Read(a, IF op.gis = "delivered" /\ op.link \in {"pending", "retry_wait", "sending"}
             THEN "link_begin" ELSE End(a))

\* The handler marks the link as being sent; with no map there is no link.
BeginLink(a) ==
  /\ At(a, "link_begin")
  /\ IF op.feature = "mapped"
     THEN Write(a, [op EXCEPT !.link = "sending", !.linkLease = "held"], "append")
     ELSE Write(a, [op EXCEPT !.link = "failed", !.linkLease = "none"], End(a))

AppendLink(a) ==
  /\ At(a, "append")
  /\ \/ linked' = TRUE /\ Goto(a, "appended") /\ UNCHANGED <<late, faults>>
     \/ /\ Fault
        /\ Goto(a, "link_retry")
        /\ \/ linked' = TRUE /\ UNCHANGED late
           \/ late' \in {late, late \cup {"link"}} /\ UNCHANGED linked
  /\ UNCHANGED <<op, marks, reported>>

RecordLink(a) ==
  \/ /\ At(a, "appended")
     /\ Write(a, [op EXCEPT !.link = "delivered", !.linkLease = "none"], End(a))
  \/ /\ At(a, "link_retry")
     /\ Write(a, [op EXCEPT !.link = "retry_wait", !.linkLease = "none"], End(a))

-----------------------------------------------------------------------------
\* A request given up by its sender is applied after all.
ApplyLate ==
  /\ \/ "mark" \in late /\ marks' = OneMore /\ late' = late \ {"mark"}
        /\ UNCHANGED <<reported, linked>>
     \/ "report" \in late /\ reported' = TRUE /\ late' = late \ {"report"}
        /\ UNCHANGED <<marks, linked>>
     \/ "link" \in late /\ linked' = TRUE /\ late' = late \ {"link"}
        /\ UNCHANGED <<marks, reported>>
  /\ UNCHANGED <<op, pc, faults>>

\* The process dies.  A worker is started again, a request is gone.
Crash(a) ==
  /\ pc[a] \notin {"idle", "done"}
  /\ Fault
  /\ Goto(a, End(a))
  /\ UNCHANGED <<op, World>>

\* The five minutes of a lease pass; its holder may still be at work.
LeaseEnds ==
  /\ \/ op.lease = "held" /\ op' = [op EXCEPT !.lease = "over"]
     \/ op.linkLease = "held" /\ op' = [op EXCEPT !.linkLease = "over"]
  /\ UNCHANGED <<pc, World, faults>>

PostMark(p) ==
  \/ CreateOrGet(p) \/ SavePhotos(p) \/ ReadToMark(p) \/ MarkApplied(p)
  \/ MarkNotApplied(p) \/ RecordMarked(p) \/ RecordUnclear(p) \/ RecordRefused(p)

WorkerClaims(w) == ClaimReconciliation(w) \/ ClaimGis(w) \/ ClaimLink(w)

WorkerReconciles(w) == ReadToReconcile(w) \/ AskRecorded(w) \/ RecordReconciled(w)

Deliver(a) ==
  \/ ReadToSend(a) \/ BeginSending(a) \/ LookupReport(a) \/ CreateReport(a)
  \/ LookupAgain(a) \/ RecordSent(a) \/ ReadToLink(a) \/ BeginLink(a)
  \/ AppendLink(a) \/ RecordLink(a)

Next ==
  \/ \E p \in Posts : PostMark(p)
  \/ \E w \in Workers : WorkerClaims(w) \/ WorkerReconciles(w)
  \/ \E a \in Actors : Deliver(a) \/ Crash(a)
  \/ ApplyLate \/ LeaseEnds

\* A running handler goes on, a worker's loop asks for work again and again, a
\* lease ends; an employee may never press the button.
Fairness ==
  /\ \A p \in Posts : WF_vars(pc[p] # "idle" /\ (PostMark(p) \/ Deliver(p)))
  /\ \A w \in Workers : WF_vars(WorkerClaims(w) \/ WorkerReconciles(w) \/ Deliver(w))
  /\ WF_vars(LeaseEnds)

Spec == Init /\ [][Next]_vars
FairSpec == Spec /\ Fairness

-----------------------------------------------------------------------------
(* Properties.                                                               *)

\* What the row says of the systems outside is so: a completed operation is
\* marked in TechPortal, a delivered report is in the GIS, a delivered link is
\* in TechPortal, whatever was lost, late or written by a handler whose lease
\* had ended (completion_service.py: mark_techportal, reconcile_techportal,
\* send_gis, send_techportal_gis_link).
StatusesAreTrue ==
  /\ op.status = "completed" => marks > 0
  /\ op.gis = "delivered" => reported
  /\ op.link = "delivered" => linked

\* Nothing is sent to the GIS before the mark is in TechPortal, and no link
\* before the report is in the GIS, late requests included (docs: the report is
\* sent only after the comment and the tag are confirmed).
Contract == INSTANCE CompletionContract WITH marked <- marks > 0
SentInOrder == Contract!Spec

\* An operation whose mark has an unknown result is settled, as completed or for
\* review, or as failed by a repeated press that TechPortal refused
\* (completion_worker.py: run, reconcile_techportal).
UnknownIsSettled ==
  op.status = "completion_unknown"
     ~> op.status \in {"completed", "needs_review", "completion_failed"}

\* A result of a reconciliation that outlived its lease sets the lease to NULL
\* without asking whose it is.  Under a delivery that runs meanwhile, it leaves a
\* row no query of the worker selects (completion_service.py: reconcile_techportal).
LeaseDropped == op.gis = "sending" /\ op.lease = "none"

\* The report of a completed operation arrives and its link with it, whatever
\* crashes on the way, unless the GIS refuses the report, the object has no map, a
\* stale reconciliation drops the delivery's lease (LeaseDropped) or the failure of
\* a repeated press takes the place of the completion
\* (completion_worker.py: run, send_gis, send_techportal_gis_link).
ReportSettles ==
  (op.status = "completed" /\ HasFeature)
     ~> \/ op.gis = "delivered" /\ op.link \in {"delivered", "failed"}
        \/ op.gis = "needs_attention"
        \/ op.status # "completed" \/ LeaseDropped

\* The mark and its comment are not written a second time: a repeated press of
\* the button uses the operation that exists (completion_service.py: begin,
\* mark_techportal).
MarkedOnce == marks <= 1

\* An operation that was prepared comes to a result or to a person also when
\* the process that served the request dies (completion_worker.py: run).
OperationSettles ==
  op.status \in {"prepared", "marking"} ~> op.status \notin {"prepared", "marking"}
=============================================================================
