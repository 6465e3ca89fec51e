-------------------------- MODULE CompletionProofs --------------------------
(* Proofs for any number of requests, workers and faults.  The invariant     *)
(* ties what each handler remembers in its program counter, and what is      *)
(* still on its way, to what TechPortal and the GIS hold.                    *)
EXTENDS Completion, TLAPS

\* Handlers that know that TechPortal holds the mark.
KnowsMarked == {"mark_ok", "recorded", "gis_begin"} \cup GisSteps

\* Handlers that know that the GIS holds the report.
KnowsReported == {"found", "link_begin"} \cup LinkSteps

HandlersKnow ==
  \A a \in Actors :
    /\ pc[a] \in KnowsMarked => marks > 0
    /\ pc[a] \in KnowsReported => reported
    /\ pc[a] = "appended" => linked

LateInOrder ==
  /\ "report" \in late => marks > 0
  /\ "link" \in late => reported

\* Mark, report and link are written in this order.
WrittenInOrder ==
  /\ reported => marks > 0
  /\ linked => reported

IInv == TypeOK /\ StatusesAreTrue /\ HandlersKnow /\ LateInOrder /\ WrittenInOrder

LEMMA Positive == ASSUME TypeOK PROVE OneMore > 0 /\ OneMore \in 0..2
  BY DEF TypeOK, OneMore

LEMMA Initially == Init => IInv
<1> SUFFICES ASSUME Init PROVE IInv
  OBVIOUS
<1> USE DEF Init
<1>1. op \in Row
  BY DEF Row, CompletionStatus, GisStatus, LinkStatus, Lease, Feature
<1>2. pc \in [Actors -> Steps]
  BY DEF Steps
<1>2b. marks \in 0..2 /\ late \in SUBSET Requests /\ faults \in 0..MaxFaults
  BY FaultsAssumption
<1>2c. reported \in BOOLEAN /\ linked \in BOOLEAN
  OBVIOUS
<1>2a. TypeOK
  BY <1>1, <1>2, <1>2b, <1>2c DEF TypeOK
<1>3. StatusesAreTrue
  BY DEF StatusesAreTrue
<1>4. HandlersKnow
  BY DEF HandlersKnow, KnowsMarked, KnowsReported, GisSteps, LinkSteps
<1>5. LateInOrder /\ WrittenInOrder
  BY DEF LateInOrder, WrittenInOrder
<1> QED
  BY <1>2a, <1>3, <1>4, <1>5 DEF IInv

\* A row that claims no more of the systems outside than is so.
Honest(row) ==
  /\ row \in Row
  /\ row.status = "completed" => marks > 0
  /\ row.gis = "delivered" => reported
  /\ row.link = "delivered" => linked

LEMMA RowIsHonest == ASSUME IInv PROVE Honest(op)
  BY DEF IInv, TypeOK, StatusesAreTrue, Honest

\* An update of the row that claims no more than is known, by a handler that
\* goes on with no more than is known.
LEMMA WritePreserves ==
  ASSUME IInv, NEW a \in Actors, NEW row, NEW step \in Steps, Write(a, row, step),
         Honest(row),
         step \in KnowsMarked => marks > 0,
         step \in KnowsReported => reported,
         step = "appended" => linked
  PROVE  IInv'
<1> USE DEF Write, Goto, World
<1>1. TypeOK'
  BY DEF IInv, TypeOK, Honest
<1>2. StatusesAreTrue'
  BY DEF StatusesAreTrue, Honest
<1>3. HandlersKnow'
  BY DEF IInv, HandlersKnow, TypeOK
<1>4. LateInOrder' /\ WrittenInOrder'
  BY DEF IInv, LateInOrder, WrittenInOrder
<1> QED
  BY <1>1, <1>2, <1>3, <1>4 DEF IInv

\* A step that leaves the row and the world alone.
LEMMA GotoPreserves ==
  ASSUME IInv, NEW a \in Actors, NEW step \in Steps, Goto(a, step),
         UNCHANGED <<op, World>>, faults' \in 0..MaxFaults,
         step \in KnowsMarked => marks > 0,
         step \in KnowsReported => reported,
         step = "appended" => linked
  PROVE  IInv'
<1> USE DEF Goto, World
<1>1. TypeOK'
  BY DEF IInv, TypeOK
<1>2. StatusesAreTrue'
  BY DEF IInv, StatusesAreTrue
<1>3. HandlersKnow'
  BY DEF IInv, HandlersKnow, TypeOK
<1>4. LateInOrder' /\ WrittenInOrder'
  BY DEF IInv, LateInOrder, WrittenInOrder
<1> QED
  BY <1>1, <1>2, <1>3, <1>4 DEF IInv

\* A request that reaches TechPortal or the GIS, or is left on its way: what was
\* true of them before stays true.
LEMMA WorldPreserves ==
  ASSUME IInv, NEW a \in Actors, NEW step \in Steps, Goto(a, step),
         UNCHANGED op, faults' \in 0..MaxFaults, marks' \in 0..2,
         reported' \in BOOLEAN, linked' \in BOOLEAN, late' \in SUBSET Requests,
         marks > 0 => marks' > 0, reported => reported', linked => linked',
         step \in KnowsMarked => marks' > 0,
         step \in KnowsReported => reported',
         step = "appended" => linked',
         LateInOrder', WrittenInOrder'
  PROVE  IInv'
<1> USE DEF Goto
<1>1. TypeOK'
  BY DEF IInv, TypeOK
<1>2. StatusesAreTrue'
  BY DEF IInv, StatusesAreTrue
<1>3. HandlersKnow'
  BY DEF IInv, HandlersKnow, TypeOK
<1> QED
  BY <1>1, <1>2, <1>3 DEF IInv

LEMMA FaultBound == ASSUME TypeOK, Fault PROVE faults' \in 0..MaxFaults
  BY FaultsAssumption DEF TypeOK, Fault

-----------------------------------------------------------------------------
(* One lemma for each part of a handler.                                     *)

LEMMA PostSteps == ASSUME IInv, NEW p \in Posts, PostMark(p) PROVE IInv'
<1> p \in Actors
  BY DEF Actors
<1>0. Honest(op)
  BY RowIsHonest
<1> USE DEF Steps, MarkSteps, ReconcileSteps, GisSteps, LinkSteps, KnowsMarked, KnowsReported
<1>1. CASE CreateOrGet(p)
  <2>1. CASE op.status = "absent"
    <3> DEFINE row(f) == [op EXCEPT !.status = "prepared", !.feature = f,
                            !.gis = IF f = "none" THEN "not_requested" ELSE "not_ready",
                            !.link = IF f = "none" THEN "not_requested" ELSE "waiting_gis"]
    <3>1. PICK f \in Feature : Write(p, row(f), "photos")
      BY <1>1, <2>1 DEF CreateOrGet
    <3>2. Honest(row(f))
      <4>1. CASE f = "none"
        BY <1>0, <4>1 DEF Honest, Row, CompletionStatus, GisStatus, LinkStatus
      <4>2. CASE f # "none"
        BY <1>0, <4>2 DEF Honest, Row, CompletionStatus, GisStatus, LinkStatus
      <4> QED
        BY <4>1, <4>2
    <3> HIDE DEF row
    <3> QED
      BY <3>1, <3>2, WritePreserves
  <2>2. CASE Read(p, "mark")
    BY <2>2, GotoPreserves DEF Read, IInv, TypeOK
  <2> QED
    BY <1>1, <2>1, <2>2 DEF CreateOrGet
<1>2. CASE SavePhotos(p)
  <2>1. CASE Write(p, [op EXCEPT !.status = "marking"], "mark")
    <3>1. Honest([op EXCEPT !.status = "marking"])
      BY <1>0 DEF Honest, Row, CompletionStatus
    <3> QED
      BY <2>1, <3>1, WritePreserves
  <2>2. CASE /\ Fault /\ op' = [op EXCEPT !.status = "completion_failed"]
             /\ Goto(p, "done") /\ UNCHANGED World
    <3>1. faults' \in 0..MaxFaults
      BY <2>2, FaultBound DEF IInv
    <3>2. TypeOK'
      BY <2>2, <3>1 DEF IInv, TypeOK, Goto, World, Row, CompletionStatus
    <3>3. StatusesAreTrue' /\ LateInOrder' /\ WrittenInOrder'
      BY <2>2 DEF IInv, TypeOK, StatusesAreTrue, LateInOrder, WrittenInOrder, World
    <3>4. HandlersKnow'
      BY <2>2 DEF IInv, TypeOK, HandlersKnow, Goto, World
    <3> QED
      BY <3>2, <3>3, <3>4 DEF IInv
  <2> QED
    BY <1>2, <2>1, <2>2 DEF SavePhotos
<1>3. CASE ReadToMark(p)
  BY <1>3, GotoPreserves DEF ReadToMark, Read, IInv, TypeOK
<1>4. CASE MarkApplied(p)
  <2>1. OneMore > 0 /\ OneMore \in 0..2
    BY Positive DEF IInv
  <2>2. faults' \in 0..MaxFaults
    BY <1>4, FaultBound DEF MarkApplied, IInv, TypeOK
  <2>3. PICK s \in {"mark_ok", "mark_unclear", "mark_refused"} : Goto(p, s)
    BY <1>4 DEF MarkApplied
  <2>4. LateInOrder' /\ WrittenInOrder'
    BY <1>4, <2>1 DEF MarkApplied, IInv, LateInOrder, WrittenInOrder
  <2> QED
    BY <1>4, <2>1, <2>2, <2>3, <2>4, WorldPreserves DEF MarkApplied, IInv, TypeOK
<1>5. CASE MarkNotApplied(p)
  <2>1. faults' \in 0..MaxFaults
    BY <1>5, FaultBound DEF MarkNotApplied, IInv
  <2>2. PICK s \in {"mark_unclear", "mark_refused"} : Goto(p, s)
    BY <1>5 DEF MarkNotApplied
  <2>4. /\ marks' = marks /\ reported' = reported /\ linked' = linked /\ op' = op
        /\ marks \in 0..2 /\ reported \in BOOLEAN /\ linked \in BOOLEAN
    BY <1>5 DEF MarkNotApplied, IInv, TypeOK
  <2>3. LateInOrder' /\ WrittenInOrder' /\ late' \in SUBSET Requests
    BY <1>5 DEF MarkNotApplied, IInv, TypeOK, LateInOrder, WrittenInOrder, Requests
  <2> QED
    BY <2>1, <2>2, <2>3, <2>4, WorldPreserves
<1>6. CASE RecordMarked(p)
  <2>1. marks > 0
    BY <1>6 DEF RecordMarked, At, IInv, HandlersKnow
  <2>2. Honest(CompletedRow)
    BY <1>0, <2>1 DEF Honest, CompletedRow, Row, CompletionStatus, GisStatus
  <2>3. PICK step \in {"gis", "done"} : Write(p, CompletedRow, step)
    BY <1>6 DEF RecordMarked
  <2> QED
    BY <2>1, <2>2, <2>3, WritePreserves
<1>7. CASE RecordUnclear(p)
  <2>1. Honest([op EXCEPT !.status = "completion_unknown", !.lease = "none"])
    BY <1>0 DEF Honest, Row, CompletionStatus, Lease
  <2> QED
    BY <1>7, <2>1, WritePreserves DEF RecordUnclear
<1>8. CASE RecordRefused(p)
  <2>1. Honest([op EXCEPT !.status = "completion_failed"])
    BY <1>0 DEF Honest, Row, CompletionStatus
  <2> QED
    BY <1>8, <2>1, WritePreserves DEF RecordRefused
<1> QED
  BY <1>1, <1>2, <1>3, <1>4, <1>5, <1>6, <1>7, <1>8 DEF PostMark

LEMMA ReconcilingSteps ==
  ASSUME IInv, NEW w \in Workers, ClaimReconciliation(w) \/ WorkerReconciles(w)
  PROVE  IInv'
<1> w \in Actors
  BY DEF Actors
<1>0. Honest(op)
  BY RowIsHonest
<1> USE DEF Steps, MarkSteps, ReconcileSteps, GisSteps, LinkSteps, KnowsMarked, KnowsReported
<1>1. CASE ClaimReconciliation(w)
  <2>1. Honest([op EXCEPT !.lease = "held"])
    BY <1>0 DEF Honest, Row, Lease
  <2> QED
    BY <1>1, <2>1, WritePreserves DEF ClaimReconciliation
<1>2. CASE ReadToReconcile(w)
  BY <1>2, GotoPreserves DEF ReadToReconcile, Read, IInv, TypeOK
<1>3. CASE AskRecorded(w)
  <2>1. faults' \in 0..MaxFaults
    BY <1>3, FaultBound DEF AskRecorded, IInv, TypeOK
  <2>2. PICK s \in {"recorded", "not_recorded", "ask_later"} :
          Goto(w, s) /\ (s = "recorded" => marks > 0)
    BY <1>3 DEF AskRecorded
  <2> QED
    BY <1>3, <2>1, <2>2, GotoPreserves DEF AskRecorded
<1>4. CASE RecordReconciled(w)
  <2>1. CASE At(w, "recorded")
    <3>1. marks > 0
      BY <2>1 DEF At, IInv, HandlersKnow
    <3>2. Honest([CompletedRow EXCEPT !.lease = "none"])
      BY <1>0, <3>1 DEF Honest, CompletedRow, Row, CompletionStatus, GisStatus, Lease
    <3>3. PICK step \in {"gis", "idle"} : Write(w, [CompletedRow EXCEPT !.lease = "none"], step)
      BY <1>4, <2>1 DEF RecordReconciled, At
    <3> QED
      BY <3>1, <3>2, <3>3, WritePreserves
  <2>2. CASE At(w, "not_recorded")
    <3>1. Honest([op EXCEPT !.status = "needs_review", !.lease = "none"])
      BY <1>0 DEF Honest, Row, CompletionStatus, Lease
    <3>2. Write(w, [op EXCEPT !.status = "needs_review", !.lease = "none"], "idle")
      BY <1>4, <2>2 DEF RecordReconciled, At
    <3> QED
      BY <3>1, <3>2, WritePreserves
  <2>3. CASE At(w, "ask_later")
    <3>1. Honest([op EXCEPT !.lease = "none"])
      BY <1>0 DEF Honest, Row, Lease
    <3>2. Write(w, [op EXCEPT !.lease = "none"], "idle")
      BY <1>4, <2>3 DEF RecordReconciled, At
    <3> QED
      BY <3>1, <3>2, WritePreserves
  <2> QED
    BY <1>4, <2>1, <2>2, <2>3 DEF RecordReconciled
<1> QED
  BY <1>1, <1>2, <1>3, <1>4 DEF WorkerReconciles

LEMMA ClaimSteps == ASSUME IInv, NEW w \in Workers, ClaimGis(w) \/ ClaimLink(w) PROVE IInv'
<1> w \in Actors
  BY DEF Actors
<1>0. Honest(op)
  BY RowIsHonest
<1> USE DEF Steps, MarkSteps, ReconcileSteps, GisSteps, LinkSteps, KnowsMarked, KnowsReported
<1>1. CASE ClaimGis(w)
  <2>1. Honest([op EXCEPT !.gis = "sending", !.lease = "held"])
    BY <1>0 DEF Honest, Row, GisStatus, Lease
  <2> QED
    BY <1>1, <2>1, WritePreserves DEF ClaimGis
<1>2. CASE ClaimLink(w)
  <2>1. Honest([op EXCEPT !.link = "sending", !.linkLease = "held"])
    BY <1>0 DEF Honest, Row, LinkStatus, Lease
  <2> QED
    BY <1>2, <2>1, WritePreserves DEF ClaimLink
<1> QED
  BY <1>1, <1>2

\* A handler ends where it knows nothing.
LEMMA Ended ==
  ASSUME NEW a \in Actors
  PROVE  End(a) \in Steps /\ End(a) \notin KnowsMarked \cup KnowsReported
BY DEF End, Steps, KnowsMarked, KnowsReported, MarkSteps, ReconcileSteps, GisSteps, LinkSteps

LEMMA SendSteps ==
  ASSUME IInv, NEW a \in Actors,
         ReadToSend(a) \/ BeginSending(a) \/ LookupReport(a) \/ CreateReport(a)
           \/ LookupAgain(a) \/ RecordSent(a)
  PROVE  IInv'
<1>0. Honest(op) /\ End(a) \in Steps /\ End(a) \notin KnowsMarked /\ End(a) \notin KnowsReported
      /\ End(a) # "appended"
  BY RowIsHonest, Ended DEF End
<1> USE DEF Steps, MarkSteps, ReconcileSteps, GisSteps, LinkSteps, KnowsMarked, KnowsReported
<1>k. /\ pc[a] \in {"gis_begin", "lookup", "create", "lookup_again", "found"} => marks > 0
      /\ pc[a] = "found" => reported
  BY DEF IInv, HandlersKnow
<1>1. CASE ReadToSend(a)
  <2>1. PICK step \in {"lookup", "gis_begin", End(a)} :
          Goto(a, step) /\ (step # End(a) => op.status = "completed")
    BY <1>1 DEF ReadToSend, Read
  <2>2. step # End(a) => marks > 0
    BY <1>0, <2>1 DEF Honest
  <2>3. UNCHANGED <<op, World>> /\ faults' \in 0..MaxFaults
    BY <1>1 DEF ReadToSend, Read, IInv, TypeOK
  <2> QED
    BY <1>0, <2>1, <2>2, <2>3, GotoPreserves
<1>2. CASE BeginSending(a)
  <2>1. Honest([op EXCEPT !.gis = "sending", !.lease = "held"])
    BY <1>0 DEF Honest, Row, GisStatus, Lease
  <2>2. marks > 0
    BY <1>2, <1>k DEF BeginSending, At
  <2> QED
    BY <1>2, <2>1, <2>2, WritePreserves DEF BeginSending
<1>3. CASE LookupReport(a)
  <2>1. faults' \in 0..MaxFaults
    BY <1>3, FaultBound DEF LookupReport, IInv, TypeOK
  <2>2. PICK s \in {"found", "create", "lookup_again", "gis_refused"} :
          Goto(a, s) /\ (s = "found" => reported)
    BY <1>3 DEF LookupReport
  <2>3. marks > 0
    BY <1>3, <1>k DEF LookupReport, At
  <2> QED
    BY <1>3, <2>1, <2>2, <2>3, GotoPreserves DEF LookupReport
<1>4. CASE CreateReport(a)
  <2>1. faults' \in 0..MaxFaults
    BY <1>4, FaultBound DEF CreateReport, IInv, TypeOK
  <2>2. PICK s \in {"found", "lookup_again", "gis_refused"} :
          Goto(a, s) /\ (s = "found" => reported')
    BY <1>4 DEF CreateReport
  <2>3. marks > 0
    BY <1>4, <1>k DEF CreateReport, At
  <2>4. /\ UNCHANGED <<op, marks, linked>>
        /\ reported' = TRUE \/ reported' = reported
        /\ late' = late \/ late' = late \cup {"report"}
    BY <1>4 DEF CreateReport
  <2>5. marks' \in 0..2 /\ linked' \in BOOLEAN /\ reported' \in BOOLEAN
    BY <2>4 DEF IInv, TypeOK
  <2>6. late' \in SUBSET Requests
    BY <2>4 DEF IInv, TypeOK, Requests
  <2>7. LateInOrder' /\ WrittenInOrder'
    BY <2>3, <2>4 DEF IInv, LateInOrder, WrittenInOrder
  <2> QED
    BY <2>1, <2>2, <2>3, <2>4, <2>5, <2>6, <2>7, WorldPreserves
<1>5. CASE LookupAgain(a)
  <2>1. faults' \in 0..MaxFaults
    BY <1>5, FaultBound DEF LookupAgain, IInv, TypeOK
  <2>2. PICK s \in {"found", "gis_retry", End(a)} :
          Goto(a, s) /\ (s = "found" => reported)
    BY <1>0, <1>5 DEF LookupAgain
  <2>3. marks > 0
    BY <1>5, <1>k DEF LookupAgain, At
  <2> QED
    BY <1>0, <1>5, <2>1, <2>2, <2>3, GotoPreserves DEF LookupAgain
<1>6. CASE RecordSent(a)
  <2>1. CASE At(a, "found")
    <3>1. Honest([op EXCEPT !.gis = "delivered", !.link = "pending", !.lease = "none"])
      BY <1>0, <1>k, <2>1 DEF Honest, Row, GisStatus, LinkStatus, Lease, At
    <3>2. Write(a, [op EXCEPT !.gis = "delivered", !.link = "pending", !.lease = "none"], "link")
      BY <1>6, <2>1 DEF RecordSent, At
    <3> QED
      BY <3>1, <3>2, WritePreserves
  <2>2. CASE At(a, "gis_retry")
    <3>1. Honest([op EXCEPT !.gis = "retry_wait", !.lease = "none"])
      BY <1>0 DEF Honest, Row, GisStatus, Lease
    <3>2. Write(a, [op EXCEPT !.gis = "retry_wait", !.lease = "none"], End(a))
      BY <1>6, <2>2 DEF RecordSent, At
    <3> QED
      BY <1>0, <3>1, <3>2, WritePreserves
  <2>3. CASE At(a, "gis_refused")
    <3>1. Honest([op EXCEPT !.gis = "needs_attention", !.lease = "none"])
      BY <1>0 DEF Honest, Row, GisStatus, Lease
    <3>2. Write(a, [op EXCEPT !.gis = "needs_attention", !.lease = "none"], End(a))
      BY <1>6, <2>3 DEF RecordSent, At
    <3> QED
      BY <1>0, <3>1, <3>2, WritePreserves
  <2> QED
    BY <1>6, <2>1, <2>2, <2>3 DEF RecordSent
<1> QED
  BY <1>1, <1>2, <1>3, <1>4, <1>5, <1>6

LEMMA LinkingSteps ==
  ASSUME IInv, NEW a \in Actors, ReadToLink(a) \/ BeginLink(a) \/ AppendLink(a) \/ RecordLink(a)
  PROVE  IInv'
<1>0. Honest(op) /\ End(a) \in Steps /\ End(a) \notin KnowsMarked /\ End(a) \notin KnowsReported
      /\ End(a) # "appended"
  BY RowIsHonest, Ended DEF End
<1> USE DEF Steps, MarkSteps, ReconcileSteps, GisSteps, LinkSteps, KnowsMarked, KnowsReported
<1>k. /\ pc[a] \in {"link_begin", "append", "appended", "link_retry"} => reported
      /\ pc[a] = "appended" => linked
  BY DEF IInv, HandlersKnow
<1>1. CASE ReadToLink(a)
  <2>1. PICK step \in {"link_begin", End(a)} :
          Goto(a, step) /\ (step # End(a) => op.gis = "delivered")
    BY <1>1 DEF ReadToLink, Read
  <2>2. step # End(a) => reported
    BY <1>0, <2>1 DEF Honest
  <2>3. UNCHANGED <<op, World>> /\ faults' \in 0..MaxFaults
    BY <1>1 DEF ReadToLink, Read, IInv, TypeOK
  <2> QED
    BY <1>0, <2>1, <2>2, <2>3, GotoPreserves
<1>2. CASE BeginLink(a)
  <2>1. reported
    BY <1>2, <1>k DEF BeginLink, At
  <2>2. CASE op.feature = "mapped"
    <3>1. Honest([op EXCEPT !.link = "sending", !.linkLease = "held"])
      BY <1>0 DEF Honest, Row, LinkStatus, Lease
    <3> QED
      BY <1>2, <2>1, <2>2, <3>1, WritePreserves DEF BeginLink
  <2>3. CASE op.feature # "mapped"
    <3>1. Honest([op EXCEPT !.link = "failed", !.linkLease = "none"])
      BY <1>0 DEF Honest, Row, LinkStatus, Lease
    <3>2. Write(a, [op EXCEPT !.link = "failed", !.linkLease = "none"], End(a))
      BY <1>2, <2>3 DEF BeginLink
    <3> QED
      BY <1>0, <3>1, <3>2, WritePreserves
  <2> QED
    BY <2>2, <2>3
<1>3. CASE AppendLink(a)
  <2>1. faults' \in 0..MaxFaults
    BY <1>3, FaultBound DEF AppendLink, IInv, TypeOK
  <2>2. PICK s \in {"appended", "link_retry"} : Goto(a, s) /\ (s = "appended" => linked')
    BY <1>3 DEF AppendLink
  <2>3. reported
    BY <1>3, <1>k DEF AppendLink, At
  <2>4. /\ UNCHANGED <<op, marks, reported>>
        /\ linked' = TRUE \/ linked' = linked
        /\ late' = late \/ late' = late \cup {"link"}
    BY <1>3 DEF AppendLink
  <2>5. marks' \in 0..2 /\ linked' \in BOOLEAN /\ reported' \in BOOLEAN
    BY <2>4 DEF IInv, TypeOK
  <2>6. late' \in SUBSET Requests
    BY <2>4 DEF IInv, TypeOK, Requests
  <2>7. LateInOrder' /\ WrittenInOrder'
    BY <2>3, <2>4 DEF IInv, LateInOrder, WrittenInOrder
  <2> QED
    BY <2>1, <2>2, <2>3, <2>4, <2>5, <2>6, <2>7, WorldPreserves
<1>4. CASE RecordLink(a)
  <2>1. CASE At(a, "appended")
    <3>1. Honest([op EXCEPT !.link = "delivered", !.linkLease = "none"])
      BY <1>0, <1>k, <2>1 DEF Honest, Row, LinkStatus, Lease, At
    <3>2. Write(a, [op EXCEPT !.link = "delivered", !.linkLease = "none"], End(a))
      BY <1>4, <2>1 DEF RecordLink, At
    <3> QED
      BY <1>0, <3>1, <3>2, WritePreserves
  <2>2. CASE At(a, "link_retry")
    <3>1. Honest([op EXCEPT !.link = "retry_wait", !.linkLease = "none"])
      BY <1>0 DEF Honest, Row, LinkStatus, Lease
    <3>2. Write(a, [op EXCEPT !.link = "retry_wait", !.linkLease = "none"], End(a))
      BY <1>4, <2>2 DEF RecordLink, At
    <3> QED
      BY <1>0, <3>1, <3>2, WritePreserves
  <2> QED
    BY <1>4, <2>1, <2>2 DEF RecordLink
<1> QED
  BY <1>1, <1>2, <1>3, <1>4

LEMMA OutsideSteps ==
  ASSUME IInv, ApplyLate \/ LeaseEnds \/ \E a \in Actors : Crash(a)
  PROVE  IInv'
<1>0. Honest(op)
  BY RowIsHonest
<1>1. CASE ApplyLate
  <2>1. /\ OneMore > 0 /\ OneMore \in 0..2
        /\ UNCHANGED <<op, pc, faults>>
    BY <1>1, Positive DEF ApplyLate, IInv
  <2>2. /\ marks' = marks \/ marks' = OneMore
        /\ reported' = reported \/ (reported' = TRUE /\ "report" \in late)
        /\ linked' = linked \/ (linked' = TRUE /\ "link" \in late)
        /\ \A r \in late' : r \in late
        /\ late' \in SUBSET Requests
    BY <1>1 DEF ApplyLate, IInv, TypeOK
  <2>3. marks' \in 0..2 /\ (marks > 0 => marks' > 0)
    BY <2>1, <2>2 DEF IInv, TypeOK
  <2>4. reported' \in BOOLEAN /\ linked' \in BOOLEAN
    BY <2>2 DEF IInv, TypeOK
  <2>5. TypeOK'
    BY <2>1, <2>2, <2>3, <2>4 DEF IInv, TypeOK
  <2>6. StatusesAreTrue' /\ LateInOrder' /\ WrittenInOrder'
    BY <2>1, <2>2, <2>3 DEF IInv, StatusesAreTrue, LateInOrder, WrittenInOrder
  <2>7. HandlersKnow'
    BY <2>1, <2>2, <2>3 DEF IInv, HandlersKnow
  <2> QED
    BY <2>5, <2>6, <2>7 DEF IInv
<1>2. CASE LeaseEnds
  <2>1. PICK row \in {[op EXCEPT !.lease = "over"], [op EXCEPT !.linkLease = "over"]} : op' = row
    BY <1>2 DEF LeaseEnds
  <2>2. Honest(row)
    BY <1>0, <2>1 DEF Honest, Row, Lease
  <2>3. UNCHANGED <<pc, World, faults>>
    BY <1>2 DEF LeaseEnds
  <2>4. TypeOK' /\ StatusesAreTrue'
    BY <2>1, <2>2, <2>3 DEF IInv, TypeOK, StatusesAreTrue, Honest, World
  <2>5. HandlersKnow' /\ LateInOrder' /\ WrittenInOrder'
    BY <2>3 DEF IInv, HandlersKnow, LateInOrder, WrittenInOrder, World
  <2> QED
    BY <2>4, <2>5 DEF IInv
<1>3. CASE \E a \in Actors : Crash(a)
  <2>1. PICK a \in Actors : Crash(a)
    BY <1>3
  <2>2. faults' \in 0..MaxFaults
    BY <2>1, FaultBound DEF Crash, IInv
  <2>3. End(a) \in Steps /\ End(a) \notin KnowsMarked \cup KnowsReported /\ End(a) # "appended"
    BY Ended DEF End
  <2> QED
    BY <2>1, <2>2, <2>3, GotoPreserves DEF Crash
<1> QED
  BY <1>1, <1>2, <1>3

LEMMA Stepwise == ASSUME IInv, [Next]_vars PROVE IInv'
<1>1. CASE UNCHANGED vars
  BY <1>1 DEF vars, IInv, TypeOK, StatusesAreTrue, HandlersKnow, LateInOrder, WrittenInOrder
<1>2. CASE \E p \in Posts : PostMark(p)
  BY <1>2, PostSteps
<1>3. CASE \E w \in Workers : WorkerClaims(w) \/ WorkerReconciles(w)
  BY <1>3, ReconcilingSteps, ClaimSteps DEF WorkerClaims
<1>4. CASE \E a \in Actors : Deliver(a)
  BY <1>4, SendSteps, LinkingSteps DEF Deliver
<1>5. CASE ApplyLate \/ LeaseEnds \/ \E a \in Actors : Crash(a)
  BY <1>5, OutsideSteps
<1> QED
  BY <1>1, <1>2, <1>3, <1>4, <1>5 DEF Next

-----------------------------------------------------------------------------
(* Theorems.                                                                 *)

\* Every state of the saga satisfies the invariant.
THEOREM Invariance == Spec => []IInv
<1>1. Init => IInv
  BY Initially
<1>2. IInv /\ [Next]_vars => IInv'
  BY Stepwise
<1> QED
  BY <1>1, <1>2, PTL DEF Spec

\* Every variable keeps its type (the operation's columns and the handlers).
THEOREM TypeCorrect == Spec => []TypeOK
<1>1. IInv => TypeOK
  BY DEF IInv
<1> QED
  BY <1>1, Invariance, PTL

\* What the row says of TechPortal and the GIS is so, for any number of
\* requests, workers, lost answers and leases that ended too early.
THEOREM RowIsTrue == Spec => []StatusesAreTrue
<1>1. IInv => StatusesAreTrue
  BY DEF IInv
<1> QED
  BY <1>1, Invariance, PTL

-----------------------------------------------------------------------------
(* The saga implements CompletionContract.                                   *)

LEMMA ContractInit == Init => Contract!Init
BY DEF Init, Contract!Init

LEMMA WorldStutters ==
  ASSUME UNCHANGED <<marks, reported, linked>>
  PROVE  UNCHANGED <<marks > 0, reported, linked>>
OBVIOUS

LEMMA ContractStep ==
  ASSUME IInv, [Next]_vars
  PROVE  [Contract!Next]_<<marks > 0, reported, linked>>
<1> DEFINE Stutter == UNCHANGED <<marks, reported, linked>>
<1>1. CASE UNCHANGED vars
  BY <1>1 DEF vars
<1>2. CASE \E p \in Posts : PostMark(p)
  <2>1. PICK p \in Posts : PostMark(p)
    BY <1>2
  <2>2. CASE MarkApplied(p)
    <3>1. (marks > 0)' = TRUE /\ UNCHANGED <<reported, linked>>
      BY <2>2, Positive DEF MarkApplied, IInv
    <3> QED
      BY <3>1 DEF Contract!Next, Contract!Mark
  <2>3. CASE ~MarkApplied(p)
    <3>1. Stutter
      BY <2>1, <2>3 DEF PostMark, CreateOrGet, SavePhotos, ReadToMark, MarkNotApplied,
         RecordMarked, RecordUnclear, RecordRefused, Write, Read, World
    <3> QED
      BY <3>1, WorldStutters
  <2> QED
    BY <2>2, <2>3
<1>3. CASE \E w \in Workers : WorkerClaims(w) \/ WorkerReconciles(w)
  <2>1. Stutter
    BY <1>3 DEF WorkerClaims, WorkerReconciles, ClaimReconciliation, ClaimGis, ClaimLink,
       ReadToReconcile, AskRecorded, RecordReconciled, Write, Read, World
  <2> QED
    BY <2>1, WorldStutters
<1>4. CASE \E a \in Actors : Deliver(a)
  <2>1. PICK a \in Actors : Deliver(a)
    BY <1>4
  <2>2. CASE CreateReport(a)
    <3>1. marks > 0 /\ UNCHANGED <<marks, linked>> /\ (reported' = TRUE \/ UNCHANGED reported)
      BY <2>2 DEF CreateReport, At, IInv, HandlersKnow, KnowsMarked, GisSteps
    <3> QED
      BY <3>1 DEF Contract!Next, Contract!Report
  <2>3. CASE AppendLink(a)
    <3>1. reported /\ UNCHANGED <<marks, reported>> /\ (linked' = TRUE \/ UNCHANGED linked)
      BY <2>3 DEF AppendLink, At, IInv, HandlersKnow, KnowsReported, LinkSteps
    <3> QED
      BY <3>1 DEF Contract!Next, Contract!Link
  <2>4. CASE ~CreateReport(a) /\ ~AppendLink(a)
    <3>1. Stutter
      BY <2>1, <2>4 DEF Deliver, ReadToSend, BeginSending, LookupReport, LookupAgain,
         RecordSent, ReadToLink, BeginLink, RecordLink, Write, Read, World
    <3> QED
      BY <3>1, WorldStutters
  <2> QED
    BY <2>2, <2>3, <2>4
<1>5. CASE ApplyLate
  <2>1. CASE marks' = OneMore /\ UNCHANGED <<reported, linked>>
    <3>1. (marks > 0)' = TRUE
      BY <2>1, Positive DEF IInv
    <3> QED
      BY <2>1, <3>1 DEF Contract!Next, Contract!Mark
  <2>2. CASE "report" \in late /\ reported' = TRUE /\ UNCHANGED <<marks, linked>>
    <3>1. marks > 0
      BY <2>2 DEF IInv, LateInOrder
    <3> QED
      BY <2>2, <3>1 DEF Contract!Next, Contract!Report
  <2>3. CASE "link" \in late /\ linked' = TRUE /\ UNCHANGED <<marks, reported>>
    <3>1. reported
      BY <2>3 DEF IInv, LateInOrder
    <3> QED
      BY <2>3, <3>1 DEF Contract!Next, Contract!Link
  <2> QED
    BY <1>5, <2>1, <2>2, <2>3 DEF ApplyLate
<1>6. CASE LeaseEnds \/ \E a \in Actors : Crash(a)
  <2>1. Stutter
    BY <1>6 DEF LeaseEnds, Crash, World
  <2> QED
    BY <2>1, WorldStutters
<1> QED
  BY <1>1, <1>2, <1>3, <1>4, <1>5, <1>6 DEF Next

\* No report before the mark and no link before the report, late requests
\* included: the saga implements the contract.
THEOREM ContractImplemented == Spec => SentInOrder
<1>1. Init => Contract!Init
  BY ContractInit
<1>2. IInv /\ [Next]_vars => [Contract!Next]_<<marks > 0, reported, linked>>
  BY ContractStep
<1> QED
  BY <1>1, <1>2, Invariance, PTL DEF Spec, SentInOrder, Contract!Spec
=============================================================================
