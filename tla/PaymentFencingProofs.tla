------------------------ MODULE PaymentFencingProofs ------------------------
(***************************************************************************)
(* Theorems about PaymentFencing, for every number of workers, columns,    *)
(* CRM writes, jobs, claims and retries.                                   *)
(*                                                                         *)
(* The argument is one inductive invariant, IInv.  AppliedAtMostOnce alone *)
(* is not inductive: a stale worker about to send, a request on its way    *)
(* and a journal row all have to agree that the write has not happened     *)
(* yet, and only the fencing token ties the three together.  The order of  *)
(* the writes needs more: that the newest worker's copy of the row is the  *)
(* row, and that it starts on its columns only when no write is unknown.   *)
(***************************************************************************)
EXTENDS PaymentFencing, TLAPS

Busy(w) == pc[w] # "idle"

\* The worker holds the newest token, whether or not its lease is still live.
Newest(w) == claimToken[w] = leaseToken

\* The worker works on its own copy of the row, or on a write it chose from it.
WritePcs == {"sending", "waiting", "applied", "rejected"}
ViewPcs  == {"working"} \cup WritePcs

\* Tokens are granted once, the newest one to the owner of a running job.
ClaimsInv ==
  /\ \A w \in Worker : Busy(w) =>
       /\ claimJob[w] # 0 /\ claimJob[w] <= nJobs
       /\ claimToken[w] # 0 /\ claimToken[w] <= leaseToken
       /\ Newest(w) => leaseOwner = w /\ jobState[claimJob[w]] = "running"
  /\ \A v, w \in Worker :
       Busy(v) /\ Busy(w) /\ claimToken[v] = claimToken[w] => v = w

\* A worker's copy of the row is never ahead of the row, and not behind it
\* while nobody has claimed the payment since.
ViewInv(w) ==
  pc[w] \in ViewPcs =>
    /\ view[w] \subseteq recorded \cup Unrecorded
    /\ Newest(w) => recorded \subseteq view[w]

\* The newest worker knows every write whose outcome is unknown: it has still to
\* reconcile it, or it is the write the worker itself has in hand.
UnknownInv(w) ==
  Newest(w) =>
    /\ pc[w] = "recovering" => \A i \in Write : journal[i] = "in_flight" => i \in todo[w]
    /\ pc[w] = "working" => \A i \in Write : journal[i] # "in_flight"
    /\ pc[w] \in WritePcs =>
         /\ journalToken[target[w]] = claimToken[w]
         /\ \A i \in Write : journal[i] = "in_flight" <=> i = target[w]

\* A write that is announced and not sent, or sent and refused, has not happened
\* and is not on its way.
AnnouncedInv(w) ==
  /\ pc[w] \in WritePcs => target[w] \in Write
  /\ pc[w] \in {"sending", "rejected"} =>
       /\ journal[target[w]] = "in_flight"
       /\ journalToken[target[w]] = claimToken[w]
       /\ remote[target[w]] = 0
       /\ \A r \in net : r.write # target[w]

\* What a worker believes to have happened has happened.
SeenInv(w) ==
  /\ pc[w] = "applied" => remote[target[w]] = 1
  /\ \A i \in seen[w] : remote[i] = 1

\* Whoever completes the job of an open payment leaves one that has a document
\* to poll for, or another job.
SuccessorInv(w) ==
  pc[w] = "done" /\ Owns(w) /\ status = "open" /\ Document \notin recorded =>
    \E k \in 1..nJobs : k # claimJob[w] /\ jobState[k] \in ActiveStates

WorkerInv(w) ==
  /\ ViewInv(w)
  /\ UnknownInv(w)
  /\ AnnouncedInv(w)
  /\ SeenInv(w)
  /\ SuccessorInv(w)

\* A request on its way belongs to the in-flight row announced under its token,
\* and its write has not happened.
RequestsInv ==
  \A r \in net :
    /\ journal[r.write] = "in_flight"
    /\ journalToken[r.write] = r.token
    /\ remote[r.write] = 0

\* What the journal and the row say of a write is true; a write is announced
\* only when what it builds on is recorded, and unknown only until its own
\* column is.
WritesInv ==
  \A i \in Write :
    /\ remote[i] \in {0, 1}
    /\ journal[i] = "confirmed" => remote[i] = 1
    /\ journal[i] \in {"none", "prepared"} => remote[i] = 0
    /\ i \notin Optional /\ Field[i] \in recorded => remote[i] = 1
    /\ journal[i] # "none" => Prior[Field[i]] \subseteq recorded
    /\ journal[i] = "in_flight" => Field[i] \notin recorded

\* The document completes the columns before it; only a payment with a document
\* is paid or polled, and only one without waits for the choice of a client.
DocumentInv ==
  /\ Document \in recorded => 1..Document \subseteq recorded
  /\ status = "paid" => Document \in recorded
  /\ status = "choosing" => Document \notin recorded
  /\ \A j \in 1..nJobs : jobKind[j] = "reconciliation" => Document \in recorded

IInv ==
  /\ TypeOK
  /\ ClaimsInv
  /\ \A w \in Worker : WorkerInv(w)
  /\ RequestsInv
  /\ WritesInv
  /\ DocumentInv
  /\ WorkNotLost
  /\ FailedIsVisible

-----------------------------------------------------------------------------
\* The columns up to the document are in the form and nothing else.
LEMMA EarlyColumns ==
  /\ Client \in 1..Document /\ Document \in Form
  /\ \A c \in 1..Document : c \in Form /\ c \notin Audit /\ c \notin Unrecorded
BY ColumnAssumption DEF Form, Column, Client

\* A worker that owns the payment and has come to a column has recorded
\* everything the column builds on, and not the column.
LEMMA ColumnIsNext ==
  ASSUME IInv, NEW w \in Worker, NEW c \in Column, AtColumn(w, c)
  PROVE  c \notin recorded /\ Prior[c] \subseteq recorded
<1> DEFINE kind == jobKind[claimJob[w]]
<1>1. /\ view[w] \subseteq recorded \cup Unrecorded /\ recorded \subseteq view[w]
      /\ pc[w] = "working"
  BY DEF AtColumn, Owns, IInv, WorkerInv, ViewInv, Newest, ViewPcs
<1>2. c \notin view[w] /\ c \in Plan(w) /\ \A d \in Plan(w) : d \notin view[w] => c <= d
  BY DEF AtColumn, Missing
<1>3. \A d \in Plan(w) : d \in Column /\ d < c /\ d \notin Unrecorded => d \in recorded
  BY <1>1, <1>2 DEF Column
<1>4. status = "paid" => \A d \in 1..Document : d \in recorded
  BY DEF IInv, DocumentInv
<1>5. SUFFICES ASSUME NEW d \in Column, d \notin Unrecorded, d < c,
                      \/ d <= Document
                      \/ {c, d} \subseteq Audit
                      \/ {c, d} \subseteq Paid \cup Unrecorded
                      \/ {c, d} \subseteq Form /\ c \notin Audit
               PROVE  d \in recorded
  BY <1>1, <1>2 DEF Prior
<1>6. d <= Document => d \in 1..Document
  BY ColumnAssumption DEF Column
<1>7. CASE kind = "formation" /\ status = "open"
  <2>1. c \in Form /\ Plan(w) = Form
    BY <1>2, <1>7 DEF Plan, Form
  <2>2. d \in Form
    BY <1>5, <1>6, <2>1, EarlyColumns, ColumnAssumption DEF Form
  <2>3. QED
    BY <1>3, <1>5, <2>1, <2>2
<1>8. CASE kind = "formation" /\ status = "paid"
  <2>1. c \in Audit /\ c \in Form /\ \A e \in Audit : e \in Plan(w)
    BY <1>2, <1>8, ColumnAssumption DEF Plan, Form
  <2>2. d \in Audit \/ d <= Document
    BY <1>5, <2>1 DEF Form
  <2>3. QED
    BY <1>3, <1>4, <1>5, <1>6, <1>8, <2>1, <2>2
<1>9. CASE kind = "reconciliation" /\ status = "paid"
  <2>1. c \in Paid \cup Unrecorded /\ c \notin Form
        /\ \A e \in Paid \cup Unrecorded : e \in Plan(w)
    BY <1>2, <1>9, ColumnAssumption DEF Plan, Form, Column
  <2>2. d \in Paid \cup Unrecorded \/ d <= Document
    BY <1>5, <2>1, ColumnAssumption
  <2>3. QED
    BY <1>3, <1>4, <1>5, <1>6, <1>9, <2>1, <2>2
<1>10. QED
  BY <1>2, <1>7, <1>8, <1>9 DEF Plan

\* Queueing one more job, where no other job of the payment loses its place.
LEMMA EnqueueJobs ==
  ASSUME TypeOK, NEW kind \in Kind, NEW attempt \in Nat,
         NEW base \in [Job -> JobStates], Enqueue(kind, attempt, base)
  PROVE  /\ nJobs' = nJobs + 1 /\ nJobs' \in Job
         /\ jobKind' \in [Job -> Kind]
         /\ jobState' \in [Job -> JobStates]
         /\ jobAttempt' \in [Job -> Nat]
         /\ \A k \in 1..nJobs : jobKind'[k] = jobKind[k] /\ jobState'[k] = base[k]
         /\ jobKind'[nJobs'] = kind /\ jobState'[nJobs'] = "ready"
BY BoundAssumption DEF TypeOK, Enqueue, Job, JobStates, ActiveStates

-----------------------------------------------------------------------------
\* Steps of a worker that touch nothing but its own copies keep the invariant
\* when what it then believes is true.
LEMMA LocalStep ==
  ASSUME IInv, NEW w \in Worker, Busy(w), Busy(w)', TypeOK', WorkerInv(w)',
         UNCHANGED <<dbVars, leaseVars, rowVars, recorded, status, remote, net,
                     claimJob, claimToken>>,
         \A v \in Worker : v # w =>
           /\ pc'[v] = pc[v] /\ view'[v] = view[v] /\ todo'[v] = todo[v]
           /\ seen'[v] = seen[v] /\ target'[v] = target[v]
  PROVE  IInv'
<1>1. ClaimsInv'
  BY DEF IInv, ClaimsInv, Busy, Newest, dbVars, leaseVars
<1>2. ASSUME NEW v \in Worker, v # w PROVE WorkerInv(v)'
  <2>1. WorkerInv(v)
    BY DEF IInv
  <2>2. ViewInv(v)' /\ UnknownInv(v)' /\ AnnouncedInv(v)' /\ SeenInv(v)'
    BY <1>2, <2>1 DEF WorkerInv, ViewInv, UnknownInv, AnnouncedInv, SeenInv, Newest,
       leaseVars, rowVars
  <2>3. SuccessorInv(v)'
    BY <1>2, <2>1 DEF WorkerInv, SuccessorInv, Owns, dbVars, leaseVars
  <2>4. QED  BY <2>2, <2>3 DEF WorkerInv
<1>3. RequestsInv' /\ WritesInv' /\ DocumentInv' /\ WorkNotLost' /\ FailedIsVisible'
  BY DEF IInv, RequestsInv, WritesInv, DocumentInv, WorkNotLost, FailedIsVisible,
     dbVars, rowVars
<1>4. QED
  BY <1>1, <1>2, <1>3 DEF IInv

\* The steps that end a run's work, or fail it, only change the place it is at.
LEMMA PlaceStep ==
  ASSUME IInv, NEW w \in Worker, Busy(w), NEW p \in {"done", "unknown", "broken"},
         pc' = [pc EXCEPT ![w] = p],
         p = "done" => Document \in recorded \/ status # "open",
         UNCHANGED <<dbVars, leaseVars, rowVars, recorded, status, remote, net,
                     claimJob, claimToken, workVars>>
  PROVE  IInv'
<1>1. /\ pc' \in [Worker -> PcStates] /\ pc'[w] = p
      /\ \A v \in Worker : v # w => pc'[v] = pc[v]
  BY DEF IInv, TypeOK, PcStates
<1>2. TypeOK'
  BY <1>1 DEF IInv, TypeOK, dbVars, leaseVars, rowVars, workVars
<1>3. WorkerInv(w)'
  <2>1. SeenInv(w)' /\ SuccessorInv(w)'
    BY <1>1 DEF IInv, WorkerInv, SeenInv, SuccessorInv, workVars
  <2>2. ViewInv(w)' /\ UnknownInv(w)' /\ AnnouncedInv(w)'
    BY <1>1 DEF ViewInv, UnknownInv, AnnouncedInv, ViewPcs, WritePcs
  <2>3. QED  BY <2>1, <2>2 DEF WorkerInv
<1>4. QED
  BY <1>1, <1>2, <1>3, LocalStep DEF Busy, workVars

\* Reading the unknown writes changes no row; the newest worker misses none.
LEMMA LoadUnknownWritesStep ==
  ASSUME IInv, NEW w \in Worker, LoadUnknownWrites(w)
  PROVE  IInv'
<1>1. /\ pc' \in [Worker -> PcStates] /\ pc'[w] = "recovering"
      /\ todo' \in [Worker -> SUBSET Write]
      /\ todo'[w] = {i \in Write : journal[i] = "in_flight"}
      /\ \A v \in Worker : v # w => pc'[v] = pc[v] /\ todo'[v] = todo[v]
  BY DEF LoadUnknownWrites, IInv, TypeOK, PcStates
<1>2. TypeOK'
  BY <1>1 DEF LoadUnknownWrites, IInv, TypeOK, dbVars, leaseVars, rowVars
<1>3. WorkerInv(w)'
  <2>1. SeenInv(w)'
    BY <1>1 DEF LoadUnknownWrites, IInv, WorkerInv, SeenInv
  <2>2. ViewInv(w)' /\ UnknownInv(w)' /\ AnnouncedInv(w)' /\ SuccessorInv(w)'
    BY <1>1 DEF LoadUnknownWrites, ViewInv, UnknownInv, AnnouncedInv, SuccessorInv,
       ViewPcs, WritePcs, rowVars
  <2>3. QED  BY <2>1, <2>2 DEF WorkerInv
<1>4. QED
  BY <1>1, <1>2, <1>3, LocalStep DEF LoadUnknownWrites, Busy

\* The worker's fresh copy of the row is the row, and nothing is left unknown.
LEMMA StartWorkStep ==
  ASSUME IInv, NEW w \in Worker, StartWork(w)
  PROVE  IInv'
<1>1. /\ pc' \in [Worker -> PcStates] /\ pc'[w] = "working"
      /\ view' \in [Worker -> SUBSET Column] /\ view'[w] = recorded
      /\ \A v \in Worker : v # w => pc'[v] = pc[v] /\ view'[v] = view[v]
  BY DEF StartWork, IInv, TypeOK, PcStates
<1>2. TypeOK'
  BY <1>1 DEF StartWork, IInv, TypeOK, dbVars, leaseVars, rowVars
<1>3. WorkerInv(w)'
  <2>1. UnknownInv(w)'
    BY <1>1 DEF StartWork, IInv, WorkerInv, UnknownInv, Newest, leaseVars, rowVars, WritePcs
  <2>2. SeenInv(w)'
    BY <1>1 DEF StartWork, IInv, WorkerInv, SeenInv
  <2>3. ViewInv(w)' /\ AnnouncedInv(w)' /\ SuccessorInv(w)'
    BY <1>1 DEF StartWork, ViewInv, AnnouncedInv, SuccessorInv, ViewPcs, WritePcs
  <2>4. QED  BY <2>1, <2>2, <2>3 DEF WorkerInv
<1>4. QED
  BY <1>1, <1>2, <1>3, LocalStep DEF StartWork, Busy

\* A write the CRM shows, or the journal confirms, needs no request.
LEMMA SeenStep ==
  ASSUME IInv, NEW w \in Worker, NEW i \in Write,
         FindExisting(w, i) \/ AnswerFromJournal(w, i)
  PROVE  IInv'
<1>1. /\ remote[i] = 1 /\ pc[w] = "working"
      /\ seen' \in [Worker -> SUBSET Write] /\ seen'[w] = seen[w] \cup {i}
      /\ \A v \in Worker : v # w => seen'[v] = seen[v]
      /\ UNCHANGED <<dbVars, leaseVars, rowVars, recorded, status, remote, net,
                     pc, claimJob, claimToken, view, todo, target>>
  BY DEF FindExisting, AnswerFromJournal, Due, AtColumn, IInv, TypeOK, WritesInv
<1>2. TypeOK'
  BY <1>1 DEF IInv, TypeOK, dbVars, leaseVars, rowVars
<1>3. WorkerInv(w)'
  <2>1. SeenInv(w)'
    BY <1>1 DEF IInv, WorkerInv, SeenInv
  <2>2. ViewInv(w)' /\ UnknownInv(w)' /\ AnnouncedInv(w)' /\ SuccessorInv(w)'
    BY <1>1 DEF IInv, WorkerInv, ViewInv, UnknownInv, AnnouncedInv, SuccessorInv, Newest,
       WritePcs, ViewPcs, leaseVars, rowVars
  <2>3. QED  BY <2>1, <2>2 DEF WorkerInv
<1>4. QED
  BY <1>1, <1>2, <1>3, LocalStep DEF Busy

\* process or handle returns: with a full row, which has a document, or for a
\* payment that is not open.
LEMMA WorkReturnsStep ==
  ASSUME IInv, NEW w \in Worker, WorkReturns(w)
  PROVE  IInv'
<1>1. Busy(w) /\ (Document \in recorded \/ status # "open")
  <2>1. CASE jobKind[claimJob[w]] = "formation" /\ status = "open"
    <3>1. Document \in Plan(w)
      BY <2>1, EarlyColumns DEF Plan, Form
    <3>2. Document \in view[w] /\ view[w] \subseteq recorded \cup Unrecorded
      BY <3>1 DEF WorkReturns, Missing, IInv, WorkerInv, ViewInv, ViewPcs
    <3>3. Document \notin Unrecorded
      BY EarlyColumns, ColumnAssumption DEF Form
    <3>4. QED
      BY <3>2, <3>3 DEF WorkReturns, Busy
  <2>2. QED
    BY <2>1 DEF WorkReturns, Busy
<1>2. QED
  BY <1>1, PlaceStep DEF WorkReturns

\* An inconclusive recovery, a lost answer and a failed read end the run's work.
LEMMA FailingStep ==
  ASSUME IInv, NEW w \in Worker, RecoveryInconclusive(w) \/ NoAnswer(w) \/ ReadFails(w)
  PROVE  IInv'
<1>1. CASE RecoveryInconclusive(w)
  BY <1>1, PlaceStep DEF RecoveryInconclusive, Busy
<1>2. CASE NoAnswer(w)
  BY <1>2, PlaceStep DEF NoAnswer, Busy
<1>3. CASE ReadFails(w)
  BY <1>3, PlaceStep DEF ReadFails, Busy
<1>4. QED  BY <1>1, <1>2, <1>3

\* A run may settle the payment, or leave it to the employee: paid with a
\* document, waiting without one.
LEMMA StatusStep ==
  ASSUME IInv, NEW w \in Worker, Busy(w), NEW s \in {"closed", "choosing", "paid"},
         status' = s, pc' = [pc EXCEPT ![w] = "done"] \/ UNCHANGED pc,
         s = "paid" => Document \in recorded,
         s = "choosing" => Document \notin recorded,
         UNCHANGED <<dbVars, leaseVars, rowVars, recorded, remote, net,
                     claimJob, claimToken, workVars>>
  PROVE  IInv'
<1>1. /\ pc' \in [Worker -> PcStates]
      /\ pc'[w] = "done" \/ pc'[w] = pc[w]
      /\ \A v \in Worker : v # w => pc'[v] = pc[v]
  BY DEF IInv, TypeOK, PcStates
<1>2. \A v \in Worker : pc'[v] = "done" \/ pc'[v] = pc[v]
  BY <1>1
<1>3. TypeOK'
  BY <1>1 DEF IInv, TypeOK, StatusValues, dbVars, leaseVars, rowVars, workVars
<1>4. ClaimsInv'
  <2>1. \A v \in Worker : Busy(v)' <=> Busy(v)
    BY <1>1 DEF Busy
  <2>2. QED
    BY <2>1 DEF IInv, ClaimsInv, Newest, dbVars, leaseVars
<1>5. ASSUME NEW v \in Worker PROVE WorkerInv(v)'
  <2>1. ViewInv(v)' /\ UnknownInv(v)' /\ AnnouncedInv(v)' /\ SeenInv(v)'
    BY <1>2 DEF IInv, WorkerInv, ViewInv, UnknownInv, AnnouncedInv, SeenInv, Newest,
       WritePcs, ViewPcs, leaseVars, rowVars, workVars
  <2>2. SuccessorInv(v)'
    BY DEF SuccessorInv
  <2>3. QED  BY <2>1, <2>2 DEF WorkerInv
<1>6. RequestsInv' /\ WritesInv' /\ DocumentInv' /\ WorkNotLost' /\ FailedIsVisible'
  BY DEF IInv, RequestsInv, WritesInv, DocumentInv, WorkNotLost, FailedIsVisible,
     dbVars, rowVars
<1>7. QED
  BY <1>3, <1>4, <1>5, <1>6 DEF IInv

\* A late payment without a document is closed.
LEMMA FormationExpiresStep ==
  ASSUME IInv, NEW w \in Worker, FormationExpires(w)
  PROVE  IInv'
BY StatusStep DEF FormationExpires, Busy

\* A run that asks for the client has recorded nothing yet.
LEMMA FormationAsksStep ==
  ASSUME IInv, NEW w \in Worker, FormationAsks(w)
  PROVE  IInv'
<1>1. Client \notin recorded
  BY ColumnIsNext, ColumnAssumption DEF FormationAsks, Column, Client
<1>2. Document \notin recorded
  BY <1>1, EarlyColumns DEF IInv, DocumentInv
<1>3. QED
  BY <1>2, StatusStep DEF FormationAsks, AtColumn, Busy

\* A status check belongs to a payment with a document.
LEMMA CheckStatusStep ==
  ASSUME IInv, NEW w \in Worker, CheckStatus(w)
  PROVE  IInv'
<1>1. Busy(w) /\ Document \in recorded
  BY DEF CheckStatus, Busy, IInv, TypeOK, ClaimsInv, DocumentInv
<1>2. CASE status' = "paid" /\ UNCHANGED pc
  BY <1>1, <1>2, StatusStep DEF CheckStatus
<1>3. CASE status' = status /\ pc' = [pc EXCEPT ![w] = "done"]
  BY <1>1, <1>3, PlaceStep DEF CheckStatus
<1>4. CASE status' = "closed" /\ pc' = [pc EXCEPT ![w] = "done"]
  BY <1>1, <1>4, StatusStep DEF CheckStatus
<1>5. QED
  BY <1>2, <1>3, <1>4 DEF CheckStatus

-----------------------------------------------------------------------------
\* A claim keeps the invariant: the new token is nobody's, so every other
\* worker's view is allowed to be stale.
LEMMA ClaimStep ==
  ASSUME IInv, NEW w \in Worker, NEW j \in Job, Claim(w, j)
  PROVE  IInv'
<1>1. /\ leaseToken' = leaseToken + 1 /\ leaseToken' \in 0..MaxToken
      /\ leaseOwner' = w /\ leaseLive' = TRUE
      /\ j \in 1..nJobs /\ jobState[j] \in ActiveStates
      /\ jobState' \in [Job -> JobStates] /\ jobState'[j] = "running"
      /\ \A k \in 1..nJobs : k # j => jobState'[k] = jobState[k]
      /\ UNCHANGED <<nJobs, jobKind, jobAttempt>>
  BY BoundAssumption DEF Claim, IInv, TypeOK, Job, JobStates, ActiveStates
<1>2. /\ pc' \in [Worker -> PcStates] /\ pc'[w] = "opened"
      /\ claimJob' \in [Worker -> 0..MaxJobs] /\ claimJob'[w] = j
      /\ claimToken' \in [Worker -> 0..MaxToken] /\ claimToken'[w] = leaseToken + 1
      /\ \A v \in Worker : v # w => /\ pc'[v] = pc[v] /\ claimJob'[v] = claimJob[v]
                                    /\ claimToken'[v] = claimToken[v]
  BY <1>1 DEF Claim, IInv, TypeOK, PcStates, Job
<1>3. TypeOK'
  BY <1>1, <1>2 DEF Claim, IInv, TypeOK, rowVars, workVars
<1>4. \A v \in Worker : v # w /\ Busy(v) => claimToken[v] <= leaseToken
                                          /\ claimToken[v] # leaseToken + 1
  BY <1>1 DEF IInv, TypeOK, ClaimsInv
<1>5. ClaimsInv'
  <2>1. \A v \in Worker : v # w => (Busy(v)' <=> Busy(v))
    BY <1>2 DEF Busy
  <2>2. j # 0 /\ j <= nJobs /\ leaseToken + 1 # 0
    BY <1>1, BoundAssumption DEF Job, IInv, TypeOK
  <2>3. \A v \in Worker : v # w /\ Busy(v) => claimToken[v] <= leaseToken + 1
    BY <1>4 DEF IInv, TypeOK
  <2>4. QED
    BY <1>1, <1>2, <1>4, <2>1, <2>2, <2>3 DEF IInv, ClaimsInv, Newest
<1>6. ASSUME NEW v \in Worker PROVE WorkerInv(v)'
  <2>1. v # w => ~Busy(v) \/ ~Newest(v)'
    BY <1>1, <1>2, <1>4 DEF Newest
  <2>2. v # w => ~Owns(v)'
    BY <1>1 DEF Owns
  <2>3. CASE v = w
    BY <1>2, <2>3 DEF Claim, IInv, WorkerInv, ViewInv, UnknownInv, AnnouncedInv, SeenInv,
       SuccessorInv, WritePcs, ViewPcs, workVars
  <2>4. CASE v # w
    <3>1. ViewInv(v)' /\ UnknownInv(v)' /\ AnnouncedInv(v)' /\ SeenInv(v)'
      BY <1>2, <2>1, <2>4 DEF Claim, IInv, WorkerInv, ViewInv, UnknownInv, AnnouncedInv,
         SeenInv, WritePcs, ViewPcs, Busy, rowVars, workVars
    <3>2. QED
      BY <2>2, <2>4, <3>1 DEF WorkerInv, SuccessorInv
  <2>5. QED  BY <2>3, <2>4
<1>7. RequestsInv' /\ WritesInv' /\ DocumentInv'
  BY <1>1 DEF Claim, IInv, RequestsInv, WritesInv, DocumentInv, rowVars
<1>8. WorkNotLost' /\ FailedIsVisible'
  BY <1>1 DEF Claim, IInv, WorkNotLost, FailedIsVisible, ActiveStates, StoppedStates
<1>9. QED
  BY <1>3, <1>5, <1>6, <1>7, <1>8 DEF IInv

\* An expiring lease changes nothing the invariant promises but ownership.
LEMMA LeaseExpiresStep ==
  ASSUME IInv, LeaseExpires
  PROVE  IInv'
<1>1. TypeOK' /\ ClaimsInv' /\ RequestsInv' /\ WritesInv' /\ DocumentInv'
      /\ WorkNotLost' /\ FailedIsVisible'
  BY DEF IInv, TypeOK, ClaimsInv, RequestsInv, WritesInv, DocumentInv, WorkNotLost,
     FailedIsVisible, Busy, Newest, LeaseExpires, dbVars, rowVars, workerVars, workVars
<1>2. ASSUME NEW v \in Worker PROVE WorkerInv(v)'
  <2>1. ViewInv(v)' /\ UnknownInv(v)' /\ AnnouncedInv(v)' /\ SeenInv(v)'
    BY DEF IInv, WorkerInv, ViewInv, UnknownInv, AnnouncedInv, SeenInv, Newest,
       LeaseExpires, rowVars, workerVars, workVars
  <2>2. QED
    BY <2>1 DEF WorkerInv, SuccessorInv, Owns, LeaseExpires
<1>3. QED
  BY <1>1, <1>2 DEF IInv

\* What forgetting a claim does to the workers.
LEMMA ForgetWorkers ==
  ASSUME IInv, NEW w \in Worker, Forget(w)
  PROVE  /\ pc' \in [Worker -> PcStates] /\ pc'[w] = "idle"
         /\ claimJob' \in [Worker -> 0..MaxJobs]
         /\ claimToken' \in [Worker -> 0..MaxToken]
         /\ view' \in [Worker -> SUBSET Column]
         /\ todo' \in [Worker -> SUBSET Write]
         /\ seen' \in [Worker -> SUBSET Write] /\ seen'[w] = {}
         /\ target' \in [Worker -> Write \cup {None}]
         /\ \A v \in Worker : v # w =>
              /\ pc'[v] = pc[v] /\ claimJob'[v] = claimJob[v]
              /\ claimToken'[v] = claimToken[v] /\ view'[v] = view[v]
              /\ todo'[v] = todo[v] /\ seen'[v] = seen[v] /\ target'[v] = target[v]
<1>1. 0 \in 0..MaxJobs /\ 0 \in 0..MaxToken
  BY BoundAssumption
<1>2. QED
  BY <1>1 DEF Forget, IInv, TypeOK, PcStates

\* A dead worker leaves the journal row in flight; its request may still travel.
LEMMA AbandonStep ==
  ASSUME IInv, NEW w \in Worker, Abandon(w)
  PROVE  IInv'
<1>1. Forget(w)
  BY DEF Abandon
<1>2. TypeOK'
  BY <1>1, ForgetWorkers DEF Abandon, IInv, TypeOK, dbVars, leaseVars, rowVars
<1>3. ClaimsInv'
  <2>1. \A v \in Worker : Busy(v)' => v # w /\ Busy(v)
    BY <1>1, ForgetWorkers DEF Busy
  <2>2. QED
    BY <1>1, <2>1, ForgetWorkers DEF Abandon, IInv, ClaimsInv, Newest, dbVars, leaseVars
<1>4. ASSUME NEW v \in Worker PROVE WorkerInv(v)'
  <2>1. CASE v = w
    BY <1>1, <2>1, ForgetWorkers DEF WorkerInv, ViewInv, UnknownInv, AnnouncedInv, SeenInv,
       SuccessorInv, WritePcs, ViewPcs
  <2>2. CASE v # w
    <3>1. ViewInv(v)' /\ UnknownInv(v)' /\ AnnouncedInv(v)' /\ SeenInv(v)'
      BY <1>1, <2>2, ForgetWorkers DEF Abandon, IInv, WorkerInv, ViewInv, UnknownInv,
         AnnouncedInv, SeenInv, Newest, leaseVars, rowVars
    <3>2. SuccessorInv(v)'
      BY <1>1, <2>2, ForgetWorkers DEF Abandon, IInv, WorkerInv, SuccessorInv, Owns,
         dbVars, leaseVars
    <3>3. QED  BY <3>1, <3>2 DEF WorkerInv
  <2>3. QED  BY <2>1, <2>2
<1>5. RequestsInv' /\ WritesInv' /\ DocumentInv' /\ WorkNotLost' /\ FailedIsVisible'
  BY DEF Abandon, IInv, RequestsInv, WritesInv, DocumentInv, WorkNotLost,
     FailedIsVisible, dbVars, rowVars
<1>6. QED
  BY <1>2, <1>3, <1>4, <1>5 DEF IInv

-----------------------------------------------------------------------------
\* The owner is the only worker of the newest token.
LEMMA OwnerIsAlone ==
  ASSUME IInv, NEW w \in Worker, Busy(w), Owns(w)
  PROVE  Newest(w) /\ \A v \in Worker : Busy(v) /\ Newest(v) => v = w
BY DEF IInv, ClaimsInv, Owns, Newest

\* Steps that leave the jobs, the claims and the payment's row alone keep the
\* invariant when what they do to the journal, the requests and the workers fits.
LEMMA WriteStep ==
  ASSUME IInv, TypeOK',
         UNCHANGED <<dbVars, leaseVars, recorded, status, claimJob, claimToken>>,
         \A v \in Worker : Busy(v)' <=> Busy(v),
         \A v \in Worker : pc'[v] = "done" => pc[v] = "done",
         RequestsInv', WritesInv',
         \A v \in Worker : ViewInv(v)' /\ UnknownInv(v)' /\ AnnouncedInv(v)' /\ SeenInv(v)'
  PROVE  IInv'
<1>1. ClaimsInv'
  BY DEF IInv, ClaimsInv, Newest, dbVars, leaseVars
<1>2. \A v \in Worker : SuccessorInv(v)'
  BY DEF IInv, WorkerInv, SuccessorInv, Owns, dbVars, leaseVars
<1>3. DocumentInv' /\ WorkNotLost' /\ FailedIsVisible'
  BY DEF IInv, DocumentInv, WorkNotLost, FailedIsVisible, dbVars
<1>4. QED
  BY <1>1, <1>2, <1>3 DEF IInv, WorkerInv

\* A recovered write was applied, so nobody is about to send it.
LEMMA RecoverWriteStep ==
  ASSUME IInv, NEW w \in Worker, NEW i \in Write, RecoverWrite(w, i)
  PROVE  IInv'
<1>1. /\ pc[w] = "recovering" /\ remote[i] = 1
      /\ journal' \in [Write -> JournalStates] /\ journal'[i] = "confirmed"
      /\ journalToken' \in [Write -> 0..MaxToken]
      /\ todo' \in [Worker -> SUBSET Write] /\ todo'[w] = todo[w] \ {i}
      /\ \A k \in Write : k # i => journal'[k] = journal[k] /\ journalToken'[k] = journalToken[k]
      /\ \A v \in Worker : v # w => todo'[v] = todo[v]
  BY DEF RecoverWrite, IInv, TypeOK, JournalStates
<1>2. TypeOK'
  BY <1>1 DEF RecoverWrite, IInv, TypeOK, dbVars, leaseVars
<1>3. RequestsInv' /\ WritesInv'
  BY <1>1 DEF RecoverWrite, IInv, TypeOK, RequestsInv, WritesInv, Request, JournalStates
<1>4. ASSUME NEW v \in Worker
      PROVE  ViewInv(v)' /\ UnknownInv(v)' /\ AnnouncedInv(v)' /\ SeenInv(v)'
  <2>1. ViewInv(v)' /\ SeenInv(v)'
    BY DEF RecoverWrite, IInv, WorkerInv, ViewInv, SeenInv, Newest, leaseVars
  <2>2. UnknownInv(v)'
    <3>1. Busy(v) /\ Newest(v) => v = w
      BY <1>1, OwnerIsAlone DEF RecoverWrite, Busy
    <3>2. CASE v = w
      BY <1>1, <3>2 DEF RecoverWrite, IInv, WorkerInv, UnknownInv, Newest, leaseVars, WritePcs
    <3>3. CASE v # w
      BY <3>1, <3>3 DEF RecoverWrite, UnknownInv, Newest, Busy, leaseVars, WritePcs
    <3>4. QED  BY <3>2, <3>3
  <2>3. AnnouncedInv(v)'
    BY <1>1 DEF RecoverWrite, IInv, WorkerInv, AnnouncedInv, WritePcs
  <2>4. QED  BY <2>1, <2>2, <2>3
<1>5. QED
  BY <1>2, <1>3, <1>4, WriteStep DEF RecoverWrite, Busy

\* Only a write that is not announced is announced; it has not happened, and
\* what it builds on is recorded.
LEMMA BeginWriteStep ==
  ASSUME IInv, NEW w \in Worker, NEW i \in Write, BeginWrite(w, i)
  PROVE  IInv'
<1>1. /\ pc[w] = "working" /\ Owns(w) /\ Busy(w)
      /\ Field[i] \notin recorded /\ Prior[Field[i]] \subseteq recorded
  <2>1. AtColumn(w, Field[i]) /\ Field[i] \in Column
    BY WriteAssumption DEF BeginWrite, Due
  <2>2. QED
    BY <2>1, ColumnIsNext DEF AtColumn, Busy
<1>2. CASE journal[i] = "in_flight" /\ pc' = [pc EXCEPT ![w] = "unknown"]
           /\ UNCHANGED <<rowVars, target>>
  BY <1>1, <1>2, PlaceStep DEF BeginWrite, workVars
<1>3. CASE /\ journal[i] \in {"none", "prepared"}
           /\ journal' = [journal EXCEPT ![i] = "in_flight"]
           /\ journalToken' = [journalToken EXCEPT ![i] = claimToken[w]]
           /\ target' = [target EXCEPT ![w] = i]
           /\ pc' = [pc EXCEPT ![w] = "sending"]
  <2>1. /\ pc' \in [Worker -> PcStates] /\ pc'[w] = "sending"
        /\ journal' \in [Write -> JournalStates] /\ journal'[i] = "in_flight"
        /\ journalToken' \in [Write -> 0..MaxToken] /\ journalToken'[i] = claimToken[w]
        /\ target' \in [Worker -> Write \cup {None}] /\ target'[w] = i
        /\ \A k \in Write : k # i => journal'[k] = journal[k] /\ journalToken'[k] = journalToken[k]
        /\ \A v \in Worker : v # w => pc'[v] = pc[v] /\ target'[v] = target[v]
        /\ UNCHANGED <<dbVars, leaseVars, recorded, status, remote, net,
                       claimJob, claimToken, view, todo, seen>>
    BY <1>3 DEF BeginWrite, IInv, TypeOK, PcStates, JournalStates
  <2>2. remote[i] = 0 /\ \A r \in net : r.write # i
    BY <1>3 DEF IInv, WritesInv, RequestsInv
  <2>3. TypeOK'
    BY <2>1 DEF IInv, TypeOK, dbVars, leaseVars
  <2>4. RequestsInv' /\ WritesInv'
    BY <1>1, <2>1, <2>2 DEF IInv, TypeOK, RequestsInv, WritesInv, Request
  <2>5. ASSUME NEW v \in Worker
        PROVE  ViewInv(v)' /\ UnknownInv(v)' /\ AnnouncedInv(v)' /\ SeenInv(v)'
    <3>1. ViewInv(v)'
      BY <1>1, <2>1 DEF IInv, WorkerInv, ViewInv, Newest, ViewPcs, leaseVars
    <3>2. SeenInv(v)'
      BY <2>1 DEF IInv, WorkerInv, SeenInv
    <3>3. UnknownInv(v)'
      <4>1. Newest(w) /\ (Busy(v) /\ Newest(v) => v = w)
        BY <1>1, OwnerIsAlone
      <4>2. CASE v = w
        BY <1>1, <2>1, <4>1, <4>2 DEF IInv, WorkerInv, UnknownInv, Newest, WritePcs
      <4>3. CASE v # w
        BY <2>1, <4>1, <4>3 DEF UnknownInv, Newest, Busy, leaseVars, WritePcs
      <4>4. QED  BY <4>2, <4>3
    <3>4. AnnouncedInv(v)'
      BY <1>3, <2>1, <2>2 DEF IInv, WorkerInv, AnnouncedInv, WritePcs
    <3>5. QED  BY <3>1, <3>2, <3>3, <3>4
  <2>6. QED
    BY <1>1, <2>1, <2>3, <2>4, <2>5, WriteStep DEF Busy
<1>4. QED
  BY <1>2, <1>3 DEF BeginWrite

\* Two workers never hold the same announced write.
LEMMA AnnouncedOnce ==
  ASSUME IInv, NEW v \in Worker, NEW w \in Worker,
         pc[v] \in {"sending", "rejected"}, pc[w] \in {"sending", "rejected"},
         target[v] = target[w]
  PROVE  v = w
BY DEF IInv, WorkerInv, AnnouncedInv, ClaimsInv, Busy

\* A request leaves under the token of its row.
LEMMA SendStep ==
  ASSUME IInv, NEW w \in Worker, Send(w)
  PROVE  IInv'
<1> DEFINE r == [write |-> target[w], token |-> claimToken[w]]
<1>1. /\ target[w] \in Write /\ claimToken[w] \in 1..MaxToken
      /\ journal[target[w]] = "in_flight" /\ journalToken[target[w]] = claimToken[w]
      /\ remote[target[w]] = 0
  BY DEF Send, IInv, TypeOK, WorkerInv, AnnouncedInv, WritePcs, ClaimsInv, Busy
<1>2. /\ pc' \in [Worker -> PcStates] /\ pc'[w] = "waiting"
      /\ net' = net \cup {r} /\ r \in Request
      /\ \A v \in Worker : v # w => pc'[v] = pc[v]
      /\ UNCHANGED <<dbVars, leaseVars, rowVars, recorded, status, remote,
                     claimJob, claimToken, workVars>>
  BY <1>1 DEF Send, IInv, TypeOK, PcStates, Request
<1>3. TypeOK'
  BY <1>2 DEF IInv, TypeOK, dbVars, leaseVars, rowVars, workVars
<1>4. RequestsInv' /\ WritesInv'
  BY <1>1, <1>2 DEF IInv, RequestsInv, WritesInv, rowVars
<1>5. ASSUME NEW v \in Worker
      PROVE  ViewInv(v)' /\ UnknownInv(v)' /\ AnnouncedInv(v)' /\ SeenInv(v)'
  <2>1. ViewInv(v)' /\ UnknownInv(v)' /\ SeenInv(v)'
    BY <1>2 DEF Send, IInv, WorkerInv, ViewInv, UnknownInv, SeenInv, Newest, ViewPcs,
       WritePcs, leaseVars, rowVars, workVars
  <2>2. AnnouncedInv(v)'
    <3>1. CASE v = w
      BY <1>1, <1>2, <3>1 DEF AnnouncedInv, WritePcs, workVars
    <3>2. CASE v # w
      BY <1>2, <3>2, AnnouncedOnce DEF Send, IInv, WorkerInv, AnnouncedInv, WritePcs,
         rowVars, workVars
    <3>3. QED  BY <3>1, <3>2
  <2>3. QED  BY <2>1, <2>2
<1>6. QED
  BY <1>2, <1>3, <1>4, <1>5, WriteStep DEF Send, Busy

\* What an answer of the CRM does to the workers: the one that waits for it
\* comes to a new place.
LEMMA AnswerWorkers ==
  ASSUME IInv, NEW r \in net, NEW p \in {"applied", "rejected"},
         pc' = [v \in Worker |-> IF Awaits(v, r) THEN p ELSE pc[v]]
  PROVE  /\ pc' \in [Worker -> PcStates]
         /\ \A v \in Worker :
              \/ pc'[v] = pc[v]
              \/ pc[v] = "waiting" /\ pc'[v] = p /\ target[v] = r.write /\ claimToken[v] = r.token
BY DEF IInv, TypeOK, PcStates, Awaits

\* An answer, or its loss, keeps what the workers know of unknown writes.
LEMMA AnswerStep ==
  ASSUME IInv, NEW r \in net, NEW p \in {"applied", "rejected"},
         net' = net \ {r},
         \/ UNCHANGED pc
         \/ pc' = [v \in Worker |-> IF Awaits(v, r) THEN p ELSE pc[v]],
         \/ remote' = remote /\ p = "rejected"
         \/ remote' = [remote EXCEPT ![r.write] = @ + 1] /\ p = "applied",
         UNCHANGED <<dbVars, leaseVars, rowVars, recorded, status,
                     claimJob, claimToken, workVars>>
  PROVE  IInv'
<1>1. /\ pc' \in [Worker -> PcStates]
      /\ \A v \in Worker :
           \/ pc'[v] = pc[v]
           \/ pc[v] = "waiting" /\ pc'[v] = p /\ target[v] = r.write /\ claimToken[v] = r.token
  <2>1. CASE UNCHANGED pc
    BY <2>1 DEF IInv, TypeOK
  <2>2. CASE pc' = [v \in Worker |-> IF Awaits(v, r) THEN p ELSE pc[v]]
    BY <2>2, AnswerWorkers
  <2>3. QED  BY <2>1, <2>2
<1>2. /\ r.write \in Write /\ journal[r.write] = "in_flight"
      /\ journalToken[r.write] = r.token /\ remote[r.write] = 0
  BY DEF IInv, TypeOK, Request, RequestsInv
<1>3. /\ remote' \in [Write -> Nat]
      /\ \A i \in Write : i # r.write => remote'[i] = remote[i]
      /\ remote'[r.write] = IF p = "applied" THEN 1 ELSE 0
  <2>1. remote \in [Write -> Nat]
    BY DEF IInv, TypeOK
  <2>2. QED
    BY <1>2, <2>1
<1>4. \A q \in net' : q \in net /\ q.write # r.write
  <2>1. \A q \in net : q.write = r.write => q.token = r.token
    BY <1>2 DEF IInv, RequestsInv
  <2>2. \A q \in net : q.write = r.write => q = r
    BY <2>1 DEF IInv, TypeOK, Request
  <2>3. QED  BY <2>2
<1>5. TypeOK'
  BY <1>1, <1>3 DEF IInv, TypeOK, dbVars, leaseVars, rowVars, workVars
<1>6. RequestsInv'
  <2>1. \A q \in net : q.write \in Write
    BY DEF IInv, TypeOK, Request
  <2>2. QED
    BY <1>3, <1>4, <2>1 DEF IInv, RequestsInv, rowVars
<1>7. WritesInv'
  BY <1>2, <1>3 DEF IInv, WritesInv, rowVars
<1>8. ASSUME NEW v \in Worker
      PROVE  ViewInv(v)' /\ UnknownInv(v)' /\ AnnouncedInv(v)' /\ SeenInv(v)'
  <2>1. ViewInv(v)' /\ UnknownInv(v)'
    BY <1>1 DEF IInv, WorkerInv, ViewInv, UnknownInv, Newest, ViewPcs, WritePcs,
       leaseVars, rowVars, workVars
  <2>2. AnnouncedInv(v)'
    <3>1. CASE pc'[v] = pc[v]
      BY <1>3, <1>4, <3>1 DEF IInv, WorkerInv, AnnouncedInv, WritePcs, rowVars, workVars
    <3>2. CASE pc[v] = "waiting" /\ pc'[v] = p /\ target[v] = r.write /\ claimToken[v] = r.token
      BY <1>2, <1>3, <1>4, <3>2 DEF AnnouncedInv, WritePcs, rowVars, workVars
    <3>3. QED  BY <1>1, <3>1, <3>2
  <2>3. SeenInv(v)'
    <3>1. \A i \in Write : remote[i] = 1 => remote'[i] = 1
      BY <1>2, <1>3
    <3>2. seen[v] \subseteq Write /\ (pc[v] = "applied" => target[v] \in Write)
      BY DEF IInv, TypeOK, WorkerInv, AnnouncedInv, WritePcs
    <3>3. QED
      BY <1>1, <1>3, <3>1, <3>2 DEF IInv, WorkerInv, SeenInv, workVars
  <2>4. QED  BY <2>1, <2>2, <2>3
<1>9. QED
  BY <1>1, <1>5, <1>6, <1>7, <1>8, WriteStep DEF Busy, workVars

\* Whatever happens to a request, it happens once.
LEMMA CrmStep ==
  ASSUME IInv, NEW r \in net, Crm(r)
  PROVE  IInv'
<1>1. CASE RemoteApply(r)
  BY <1>1, AnswerStep DEF RemoteApply
<1>2. CASE RemoteReject(r)
  BY <1>2, AnswerStep DEF RemoteReject
<1>3. CASE RequestLost(r)
  BY <1>3, AnswerStep DEF RequestLost, workerVars
<1>4. QED
  BY <1>1, <1>2, <1>3 DEF Crm

\* The owner's row is its own, so marking it confirmed or rejected leaves no
\* write unknown.
LEMMA OwnRowStep ==
  ASSUME IInv, NEW w \in Worker, Owns(w), NEW s \in {"confirmed", "prepared"},
         pc[w] = IF s = "confirmed" THEN "applied" ELSE "rejected", SetOwnRow(w, s),
         UNCHANGED <<journalToken, remote, net>>
  PROVE  /\ target[w] \in Write
         /\ journal' \in [Write -> JournalStates] /\ journal'[target[w]] = s
         /\ \A i \in Write : i # target[w] => journal'[i] = journal[i] /\ journal[i] # "in_flight"
         /\ RequestsInv'
         /\ \A v \in Worker : pc[v] \in {"sending", "rejected"} /\ v # w => target[v] # target[w]
<1>1. /\ target[w] \in Write /\ journalToken[target[w]] = claimToken[w]
      /\ \A i \in Write : i # target[w] => journal[i] # "in_flight"
  BY DEF IInv, WorkerInv, UnknownInv, AnnouncedInv, WritePcs, Owns, Newest
<1>2. /\ journal' \in [Write -> JournalStates] /\ journal'[target[w]] = s
      /\ \A i \in Write : i # target[w] => journal'[i] = journal[i]
  BY <1>1 DEF SetOwnRow, IInv, TypeOK, JournalStates
<1>3. \A r \in net : r.write # target[w] /\ r.write \in Write
  BY DEF IInv, TypeOK, Request, WorkerInv, AnnouncedInv, SeenInv, RequestsInv
<1>4. RequestsInv'
  BY <1>2, <1>3 DEF IInv, RequestsInv
<1>5. \A v \in Worker : pc[v] \in {"sending", "rejected"} /\ v # w => target[v] # target[w]
  BY AnnouncedOnce DEF IInv, WorkerInv, AnnouncedInv, SeenInv
<1>6. QED
  BY <1>1, <1>2, <1>4, <1>5

\* A confirmed write took effect, and the run goes on knowing it.
LEMMA ConfirmWriteStep ==
  ASSUME IInv, NEW w \in Worker, ConfirmWrite(w)
  PROVE  IInv'
<1>1. Owns(w) /\ Busy(w) /\ pc[w] = "applied" /\ remote[target[w]] = 1
  BY DEF ConfirmWrite, Busy, IInv, WorkerInv, SeenInv
<1>2. /\ target[w] \in Write /\ RequestsInv'
      /\ journal' \in [Write -> JournalStates] /\ journal'[target[w]] = "confirmed"
      /\ \A i \in Write : i # target[w] => journal'[i] = journal[i] /\ journal[i] # "in_flight"
      /\ \A v \in Worker : pc[v] \in {"sending", "rejected"} /\ v # w => target[v] # target[w]
  BY <1>1, OwnRowStep DEF ConfirmWrite
<1>3. /\ pc' \in [Worker -> PcStates] /\ pc'[w] = "working"
      /\ seen' \in [Worker -> SUBSET Write] /\ seen'[w] = seen[w] \cup {target[w]}
      /\ target' \in [Worker -> Write \cup {None}]
      /\ \A v \in Worker : v # w => pc'[v] = pc[v] /\ seen'[v] = seen[v] /\ target'[v] = target[v]
  BY <1>2 DEF ConfirmWrite, IInv, TypeOK, PcStates
<1>4. TypeOK'
  BY <1>2, <1>3 DEF ConfirmWrite, IInv, TypeOK, dbVars, leaseVars
<1>5. WritesInv'
  BY <1>1, <1>2 DEF ConfirmWrite, IInv, WritesInv, WorkerInv, UnknownInv, WritePcs, Owns, Newest
<1>6. ASSUME NEW v \in Worker
      PROVE  ViewInv(v)' /\ UnknownInv(v)' /\ AnnouncedInv(v)' /\ SeenInv(v)'
  <2>1. ViewInv(v)' /\ SeenInv(v)'
    BY <1>1, <1>3 DEF ConfirmWrite, IInv, WorkerInv, ViewInv, SeenInv, Newest, ViewPcs,
       WritePcs, leaseVars
  <2>2. UnknownInv(v)'
    <3>1. Busy(v) /\ Newest(v) => v = w
      BY <1>1, OwnerIsAlone
    <3>2. CASE v = w
      BY <1>2, <1>3, <3>2 DEF UnknownInv, WritePcs
    <3>3. CASE v # w
      BY <1>3, <3>1, <3>3 DEF ConfirmWrite, UnknownInv, Newest, Busy, leaseVars, WritePcs
    <3>4. QED  BY <3>2, <3>3
  <2>3. AnnouncedInv(v)'
    BY <1>2, <1>3 DEF ConfirmWrite, IInv, WorkerInv, AnnouncedInv, WritePcs
  <2>4. QED  BY <2>1, <2>2, <2>3
<1>7. QED
  BY <1>1, <1>2, <1>3, <1>4, <1>5, <1>6, WriteStep DEF ConfirmWrite, Busy

\* A rejected write has not happened and may be announced again by a later job.
LEMMA RejectWriteStep ==
  ASSUME IInv, NEW w \in Worker, RejectWrite(w)
  PROVE  IInv'
<1>1. Owns(w) /\ Busy(w) /\ pc[w] = "rejected" /\ remote[target[w]] = 0
      /\ journal[target[w]] = "in_flight"
  BY DEF RejectWrite, Busy, IInv, WorkerInv, AnnouncedInv
<1>2. /\ target[w] \in Write /\ RequestsInv'
      /\ journal' \in [Write -> JournalStates] /\ journal'[target[w]] = "prepared"
      /\ \A i \in Write : i # target[w] => journal'[i] = journal[i] /\ journal[i] # "in_flight"
      /\ \A v \in Worker : pc[v] \in {"sending", "rejected"} /\ v # w => target[v] # target[w]
  BY <1>1, OwnRowStep DEF RejectWrite
<1>3. /\ pc' \in [Worker -> PcStates] /\ pc'[w] = "broken"
      /\ \A v \in Worker : v # w => pc'[v] = pc[v]
  BY DEF RejectWrite, IInv, TypeOK, PcStates
<1>4. TypeOK'
  BY <1>2, <1>3 DEF RejectWrite, IInv, TypeOK, dbVars, leaseVars, workVars
<1>5. WritesInv'
  BY <1>1, <1>2 DEF RejectWrite, IInv, WritesInv
<1>6. ASSUME NEW v \in Worker
      PROVE  ViewInv(v)' /\ UnknownInv(v)' /\ AnnouncedInv(v)' /\ SeenInv(v)'
  <2>1. ViewInv(v)' /\ SeenInv(v)'
    BY <1>3 DEF RejectWrite, IInv, WorkerInv, ViewInv, SeenInv, Newest, ViewPcs,
       WritePcs, leaseVars, workVars
  <2>2. UnknownInv(v)'
    <3>1. Busy(v) /\ Newest(v) => v = w
      BY <1>1, OwnerIsAlone
    <3>2. QED
      BY <1>3, <3>1 DEF RejectWrite, UnknownInv, Newest, Busy, leaseVars, workVars, WritePcs
  <2>3. AnnouncedInv(v)'
    BY <1>2, <1>3 DEF RejectWrite, IInv, WorkerInv, AnnouncedInv, WritePcs, workVars
  <2>4. QED  BY <2>1, <2>2, <2>3
<1>7. QED
  BY <1>1, <1>2, <1>3, <1>4, <1>5, <1>6, WriteStep DEF RejectWrite, Busy

\* A column is recorded by the owner, when no write is unknown and its own
\* writes have happened.
LEMMA StoreResultStep ==
  ASSUME IInv, NEW w \in Worker, NEW c \in Column, StoreResult(w, c)
  PROVE  IInv'
<1>1. /\ Owns(w) /\ Busy(w) /\ pc[w] = "working" /\ c \in Plan(w)
      /\ c \notin recorded /\ Prior[c] \subseteq recorded
  BY ColumnIsNext DEF StoreResult, AtColumn, Missing, Busy
<1>2. /\ view' \in [Worker -> SUBSET Column] /\ view'[w] = view[w] \cup {c}
      /\ seen' \in [Worker -> SUBSET Write] /\ seen'[w] = {}
      /\ recorded' = recorded \cup ({c} \ Unrecorded)
      /\ recorded' \subseteq Column \ Unrecorded
      /\ \A v \in Worker : v # w => view'[v] = view[v] /\ seen'[v] = seen[v]
  BY DEF StoreResult, IInv, TypeOK
<1>3. TypeOK'
  BY <1>2 DEF StoreResult, IInv, TypeOK, dbVars, leaseVars, rowVars
<1>4. ClaimsInv' /\ RequestsInv' /\ WorkNotLost' /\ FailedIsVisible'
  BY DEF StoreResult, IInv, ClaimsInv, RequestsInv, WorkNotLost, FailedIsVisible, Busy,
     Newest, dbVars, leaseVars, rowVars
<1>5. WritesInv'
  <2>1. \A i \in Write : journal[i] # "in_flight"
    BY <1>1 DEF IInv, WorkerInv, UnknownInv, Owns, Newest
  <2>2. \A i \in Write : i \notin Optional /\ Field[i] = c => remote[i] = 1
    BY DEF StoreResult, IInv, WorkerInv, SeenInv
  <2>3. QED
    BY <1>2, <2>1, <2>2 DEF StoreResult, IInv, WritesInv, rowVars
<1>6. DocumentInv'
  <2>1. c = Document => 1..Document \subseteq recorded'
    <3>1. SUFFICES ASSUME c = Document, NEW d \in 1..Document PROVE d \in recorded'
      OBVIOUS
    <3>2. d \in Column /\ d \notin Unrecorded
      BY EarlyColumns, ColumnAssumption DEF Form, Column
    <3>3. CASE d = Document
      BY <1>2, <3>1, <3>2, <3>3
    <3>4. CASE d < Document
      <4>1. d \in Prior[c]
        BY <3>1, <3>2, <3>4 DEF Prior
      <4>2. QED
        BY <1>1, <1>2, <4>1
    <3>5. QED
      BY <3>3, <3>4, ColumnAssumption DEF Column
  <2>2. status # "choosing"
    BY <1>1 DEF Plan
  <2>3. QED
    BY <1>2, <2>1, <2>2 DEF StoreResult, IInv, DocumentInv, dbVars
<1>7. ASSUME NEW v \in Worker PROVE WorkerInv(v)'
  <2>1. ViewInv(v)'
    <3>1. Busy(v) /\ Newest(v) => v = w
      BY <1>1, OwnerIsAlone
    <3>2. ViewInv(v)
      BY DEF IInv, WorkerInv
    <3>3. CASE v = w
      BY <1>1, <1>2, <3>2, <3>3 DEF StoreResult, ViewInv, ViewPcs, Newest, leaseVars
    <3>4. CASE v # w
      BY <1>2, <3>1, <3>2, <3>4 DEF StoreResult, ViewInv, ViewPcs, WritePcs, Newest, Busy, leaseVars
    <3>5. QED  BY <3>3, <3>4
  <2>2. UnknownInv(v)' /\ AnnouncedInv(v)' /\ SeenInv(v)'
    BY <1>2 DEF StoreResult, IInv, WorkerInv, UnknownInv, AnnouncedInv, SeenInv, Newest,
       leaseVars, rowVars
  <2>3. SuccessorInv(v)'
    BY <1>2 DEF StoreResult, IInv, WorkerInv, SuccessorInv, Owns, dbVars, leaseVars
  <2>4. QED  BY <2>1, <2>2, <2>3 DEF WorkerInv
<1>8. QED
  BY <1>3, <1>4, <1>5, <1>6, <1>7 DEF IInv

-----------------------------------------------------------------------------
\* A request from outside the run queues one job, may reopen the payment, and
\* takes no job away that is queued or running.
LEMMA QueueStep ==
  ASSUME IInv, NEW kind \in Kind, NEW base \in [Job -> JobStates], Enqueue(kind, 0, base),
         \A k \in 1..nJobs : jobState[k] \in ActiveStates => base[k] = jobState[k],
         status' = status \/ status' = "open",
         status' = "failed" => base = jobState,
         kind = "reconciliation" => Document \in recorded,
         UNCHANGED <<leaseVars, rowVars, recorded, remote, net, workerVars>>
  PROVE  IInv'
<1>1. /\ nJobs' = nJobs + 1 /\ nJobs' \in Job
      /\ jobKind' \in [Job -> Kind]
      /\ jobState' \in [Job -> JobStates]
      /\ jobAttempt' \in [Job -> Nat]
      /\ \A k \in 1..nJobs : jobKind'[k] = jobKind[k] /\ jobState'[k] = base[k]
      /\ jobKind'[nJobs'] = kind /\ jobState'[nJobs'] = "ready"
  BY EnqueueJobs DEF IInv
<1>2. nJobs \in Nat /\ nJobs' \in 1..nJobs' /\ \A k \in 1..nJobs : k \in 1..nJobs'
  BY <1>1 DEF IInv, TypeOK, Job
<1>3. TypeOK'
  BY <1>1 DEF IInv, TypeOK, StatusValues, Job, leaseVars, rowVars, workerVars, workVars
<1>4. \A v \in Worker : Busy(v) => claimJob[v] \in 1..nJobs /\ claimJob[v] # nJobs'
  BY <1>1 DEF IInv, TypeOK, ClaimsInv
<1>5. ClaimsInv'
  <2>1. \A v \in Worker : Busy(v) => claimJob[v] <= nJobs'
    BY <1>1, <1>4 DEF IInv, TypeOK
  <2>2. \A v \in Worker : Busy(v) /\ Newest(v) => jobState'[claimJob[v]] = "running"
    BY <1>1, <1>4 DEF IInv, ClaimsInv, ActiveStates
  <2>3. QED
    BY <2>1, <2>2 DEF IInv, ClaimsInv, Busy, Newest, leaseVars, workerVars
<1>6. ASSUME NEW v \in Worker PROVE WorkerInv(v)'
  <2>1. ViewInv(v)' /\ UnknownInv(v)' /\ AnnouncedInv(v)' /\ SeenInv(v)'
    BY DEF IInv, WorkerInv, ViewInv, UnknownInv, AnnouncedInv, SeenInv, Newest,
       leaseVars, rowVars, workerVars, workVars
  <2>2. SuccessorInv(v)'
    BY <1>1, <1>2, <1>4 DEF SuccessorInv, Busy, ActiveStates, workerVars
  <2>3. QED  BY <2>1, <2>2 DEF WorkerInv
<1>7. RequestsInv' /\ WritesInv'
  BY DEF IInv, RequestsInv, WritesInv, rowVars
<1>8. DocumentInv'
  <2>1. \A k \in 1..nJobs' : k \in 1..nJobs \/ k = nJobs'
    BY <1>1, <1>2
  <2>2. QED
    BY <1>1, <2>1 DEF IInv, DocumentInv
<1>9. WorkNotLost' /\ FailedIsVisible'
  BY <1>1, <1>2 DEF IInv, WorkNotLost, FailedIsVisible, ActiveStates
<1>10. QED
  BY <1>3, <1>5, <1>6, <1>7, <1>8, <1>9 DEF IInv

\* A retry replaces a stopped job, which nobody runs.
LEMMA AdminRetryStep ==
  ASSUME IInv, NEW j \in Job, AdminRetry(j)
  PROVE  IInv'
<1> DEFINE base == [jobState EXCEPT ![j] = "superseded"]
<1>1. /\ jobKind[j] \in Kind /\ base \in [Job -> JobStates]
      /\ jobKind[j] = "reconciliation" => Document \in recorded
  <2>1. j \in 1..nJobs
    BY DEF AdminRetry, IInv, TypeOK, Job
  <2>2. jobKind[j] \in Kind /\ base \in [Job -> JobStates]
    BY DEF IInv, TypeOK, JobStates
  <2>3. QED
    BY <2>1, <2>2 DEF IInv, DocumentInv
<1>2. \A k \in 1..nJobs : jobState[k] \in ActiveStates => base[k] = jobState[k]
  BY DEF AdminRetry, IInv, TypeOK, Job, ActiveStates, StoppedStates
<1> HIDE DEF base
<1>3. Enqueue(jobKind[j], 0, base) /\ status' # "failed"
  BY DEF AdminRetry, base
<1>4. QED
  BY <1>1, <1>2, <1>3, QueueStep DEF AdminRetry

\* A choice queues a formation of a payment that has no document.
LEMMA SelectClientStep ==
  ASSUME IInv, SelectClient
  PROVE  IInv'
BY QueueStep DEF SelectClient, IInv, TypeOK, Kind

\* A callback only queues a reconciliation of a payment with a document.
LEMMA CallbackStep ==
  ASSUME IInv, Callback
  PROVE  IInv'
BY QueueStep DEF Callback, IInv, TypeOK, Kind

-----------------------------------------------------------------------------
\* FollowUp keeps every job of its base in place, adds at most one job, of the
\* kind asked for, and leaves an active one.
LEMMA FollowUpJobs ==
  ASSUME TypeOK, NEW kind \in Kind, NEW attempt \in Nat,
         NEW base \in [Job -> JobStates], FollowUp(kind, attempt, base)
  PROVE  /\ nJobs' \in 1..MaxJobs /\ nJobs <= nJobs'
         /\ jobKind' \in [Job -> Kind]
         /\ jobState' \in [Job -> JobStates]
         /\ jobAttempt' \in [Job -> Nat]
         /\ \A k \in 1..nJobs : jobKind'[k] = jobKind[k] /\ jobState'[k] = base[k]
         /\ \A k \in 1..nJobs' : k > nJobs => k = nJobs' /\ jobKind'[k] = kind
         /\ \E k \in 1..nJobs' : jobState'[k] \in ActiveStates
<1> DEFINE queued == IF kind = "reconciliation" THEN ActiveJobs(kind, base) ELSE {}
<1>1. CASE queued = {}
  <2>1. Enqueue(kind, attempt, base)
    BY <1>1 DEF FollowUp
  <2>2. /\ nJobs' = nJobs + 1 /\ nJobs' \in Job
        /\ jobKind' \in [Job -> Kind]
        /\ jobState' \in [Job -> JobStates]
        /\ jobAttempt' \in [Job -> Nat]
        /\ \A k \in 1..nJobs : jobKind'[k] = jobKind[k] /\ jobState'[k] = base[k]
        /\ jobKind'[nJobs'] = kind /\ jobState'[nJobs'] = "ready"
    BY <2>1, EnqueueJobs
  <2>3. \E k \in 1..nJobs' : jobState'[k] \in ActiveStates
    BY <2>2 DEF Job, ActiveStates
  <2>4. \A k \in 1..nJobs' : k > nJobs => k = nJobs' /\ jobKind'[k] = kind
    BY <2>2 DEF TypeOK
  <2>5. QED
    BY <2>2, <2>3, <2>4 DEF TypeOK, Job
<1>2. CASE queued # {}
  <2> DEFINE oldest == CHOOSE j \in queued : \A k \in queued : j <= k
  <2>1. /\ jobState' = base
        /\ jobAttempt' = [jobAttempt EXCEPT ![oldest] =
                            IF attempt > @ THEN attempt ELSE @]
        /\ UNCHANGED <<nJobs, jobKind>>
    BY <1>2 DEF FollowUp
  <2>2. \E k \in 1..nJobs : base[k] \in ActiveStates
    BY <1>2 DEF ActiveJobs
  <2> HIDE DEF oldest
  <2>3. jobAttempt' \in [Job -> Nat]
    BY <2>1 DEF TypeOK
  <2>4. QED
    BY <2>1, <2>2, <2>3 DEF TypeOK
<1>3. QED  BY <1>1, <1>2

\* What any finish does to the jobs of a payment and to its status.
LEMMA FinishJobs ==
  ASSUME IInv, NEW w \in Worker, Finish(w)
  PROVE  /\ nJobs' \in 1..MaxJobs /\ nJobs <= nJobs'
         /\ jobKind' \in [Job -> Kind]
         /\ jobState' \in [Job -> JobStates]
         /\ jobAttempt' \in [Job -> Nat]
         /\ status' = status \/ (status' = "failed" /\ status \in Unsettled)
         /\ \A k \in 1..nJobs : /\ jobKind'[k] = jobKind[k]
                                /\ k # claimJob[w] => jobState'[k] = jobState[k]
         /\ \A k \in 1..nJobs' :
              k > nJobs /\ jobKind'[k] = "reconciliation" => Document \in recorded
         /\ WorkNotLost'
         /\ FailedIsVisible'
<1> DEFINE j == claimJob[w]
           attempt == jobAttempt[j] + 1
           Goal == /\ nJobs' \in 1..MaxJobs /\ nJobs <= nJobs'
                   /\ jobKind' \in [Job -> Kind]
                   /\ jobState' \in [Job -> JobStates]
                   /\ jobAttempt' \in [Job -> Nat]
                   /\ status' = status \/ (status' = "failed" /\ status \in Unsettled)
                   /\ \A k \in 1..nJobs : /\ jobKind'[k] = jobKind[k]
                                          /\ k # j => jobState'[k] = jobState[k]
                   /\ \A k \in 1..nJobs' :
                        k > nJobs /\ jobKind'[k] = "reconciliation" => Document \in recorded
                   /\ WorkNotLost'
                   /\ FailedIsVisible'
<1>1. /\ j \in 1..nJobs /\ j \in Job /\ jobState[j] = "running"
      /\ jobKind[j] \in Kind /\ attempt \in Nat
      /\ jobKind[j] = "reconciliation" => Document \in recorded
  BY BoundAssumption DEF Finish, FinishDone, FinishUnknown, FinishBroken,
     FinishFailed, MayFinish, IInv, TypeOK, ClaimsInv, DocumentInv, Busy, Job
<1>2. \A k \in 1..nJobs : jobState[k] \in StoppedStates => k # j
  BY <1>1 DEF StoppedStates
<1>3. ASSUME NEW kind \in Kind, NEW n \in Nat, NEW s \in {"completed", "superseded"},
             FollowUp(kind, n, [jobState EXCEPT ![j] = s]),
             UNCHANGED status,
             kind = "reconciliation" => Document \in recorded
      PROVE  Goal
  <2> DEFINE base == [jobState EXCEPT ![j] = s]
  <2>1. base \in [Job -> JobStates]
    BY <1>1 DEF IInv, TypeOK, JobStates
  <2>2. \A k \in 1..nJobs : k # j => base[k] = jobState[k]
    BY DEF IInv, TypeOK, Job
  <2> HIDE DEF base, j
  <2>3. /\ nJobs' \in 1..MaxJobs /\ nJobs <= nJobs'
        /\ jobKind' \in [Job -> Kind]
        /\ jobState' \in [Job -> JobStates]
        /\ jobAttempt' \in [Job -> Nat]
        /\ \A k \in 1..nJobs : jobKind'[k] = jobKind[k] /\ jobState'[k] = base[k]
        /\ \A k \in 1..nJobs' : k > nJobs => k = nJobs' /\ jobKind'[k] = kind
        /\ \E k \in 1..nJobs' : jobState'[k] \in ActiveStates
    <3>1. FollowUp(kind, n, base)
      BY <1>3 DEF base
    <3>2. QED
      BY <2>1, <3>1, FollowUpJobs DEF IInv
  <2>4. FailedIsVisible'
    BY <1>2, <1>3, <2>2, <2>3 DEF FailedIsVisible, IInv, TypeOK
  <2>5. WorkNotLost'
    BY <2>3 DEF WorkNotLost
  <2>6. \A k \in 1..nJobs' :
          k > nJobs /\ jobKind'[k] = "reconciliation" => Document \in recorded
    BY <1>3, <2>3
  <2>7. \A k \in 1..nJobs : k # j => jobState'[k] = jobState[k]
    BY <2>2, <2>3
  <2>8. QED
    BY <1>3, <2>3, <2>4, <2>5, <2>6, <2>7
<1>4. ASSUME NEW s \in {"completed"} \cup StoppedStates,
             jobState' = [jobState EXCEPT ![j] = s],
             UNCHANGED <<nJobs, jobKind, jobAttempt>>,
             \/ UNCHANGED status /\ s = "completed"
             \/ /\ status' = IF status \in Unsettled THEN "failed" ELSE status
                /\ s \in StoppedStates,
             status' = "open" => \E k \in 1..nJobs : k # j /\ jobState[k] \in ActiveStates
      PROVE  Goal
  <2>1. /\ jobState' \in [Job -> JobStates] /\ jobState'[j] = s
        /\ \A k \in 1..nJobs : k # j => jobState'[k] = jobState[k]
    BY <1>1, <1>4 DEF IInv, TypeOK, JobStates, StoppedStates, Job
  <2>2. WorkNotLost'
    BY <1>4, <2>1 DEF WorkNotLost
  <2>3. FailedIsVisible'
    BY <1>1, <1>2, <1>4, <2>1 DEF FailedIsVisible, IInv
  <2>4. nJobs \in 1..MaxJobs /\ ~\E k \in 1..nJobs : k > nJobs
    BY DEF IInv, TypeOK
  <2>5. jobKind \in [Job -> Kind] /\ jobAttempt \in [Job -> Nat]
    BY DEF IInv, TypeOK
  <2>6. status' = status \/ (status' = "failed" /\ status \in Unsettled)
    BY <1>4
  <2> HIDE DEF j
  <2>7. QED
    BY <1>4, <2>1, <2>2, <2>3, <2>4, <2>5, <2>6
<1>5. CASE FinishDone(w)
  <2>1. status = "open" /\ Document \notin recorded =>
          \E k \in 1..nJobs : k # j /\ jobState[k] \in ActiveStates
    BY <1>5 DEF FinishDone, MayFinish, IInv, WorkerInv, SuccessorInv
  <2>2. CASE NeedsCheck
    BY <1>3, <1>5, <2>2 DEF FinishDone, NeedsCheck, Kind
  <2>3. CASE ~NeedsCheck
    BY <1>4, <1>5, <2>1, <2>3 DEF FinishDone, NeedsCheck, Unsettled
  <2>4. QED  BY <2>2, <2>3
<1>6. CASE FinishUnknown(w) \/ FinishBroken(w)
  <2>1. \/ /\ UNCHANGED status
           /\ FollowUp(jobKind[j], attempt, [jobState EXCEPT ![j] = "superseded"])
        \/ /\ status' = IF status \in Unsettled THEN "failed" ELSE status
           /\ \E s \in StoppedStates : jobState' = [jobState EXCEPT ![j] = s]
           /\ UNCHANGED <<nJobs, jobKind, jobAttempt>>
    BY <1>6 DEF FinishUnknown, FinishBroken, FinishFailed, StoppedStates
  <2>2. CASE FollowUp(jobKind[j], attempt, [jobState EXCEPT ![j] = "superseded"])
             /\ UNCHANGED status
    BY <1>1, <1>3, <2>2
  <2>3. CASE /\ status' = IF status \in Unsettled THEN "failed" ELSE status
             /\ \E s \in StoppedStates : jobState' = [jobState EXCEPT ![j] = s]
             /\ UNCHANGED <<nJobs, jobKind, jobAttempt>>
    <3>1. status' # "open"
      BY <2>3 DEF Unsettled
    <3>2. QED
      BY <1>4, <2>3, <3>1
  <2>4. QED  BY <2>1, <2>2, <2>3
<1>7. QED
  BY <1>5, <1>6 DEF Finish

\* Closing a job keeps the invariant: the lease is gone with the worker's view.
LEMMA FinishStep ==
  ASSUME IInv, NEW w \in Worker, Finish(w)
  PROVE  IInv'
<1>1. Release(w) /\ Owns(w) /\ Busy(w) /\ Forget(w)
  BY DEF Finish, FinishDone, FinishUnknown, FinishBroken, FinishFailed, MayFinish, Busy,
     Release
<1>2. /\ nJobs' \in 1..MaxJobs /\ nJobs <= nJobs'
      /\ jobKind' \in [Job -> Kind]
      /\ jobState' \in [Job -> JobStates]
      /\ jobAttempt' \in [Job -> Nat]
      /\ status' = status \/ (status' = "failed" /\ status \in Unsettled)
      /\ \A k \in 1..nJobs : /\ jobKind'[k] = jobKind[k]
                             /\ k # claimJob[w] => jobState'[k] = jobState[k]
      /\ \A k \in 1..nJobs' :
           k > nJobs /\ jobKind'[k] = "reconciliation" => Document \in recorded
      /\ WorkNotLost'
      /\ FailedIsVisible'
  BY FinishJobs
<1>3. /\ leaseLive' = FALSE
      /\ UNCHANGED <<leaseToken, leaseOwner, journal, journalToken, recorded, remote, net>>
  BY <1>1 DEF Release, rowVars
<1>4. TypeOK'
  BY <1>1, <1>2, <1>3, ForgetWorkers DEF IInv, TypeOK, StatusValues
<1>5. ClaimsInv'
  <2>1. \A v \in Worker : Busy(v)' => v # w /\ Busy(v)
    BY <1>1, ForgetWorkers DEF Busy
  <2>2. \A v \in Worker : Busy(v)' => claimToken[v] # leaseToken
    BY <1>1, <2>1, OwnerIsAlone DEF Newest
  <2>3. \A v \in Worker : Busy(v)' => claimJob[v] <= nJobs'
    BY <1>2, <2>1 DEF IInv, TypeOK, ClaimsInv
  <2>4. QED
    BY <1>1, <1>3, <2>1, <2>2, <2>3, ForgetWorkers DEF IInv, ClaimsInv, Newest
<1>6. ASSUME NEW v \in Worker PROVE WorkerInv(v)'
  <2>1. SuccessorInv(v)'
    BY <1>3 DEF SuccessorInv, Owns
  <2>2. CASE v = w
    BY <1>1, <2>1, <2>2, ForgetWorkers DEF WorkerInv, ViewInv, UnknownInv, AnnouncedInv,
       SeenInv, WritePcs, ViewPcs
  <2>3. CASE v # w
    BY <1>1, <1>3, <2>1, <2>3, ForgetWorkers DEF IInv, WorkerInv, ViewInv, UnknownInv,
       AnnouncedInv, SeenInv, Newest
  <2>4. QED  BY <2>2, <2>3
<1>7. RequestsInv' /\ WritesInv'
  BY <1>3 DEF IInv, RequestsInv, WritesInv
<1>8. DocumentInv'
  <2>1. \A k \in 1..nJobs' : jobKind'[k] = "reconciliation" => Document \in recorded
    BY <1>2 DEF IInv, TypeOK, DocumentInv
  <2>2. QED
    BY <1>2, <1>3, <2>1 DEF IInv, DocumentInv
<1>9. QED
  BY <1>2, <1>4, <1>5, <1>6, <1>7, <1>8 DEF IInv

-----------------------------------------------------------------------------
\* The invariant holds initially.
LEMMA InitInv == Init => IInv
<1> SUFFICES ASSUME Init PROVE IInv
  OBVIOUS
<1>1. TypeOK
  <2>1. /\ nJobs \in 1..MaxJobs
        /\ jobKind \in [Job -> Kind]
        /\ jobState \in [Job -> JobStates]
        /\ jobAttempt \in [Job -> Nat]
    BY BoundAssumption DEF Init, Kind, JobStates, ActiveStates
  <2>2. /\ leaseToken \in 0..MaxToken
        /\ journal \in [Write -> JournalStates]
        /\ journalToken \in [Write -> 0..MaxToken]
        /\ remote \in [Write -> Nat]
        /\ status \in StatusValues
    BY BoundAssumption DEF Init, JournalStates, StatusValues
  <2>3. /\ pc \in [Worker -> PcStates]
        /\ claimJob \in [Worker -> 0..MaxJobs]
        /\ claimToken \in [Worker -> 0..MaxToken]
        /\ target \in [Worker -> Write \cup {None}]
    BY BoundAssumption DEF Init, PcStates
  <2>4. /\ view \in [Worker -> SUBSET Column]
        /\ todo \in [Worker -> SUBSET Write]
        /\ seen \in [Worker -> SUBSET Write]
    BY DEF Init
  <2>5. QED
    BY <2>1, <2>2, <2>3, <2>4 DEF Init, TypeOK
<1>2. ClaimsInv /\ RequestsInv
  BY DEF Init, ClaimsInv, RequestsInv, Busy
<1>3. ASSUME NEW w \in Worker PROVE WorkerInv(w)
  BY DEF Init, WorkerInv, ViewInv, UnknownInv, AnnouncedInv, SeenInv, SuccessorInv,
     ViewPcs, WritePcs
<1>4. WritesInv /\ DocumentInv
  <2>1. WritesInv
    BY DEF Init, WritesInv
  <2>2. \A j \in 1..nJobs : jobKind[j] = "formation"
    BY BoundAssumption DEF Init, Job
  <2>3. QED
    BY <2>1, <2>2 DEF Init, DocumentInv
<1>5. WorkNotLost /\ FailedIsVisible
  <2>1. 1 \in 1..nJobs /\ jobState[1] = "ready"
    BY BoundAssumption DEF Init, Job
  <2>2. QED
    BY <2>1 DEF Init, WorkNotLost, FailedIsVisible, ActiveStates
<1>6. QED
  BY <1>1, <1>2, <1>3, <1>4, <1>5 DEF IInv

\* Every step keeps the invariant.
LEMMA NextInv == IInv /\ [Next]_vars => IInv'
<1> SUFFICES ASSUME IInv, [Next]_vars PROVE IInv'
  OBVIOUS
<1>1. ASSUME NEW w \in Worker, NEW j \in Job, Claim(w, j) PROVE IInv'
  BY <1>1, ClaimStep
<1>2. ASSUME NEW w \in Worker, Recover(w) PROVE IInv'
  <2>1. ASSUME NEW i \in Write, RecoverWrite(w, i) PROVE IInv'
    BY <2>1, RecoverWriteStep
  <2>2. CASE RecoveryInconclusive(w)
    BY <2>2, FailingStep
  <2>3. QED
    BY <1>2, <2>1, <2>2, LoadUnknownWritesStep, StartWorkStep, FormationExpiresStep DEF Recover
<1>3. ASSUME NEW w \in Worker, Work(w) PROVE IInv'
  <2>1. ASSUME NEW i \in Write,
               FindExisting(w, i) \/ AnswerFromJournal(w, i) \/ BeginWrite(w, i)
        PROVE  IInv'
    BY <2>1, SeenStep, BeginWriteStep
  <2>2. CASE NoAnswer(w) \/ ReadFails(w)
    BY <2>2, FailingStep
  <2>3. ASSUME NEW c \in Column, StoreResult(w, c) PROVE IInv'
    BY <2>3, StoreResultStep
  <2>4. CASE Send(w) \/ ConfirmWrite(w) \/ RejectWrite(w)
    BY <2>4, SendStep, ConfirmWriteStep, RejectWriteStep
  <2>5. CASE FormationAsks(w) \/ WorkReturns(w) \/ CheckStatus(w)
    BY <2>5, FormationAsksStep, WorkReturnsStep, CheckStatusStep
  <2>6. QED
    BY <1>3, <2>1, <2>2, <2>3, <2>4, <2>5 DEF Work
<1>4. ASSUME NEW w \in Worker, Abandon(w) \/ Finish(w) PROVE IInv'
  BY <1>4, AbandonStep, FinishStep
<1>5. ASSUME NEW r \in net, Crm(r) PROVE IInv'
  BY <1>5, CrmStep
<1>6. ASSUME NEW j \in Job, AdminRetry(j) PROVE IInv'
  BY <1>6, AdminRetryStep
<1>7. CASE LeaseExpires \/ SelectClient \/ Callback
  BY <1>7, LeaseExpiresStep, SelectClientStep, CallbackStep
<1>8. CASE UNCHANGED vars
  <2>1. TypeOK' /\ ClaimsInv' /\ RequestsInv' /\ WritesInv' /\ DocumentInv'
    BY <1>8 DEF vars, dbVars, leaseVars, rowVars, workerVars, workVars, IInv, TypeOK,
       ClaimsInv, RequestsInv, WritesInv, DocumentInv, Busy, Newest
  <2>2. ASSUME NEW w \in Worker PROVE WorkerInv(w)'
    BY <1>8 DEF vars, dbVars, leaseVars, rowVars, workerVars, workVars, IInv, WorkerInv,
       ViewInv, UnknownInv, AnnouncedInv, SeenInv, SuccessorInv, Newest, Owns
  <2>3. WorkNotLost' /\ FailedIsVisible'
    BY <1>8 DEF vars, dbVars, IInv, WorkNotLost, FailedIsVisible
  <2>4. QED
    BY <2>1, <2>2, <2>3 DEF IInv
<1>9. QED
  BY <1>1, <1>2, <1>3, <1>4, <1>5, <1>6, <1>7, <1>8 DEF Next

\* The inductive invariant holds in every reachable state.
THEOREM Invariance == Spec => []IInv
BY InitInv, NextInv, PTL DEF Spec

\* Type correctness.
THEOREM TypeCorrect == Spec => []TypeOK
<1>1. IInv => TypeOK
  BY DEF IInv
<1>2. QED
  BY <1>1, Invariance, PTL

\* No CRM write of a payment takes effect twice, whatever workers, leases,
\* requests and retries do.
THEOREM AtMostOnce == Spec => []AppliedAtMostOnce
<1>1. IInv => AppliedAtMostOnce
  BY DEF IInv, WritesInv, AppliedAtMostOnce
<1>2. QED
  BY <1>1, Invariance, PTL

\* The journal and the payment row only record writes that took effect.
THEOREM RecordsAreTrue == Spec => []RecordedIsApplied
<1>1. IInv => RecordedIsApplied
  BY DEF IInv, WritesInv, RecordedIsApplied
<1>2. QED
  BY <1>1, Invariance, PTL

\* The owner of the lease owns it for a running job.
THEOREM OwnerHasJob == Spec => []OwnerRunsItsJob
<1>1. IInv => OwnerRunsItsJob
  BY DEF IInv, ClaimsInv, Busy, Newest, Owns, OwnerRunsItsJob
<1>2. QED
  BY <1>1, Invariance, PTL

\* A payment that is open keeps an active job, also when its formation stopped to
\* ask for a client and was resumed by a choice; a failed one keeps a job to
\* retry; one that waits for the employee shows it in its status.
THEOREM PaymentNotForgotten == Spec => [](WorkNotLost /\ FailedIsVisible)
<1>1. IInv => WorkNotLost /\ FailedIsVisible
  BY DEF IInv
<1>2. QED
  BY <1>1, Invariance, PTL

-----------------------------------------------------------------------------
\* Closing a job never forks the polling of a payment.
LEMMA FinishPolls ==
  ASSUME IInv, NEW w \in Worker, Finish(w)
  PROVE  Polls' \subseteq Polls \/ Polls' = {nJobs'}
<1> DEFINE j == claimJob[w]
<1>1. j \in 1..nJobs /\ jobState[j] = "running" /\ jobKind[j] \in Kind /\ jobAttempt[j] \in Nat
  BY BoundAssumption DEF Finish, FinishDone, FinishUnknown, FinishBroken,
     FinishFailed, MayFinish, IInv, TypeOK, ClaimsInv, Busy, Job
<1>2. ASSUME NEW s \in {"completed", "superseded"} \cup StoppedStates,
             jobState' = [jobState EXCEPT ![j] = s],
             UNCHANGED <<nJobs, jobKind>>
      PROVE  Polls' \subseteq Polls
  BY <1>2 DEF Polls, ActiveJobs, IInv, TypeOK, Job, ActiveStates, StoppedStates
<1>3. ASSUME NEW kind \in Kind, NEW n \in Nat, NEW s \in {"completed", "superseded"},
             FollowUp(kind, n, [jobState EXCEPT ![j] = s])
      PROVE  Polls' \subseteq Polls \/ Polls' = {nJobs'}
  <2> DEFINE base == [jobState EXCEPT ![j] = s]
  <2>1. base \in [Job -> JobStates] /\ ActiveJobs("reconciliation", base) \subseteq Polls
    BY <1>1 DEF IInv, TypeOK, JobStates, Polls, ActiveJobs, ActiveStates, Job
  <2>2. CASE Enqueue(kind, n, base)
    <3> HIDE DEF base
    <3>1. /\ nJobs' = nJobs + 1
          /\ \A k \in 1..nJobs : jobKind'[k] = jobKind[k] /\ jobState'[k] = base[k]
          /\ jobKind'[nJobs'] = kind /\ jobState'[nJobs'] = "ready"
      BY <2>1, <2>2, EnqueueJobs DEF IInv
    <3>2. CASE kind = "formation"
      BY <2>1, <3>1, <3>2 DEF Polls, ActiveJobs, IInv, TypeOK
    <3>3. CASE kind = "reconciliation" /\ ActiveJobs(kind, base) = {}
      <4>1. \A k \in 1..nJobs : k \notin Polls'
        BY <3>1, <3>3 DEF Polls, ActiveJobs
      <4>2. nJobs' \in Polls'
        BY <3>1, <3>3 DEF Polls, ActiveJobs, ActiveStates, IInv, TypeOK
      <4>3. \A k \in Polls' : k \in 1..nJobs \/ k = nJobs'
        BY <3>1 DEF Polls, ActiveJobs, IInv, TypeOK
      <4>4. QED  BY <4>1, <4>2, <4>3
    <3>4. kind = "reconciliation" => ActiveJobs(kind, base) = {}
      <4>1. CASE ActiveJobs(kind, base) = {}
        BY <4>1
      <4>2. CASE kind = "reconciliation" /\ ActiveJobs(kind, base) # {}
        <5>1. UNCHANGED nJobs
          BY <1>3, <4>2 DEF FollowUp, base
        <5>2. QED
          BY <3>1, <5>1 DEF IInv, TypeOK
      <4>3. QED  BY <4>1, <4>2
    <3>5. QED
      BY <3>2, <3>3, <3>4 DEF Kind
  <2>3. CASE jobState' = base /\ UNCHANGED <<nJobs, jobKind>>
    BY <1>2, <2>3
  <2>4. QED
    BY <1>3, <2>2, <2>3 DEF FollowUp
<1>4. CASE FinishDone(w)
  <2>1. CASE NeedsCheck
    BY <1>3, <1>4, <2>1 DEF FinishDone, Kind
  <2>2. CASE ~NeedsCheck
    BY <1>2, <1>4, <2>2 DEF FinishDone
  <2>3. QED  BY <2>1, <2>2
<1>5. CASE FinishUnknown(w) \/ FinishBroken(w)
  BY <1>1, <1>2, <1>3, <1>5 DEF FinishUnknown, FinishBroken, FinishFailed, StoppedStates
<1>6. QED
  BY <1>4, <1>5 DEF Finish

\* finish keeps at most one polling chain per closed job, for every history.
THEOREM PollsNeverFork == Spec => NoPollFork
<1>1. IInv /\ [Next]_vars => [PollsKept]_vars
  BY FinishPolls DEF PollsKept
<1>2. QED
  BY <1>1, Invariance, PTL DEF Spec, NoPollFork

-----------------------------------------------------------------------------
\* A write takes effect after everything it builds on is recorded, and before
\* its own column is: its row has been in flight since it was announced.
LEMMA AppliedInOrder ==
  ASSUME IInv, NEW r \in net, RemoteApply(r)
  PROVE  Ledger!Apply(r.write)
<1>1. r.write \in Write /\ remote[r.write] = 0 /\ journal[r.write] = "in_flight"
  BY DEF IInv, TypeOK, Request, RequestsInv
<1>2. Prior[Field[r.write]] \subseteq recorded /\ Field[r.write] \notin recorded
  BY <1>1 DEF IInv, WritesInv
<1>3. remote' = [remote EXCEPT ![r.write] = 1]
  BY <1>1 DEF RemoteApply, IInv, TypeOK
<1>4. QED
  BY <1>1, <1>2, <1>3 DEF RemoteApply, Ledger!Apply

\* A column is recorded after what it builds on and after its own writes; what
\* no column records changes nothing.
LEMMA RecordedInOrder ==
  ASSUME IInv, NEW w \in Worker, NEW c \in Column, StoreResult(w, c)
  PROVE  Ledger!Record(c) \/ UNCHANGED <<remote, recorded>>
<1>1. c \notin recorded /\ Prior[c] \subseteq recorded
  BY ColumnIsNext DEF StoreResult
<1>2. \A i \in Write \ Optional : Field[i] = c => remote[i] = 1
  BY DEF StoreResult, IInv, WorkerInv, SeenInv
<1>3. CASE c \in Unrecorded
  BY <1>3 DEF StoreResult
<1>4. CASE c \notin Unrecorded
  BY <1>1, <1>2, <1>4 DEF StoreResult, Ledger!Record
<1>5. QED  BY <1>3, <1>4

\* Every step of the engine is a step of the ledger or none.
LEMMA LedgerStep == IInv /\ [Next]_vars => [Ledger!Next]_(Ledger!vars)
<1> SUFFICES ASSUME IInv, [Next]_vars PROVE [Ledger!Next]_(Ledger!vars)
  OBVIOUS
<1>1. ASSUME NEW r \in net, RemoteApply(r) PROVE Ledger!Next
  <2>1. r.write \in Write
    BY DEF IInv, TypeOK, Request
  <2>2. QED
    BY <1>1, <2>1, AppliedInOrder DEF Ledger!Next
<1>2. ASSUME NEW w \in Worker, NEW c \in Column, StoreResult(w, c)
      PROVE  Ledger!Next \/ UNCHANGED <<remote, recorded>>
  BY <1>2, RecordedInOrder DEF Ledger!Next
<1>3. CASE UNCHANGED <<remote, recorded>>
  BY <1>3 DEF Ledger!vars
<1>4. ASSUME NEW w \in Worker, Recover(w) \/ Abandon(w) \/ (\E j \in Job : Claim(w, j))
      PROVE  UNCHANGED <<remote, recorded>>
  BY <1>4 DEF Recover, LoadUnknownWrites, RecoverWrite, RecoveryInconclusive, StartWork,
     FormationExpires, Abandon, Claim
<1>5. ASSUME NEW w \in Worker, Work(w), ~\E c \in Column : StoreResult(w, c)
      PROVE  UNCHANGED <<remote, recorded>>
  BY <1>5 DEF Work, FindExisting, AnswerFromJournal, BeginWrite, Send, NoAnswer,
     ConfirmWrite, RejectWrite, FormationAsks, WorkReturns, CheckStatus, ReadFails
<1>6. ASSUME NEW w \in Worker, Finish(w)
      PROVE  UNCHANGED <<remote, recorded>>
  BY <1>6 DEF Finish, FinishDone, FinishUnknown, FinishBroken, FinishFailed, Release
<1>7. ASSUME NEW r \in net, RemoteReject(r) \/ RequestLost(r)
      PROVE  UNCHANGED <<remote, recorded>>
  BY <1>7 DEF RemoteReject, RequestLost
<1>8. CASE \/ LeaseExpires \/ SelectClient \/ Callback
           \/ (\E j \in Job : AdminRetry(j)) \/ UNCHANGED vars
  BY <1>3, <1>8 DEF LeaseExpires, SelectClient, Callback, AdminRetry, vars
<1>9. QED
  BY <1>1, <1>2, <1>3, <1>4, <1>5, <1>6, <1>7, <1>8 DEF Next, Crm

\* The fenced engine implements the CRM ledger: whichever runs make them, writes
\* happen once, after what they build on is recorded and before their own column
\* is, and no column is recorded without the writes it stands for.
THEOREM LedgerImplemented == Spec => LedgerSpec
<1>1. Init => Ledger!Init
  BY DEF Init, Ledger!Init
<1>2. QED
  BY <1>1, LedgerStep, Invariance, PTL DEF Spec, LedgerSpec, Ledger!Spec
=============================================================================
