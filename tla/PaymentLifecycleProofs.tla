------------------------ MODULE PaymentLifecycleProofs ------------------------
(***************************************************************************)
(* Safety of PaymentLifecycle, for any number of jobs, commands, retries   *)
(* and faults, and whatever the employee may do.                           *)
(***************************************************************************)
EXTENDS PaymentLifecycle, SequenceTheorems, TLAPS

-----------------------------------------------------------------------------
(* What the variables hold, more closely than TypeOK says it.               *)

Progress == {"client_resolved", "invoice_created", "product_added", "payment_created",
             "link_created"}
Statuses == {"draft", "resolving_client", "client_selection_required", "send_queued"}
              \cup Progress \cup Terminal

Writes == {"create", "delete", "send"} \X (0..MaxCommands)

JobRecord == [kind : {"formation", "reconciliation"},
              action : {"none", "cancel", "resend", "select", "resume"},
              scope : 0..MaxCommands, attempt : Nat, state : Active \cup Stopped]

\* Only a formation carries a command.
JobsOK(js) ==
  /\ js \in Seq(JobRecord)
  /\ \A j \in DOMAIN js : js[j].kind = "reconciliation" => js[j].action \in {"none", "resume"}

Places == {"idle", "opened", "working", "resolving", "forming", "waiting", "applied",
           "storing", "checking", "unpaid", "paid", "done", "unknown", "broken"}

RowTyped ==
  /\ status \in Statuses /\ formed \in 0..6
  /\ sent \in BOOLEAN /\ paidAudit \in BOOLEAN /\ audit \subseteq {"comment", "activity"}

JobsTyped == JobsOK(jobs) /\ Len(jobs) <= MaxJobs

CrmTyped ==
  /\ journal \in Writes \cup {NoWrite} /\ written \subseteq Writes /\ net \subseteq Writes
  /\ doc \in {"none", "unpaid", "paid", "deleted"} /\ sends \subseteq 0..MaxCommands
  /\ notice \in {"none", "due", "delivered"}

RunTyped == run \in [job : Nat, pc : Places, view : Statuses]

RestTyped ==
  /\ inbox \in BOOLEAN /\ late \in BOOLEAN /\ asked \in BOOLEAN
  /\ commands \in 0..MaxCommands /\ faults \in 0..MaxFaults

Typed == RowTyped /\ JobsTyped /\ CrmTyped /\ RunTyped /\ RestTyped

-----------------------------------------------------------------------------
(* The inductive invariant.                                                 *)

\* A run owns the job it executes, of the sort its place is for.
OwnerRuns ==
  IF run.pc = "idle" THEN run = NoRun
  ELSE /\ run.job \in DOMAIN jobs /\ RunJob.state = "running"
       /\ run.pc \in {"resolving", "forming", "waiting", "applied", "storing"}
            => RunJob.kind = "formation"
       /\ run.pc \in {"resolving", "forming"} => RunJob.action \notin {"cancel", "resend"}

\* What the run found out about the status is still so: nobody else changes it
\* under the run, except that the employee chooses a client.
RunKnows ==
  /\ run.pc \in {"opened", "working"} =>
       \/ status = run.view
       \/ status = "resolving_client" /\ run.view = "client_selection_required"
  /\ run.pc = "resolving" => status = "resolving_client" /\ formed = 0
  /\ run.pc = "forming" => status \notin Terminal \ {"paid"}
  /\ run.pc \in {"waiting", "applied", "storing"} => status \notin Terminal
  /\ run.pc = "unpaid" => status # "paid"

\* Only a payment with a document is checked, and only such a payment is paid.
CheckedHasDocument == run.pc \in {"checking", "unpaid", "paid"} \/ status = "paid" => HasDocument

\* No run goes on before an unknown write is settled, so a payment with one does not
\* become final; a request on its way is unknown, or believed to be executed.
JournalKnows ==
  /\ run.pc \in {"working", "resolving", "forming", "storing", "checking", "unpaid", "paid",
                 "done"} => journal = NoWrite
  /\ run.pc \in {"waiting", "applied"} => journal = CurrentWrite
  /\ journal # NoWrite => status \notin Final
  /\ \A w \in net : w = journal \/ w \in written

\* The document exists once its creation is confirmed, and before it is deleted.
DocumentKnown ==
  /\ run.pc = "applied" /\ journal[1] = "create" => doc # "none"
  /\ \A w \in written : w[1] = "create" => doc # "none"
  /\ \A w \in net : w[1] = "delete" => doc # "none"

\* A callback nobody has read for is in the inbox until the document is known or
\* the inbox gives it up.
EarlyCallbacks == asked /\ ~HasDocument => inbox

IInv ==
  /\ Typed /\ OwnerRuns /\ RunKnows /\ CheckedHasDocument /\ JournalKnows /\ DocumentKnown
  /\ EarlyCallbacks /\ CallbackNotLost /\ PaidIsFollowedUp

-----------------------------------------------------------------------------
(* The operators of the model.                                              *)

LEMMA StepsFacts ==
  /\ AllSteps = 6 /\ \A k \in 1..6 : Steps[k] \in Progress
  /\ Steps[1] = "client_resolved" /\ Steps[4] = "payment_created"
  /\ Range(Steps) = Progress
<1>1. AllSteps = 6 /\ DOMAIN Steps = 1..6
  BY DEF AllSteps, Steps
<1>2. \A k \in 1..6 : Steps[k] \in Progress
  BY DEF Steps, Progress
<1>3. /\ Steps[1] = "client_resolved" /\ Steps[2] = "invoice_created"
      /\ Steps[3] = "product_added" /\ Steps[4] = "payment_created" /\ Steps[6] = "link_created"
  BY DEF Steps
<1>4. Range(Steps) \subseteq Progress
  BY <1>1, <1>2 DEF Range
<1>5. Progress \subseteq Range(Steps)
  BY <1>1, <1>3 DEF Range, Progress
<1> QED BY <1>1, <1>2, <1>3, <1>4, <1>5

\* Every job is one.
LEMMA JobFacts ==
  ASSUME NEW js, JobsOK(js)
  PROVE  /\ Len(js) \in Nat /\ DOMAIN js = 1..Len(js)
         /\ \A j \in DOMAIN js :
              /\ js[j] \in JobRecord
              /\ js[j].kind \in {"formation", "reconciliation"}
              /\ js[j].action \in {"none", "cancel", "resend", "select", "resume"}
              /\ js[j].scope \in 0..MaxCommands /\ js[j].attempt \in Nat
              /\ js[j].state \in Active \cup Stopped
<1>1. js \in Seq(JobRecord)
  BY DEF JobsOK
<1>2. Len(js) \in Nat /\ DOMAIN js = 1..Len(js)
  BY <1>1, LenProperties
<1>3. \A j \in 1..Len(js) : js[j] \in JobRecord
  BY <1>1, ElementOfSeq
<1>4. \A r \in JobRecord :
        /\ r.kind \in {"formation", "reconciliation"}
        /\ r.action \in {"none", "cancel", "resend", "select", "resume"}
        /\ r.scope \in 0..MaxCommands /\ r.attempt \in Nat
        /\ r.state \in Active \cup Stopped
  BY DEF JobRecord
<1> QED BY <1>2, <1>3, <1>4

\* The closer typing is a typing.
LEMMA TypedIsTypeOK == ASSUME Typed, OwnerRuns PROVE TypeOK
<1>1. Statuses = {"draft", "resolving_client", "client_selection_required", "send_queued"}
                   \cup Range(Steps) \cup Terminal
  BY StepsFacts DEF Statuses
<1>2. \A j \in DOMAIN jobs : jobs[j].state \in Active \cup Stopped
  BY JobFacts DEF Typed, JobsTyped
<1>3. run.job \in 0..Len(jobs)
  <2>1. Len(jobs) \in Nat /\ DOMAIN jobs = 1..Len(jobs)
    BY JobFacts DEF Typed, JobsTyped
  <2>2. CASE run.pc = "idle"
    <3>1. run.job = 0
      BY <2>2 DEF OwnerRuns, NoRun
    <3> QED BY <2>1, <3>1
  <2>3. CASE run.pc # "idle"
    BY <2>1, <2>3 DEF OwnerRuns
  <2> QED BY <2>2, <2>3
<1> QED BY <1>1, <1>2, <1>3, StepsFacts
        DEF TypeOK, Typed, RowTyped, JobsTyped, CrmTyped, RunTyped, RestTyped, Places

\* RemoveAt leaves the other elements in their order.
LEMMA RemoveAtFacts ==
  ASSUME NEW S, NEW s \in Seq(S), NEW i \in 1..Len(s)
  PROVE  /\ RemoveAt(s, i) \in Seq(S)
         /\ Len(RemoveAt(s, i)) = Len(s) - 1
         /\ \A k \in 1..(Len(s) - 1) : RemoveAt(s, i)[k] = IF k < i THEN s[k] ELSE s[k + 1]
<1> DEFINE front == SubSeq(s, 1, i - 1)
           back  == SubSeq(s, i + 1, Len(s))
<1>1. /\ front \in Seq(S) /\ Len(front) = i - 1
      /\ \A k \in 1..(i - 1) : front[k] = s[k]
  <2>1. \A k \in 1..(i - 1) : s[k] \in S
    BY ElementOfSeq
  <2> QED BY <2>1, SubSeqProperties
<1>2. /\ back \in Seq(S) /\ Len(back) = Len(s) - i
      /\ \A k \in 1..(Len(s) - i) : back[k] = s[i + k]
  <2>1. \A k \in (i + 1)..Len(s) : s[k] \in S
    BY ElementOfSeq
  <2>2. i + 1 \in Int /\ Len(s) \in Int
    OBVIOUS
  <2>3. /\ back \in Seq(S)
        /\ Len(back) = IF i + 1 <= Len(s) THEN Len(s) - (i + 1) + 1 ELSE 0
        /\ \A k \in 1..(Len(s) - (i + 1) + 1) : back[k] = s[i + 1 + k - 1]
    BY <2>1, <2>2, SubSeqProperties
  <2> QED BY <2>3
<1>3. RemoveAt(s, i) = front \o back
  BY DEF RemoveAt
<1> HIDE DEF front, back
<1>4. /\ front \o back \in Seq(S) /\ Len(front \o back) = Len(front) + Len(back)
      /\ \A k \in 1..(Len(front) + Len(back)) :
           (front \o back)[k] = IF k <= Len(front) THEN front[k] ELSE back[k - Len(front)]
  BY <1>1, <1>2, ConcatProperties
<1>5. Len(s) \in Nat /\ Len(front) + Len(back) = Len(s) - 1
  BY <1>1, <1>2
<1>6. ASSUME NEW k \in 1..(Len(s) - 1)
      PROVE  RemoveAt(s, i)[k] = IF k < i THEN s[k] ELSE s[k + 1]
  <2>1. CASE k < i
    <3>1. k \in 1..(i - 1) /\ k <= Len(front)
      BY <2>1, <1>1, <1>5
    <3> QED BY <2>1, <3>1, <1>1, <1>3, <1>4, <1>5
  <2>2. CASE ~(k < i)
    <3>1. k - (i - 1) \in 1..(Len(s) - i) /\ i + (k - (i - 1)) = k + 1 /\ ~(k <= Len(front))
      BY <2>2, <1>1, <1>5
    <3>2. (front \o back)[k] = back[k - (i - 1)]
      BY <3>1, <1>1, <1>4, <1>5
    <3> QED BY <2>2, <3>1, <3>2, <1>2, <1>3
  <2> QED BY <2>1, <2>2
<1> QED BY <1>3, <1>4, <1>5, <1>6
-----------------------------------------------------------------------------
(* What becomes of the jobs.                                                *)

Reconciles(js) == \E j \in DOMAIN js : js[j].kind = "reconciliation"

\* The jobs there were keep their place and their contents.
Grown == \A j \in DOMAIN jobs : j \in DOMAIN jobs' /\ jobs'[j] = jobs[j]

LEMMA NewJobFacts ==
  ASSUME NEW kind \in {"formation", "reconciliation"},
         NEW action \in {"none", "cancel", "resend", "select", "resume"},
         NEW scope \in 0..MaxCommands, NEW attempt \in Nat
  PROVE  /\ NewJob(kind, action, scope, attempt) \in JobRecord
         /\ NewJob(kind, action, scope, attempt).kind = kind
         /\ NewJob(kind, action, scope, attempt).action = action
         /\ NewJob(kind, action, scope, attempt).state = "ready"
  BY DEF NewJob, JobRecord, Active

LEMMA AppendedJobs ==
  ASSUME NEW js, JobsOK(js), Len(js) < MaxJobs, NEW r \in JobRecord,
         r.kind = "reconciliation" => r.action \in {"none", "resume"}
  PROVE  /\ JobsOK(Append(js, r)) /\ Len(Append(js, r)) <= MaxJobs
         /\ Len(js) + 1 \in DOMAIN Append(js, r) /\ Append(js, r)[Len(js) + 1] = r
         /\ \A j \in DOMAIN js : j \in DOMAIN Append(js, r) /\ Append(js, r)[j] = js[j]
<1>1. js \in Seq(JobRecord)
  BY DEF JobsOK
<1>2. Len(js) \in Nat /\ DOMAIN js = 1..Len(js)
  BY JobFacts
<1>3. /\ Append(js, r) \in Seq(JobRecord) /\ Len(Append(js, r)) = Len(js) + 1
      /\ \A j \in 1..Len(js) : Append(js, r)[j] = js[j]
      /\ Append(js, r)[Len(js) + 1] = r
  BY <1>1, AppendProperties
<1>4. DOMAIN Append(js, r) = 1..(Len(js) + 1)
  BY <1>3, LenProperties
<1>5. JobsOK(Append(js, r))
  BY <1>2, <1>3, <1>4 DEF JobsOK
<1> QED BY <1>2, <1>3, <1>4, <1>5, BoundAssumption

LEMMA RemovedJob ==
  ASSUME NEW js, JobsOK(js), NEW i \in DOMAIN js
  PROVE  /\ JobsOK(RemoveAt(js, i)) /\ Len(RemoveAt(js, i)) = Len(js) - 1
         /\ \A j \in DOMAIN js : j # i =>
              \E k \in DOMAIN RemoveAt(js, i) : RemoveAt(js, i)[k] = js[j]
<1>1. js \in Seq(JobRecord) /\ Len(js) \in Nat /\ DOMAIN js = 1..Len(js)
  BY JobFacts DEF JobsOK
<1> DEFINE rest == RemoveAt(js, i)
<1>2. /\ rest \in Seq(JobRecord) /\ Len(rest) = Len(js) - 1
      /\ \A k \in 1..(Len(js) - 1) : rest[k] = IF k < i THEN js[k] ELSE js[k + 1]
  BY <1>1, RemoveAtFacts
<1>3. DOMAIN rest = 1..(Len(js) - 1)
  BY <1>2, LenProperties
<1> HIDE DEF rest
<1>4. JobsOK(rest)
  <2>1. ASSUME NEW k \in 1..(Len(js) - 1) PROVE \E j \in DOMAIN js : rest[k] = js[j]
    BY SMTT(30), <1>1, <1>2
  <2> QED BY <1>2, <1>3, <2>1 DEF JobsOK
<1>5. ASSUME NEW j \in DOMAIN js, j # i PROVE \E k \in DOMAIN rest : rest[k] = js[j]
  <2>1. CASE j < i
    <3>1. j \in 1..(Len(js) - 1)
      BY <2>1, <1>1
    <3> QED BY <2>1, <3>1, <1>2, <1>3
  <2>2. CASE ~(j < i)
    <3>1. j - 1 \in 1..(Len(js) - 1) /\ ~(j - 1 < i) /\ (j - 1) + 1 = j
      BY <2>2, <1>1, <1>5
    <3> QED BY <3>1, <1>2, <1>3
  <2> QED BY <2>1, <2>2
<1> QED BY <1>2, <1>4, <1>5 DEF rest

\* A change of a job's state or attempt.
LEMMA ChangedJob ==
  ASSUME NEW js, JobsOK(js), NEW i \in DOMAIN js, NEW r \in JobRecord,
         r.kind = js[i].kind, r.action = js[i].action
  PROVE  /\ JobsOK([js EXCEPT ![i] = r]) /\ Len([js EXCEPT ![i] = r]) = Len(js)
         /\ DOMAIN [js EXCEPT ![i] = r] = DOMAIN js
         /\ [js EXCEPT ![i] = r][i] = r
         /\ \A j \in DOMAIN js : j # i => [js EXCEPT ![i] = r][j] = js[j]
<1>1. js \in Seq(JobRecord) /\ Len(js) \in Nat /\ DOMAIN js = 1..Len(js)
  BY JobFacts DEF JobsOK
<1>2. /\ [js EXCEPT ![i] = r] \in Seq(JobRecord)
      /\ Len([js EXCEPT ![i] = r]) = Len(js)
      /\ \A j \in 1..Len(js) : [js EXCEPT ![i] = r][j] = IF j = i THEN r ELSE js[j]
  BY <1>1, ExceptSeq
<1> QED BY <1>1, <1>2 DEF JobsOK
\* FollowUp leaves a job, and a status check if one is due.
LEMMA FollowUpJobs ==
  ASSUME NEW base, JobsOK(base), Len(base) <= MaxJobs,
         NEW kind \in {"formation", "reconciliation"},
         NEW action \in {"none", "cancel", "resend", "select", "resume"},
         kind = "reconciliation" => action \in {"none", "resume"},
         NEW scope \in 0..MaxCommands, NEW attempt \in Nat,
         FollowUp(kind, action, scope, attempt, base)
  PROVE  /\ JobsTyped' /\ jobs' # <<>>
         /\ kind = "reconciliation" \/ Reconciles(base) => Reconciles(jobs')
<1> DEFINE queued == ActiveIn(base, "reconciliation")
           first == CHOOSE j \in queued : \A k \in queued : j <= k
<1>1. Len(base) \in Nat /\ DOMAIN base = 1..Len(base)
  BY JobFacts
<1>2. CASE kind = "reconciliation" /\ queued # {}
  <2>1. PICK j \in DOMAIN base : base[j].kind = "reconciliation"
    BY <1>2 DEF ActiveIn
  <2> DEFINE later == [base[first] EXCEPT !.attempt = IF attempt > @ THEN attempt ELSE @]
  <2>2. jobs' = [base EXCEPT ![first] = later]
    BY <1>2 DEF FollowUp
  <2> HIDE DEF first
  <2>3. /\ JobsOK(jobs') /\ Len(jobs') = Len(base)
        /\ j \in DOMAIN jobs' /\ jobs'[j].kind = "reconciliation"
    <3>1. CASE first \in DOMAIN base
      <4>1. base[first] \in JobRecord /\ base[first].attempt \in Nat
        BY <3>1, JobFacts
      <4>2. later \in JobRecord /\ later.kind = base[first].kind
            /\ later.action = base[first].action
        BY <4>1 DEF JobRecord
      <4> HIDE DEF later
      <4> DEFINE next == [base EXCEPT ![first] = later]
      <4>3. /\ JobsOK(next) /\ Len(next) = Len(base) /\ DOMAIN next = DOMAIN base
            /\ next[first] = later /\ \A k \in DOMAIN base : k # first => next[k] = base[k]
        BY <3>1, <4>2, ChangedJob
      <4>4. /\ JobsOK(jobs') /\ Len(jobs') = Len(base) /\ DOMAIN jobs' = DOMAIN base
            /\ jobs'[first] = later /\ \A k \in DOMAIN base : k # first => jobs'[k] = base[k]
        BY <2>2, <4>3
      <4> QED BY <2>1, <4>2, <4>4
    <3>2. CASE first \notin DOMAIN base
      <4>1. [base EXCEPT ![first] = later] = base
        BY <3>2, <1>1 DEF JobsOK
      <4> QED BY <2>1, <2>2, <4>1
    <3> QED BY <3>1, <3>2
  <2>4. JobsTyped' /\ Reconciles(jobs')
    BY <2>3 DEF JobsTyped, Reconciles
  <2>5. jobs' # <<>>
    BY <2>3
  <2> QED BY <2>4, <2>5
<1>3. CASE ~(kind = "reconciliation" /\ queued # {})
  <2> DEFINE job == NewJob(kind, action, scope, attempt)
  <2>1. job \in JobRecord /\ job.kind = kind /\ job.action = action
    BY NewJobFacts
  <2>2. Len(base) < MaxJobs /\ jobs' = Append(base, job)
    BY <1>3 DEF FollowUp
  <2> HIDE DEF job
  <2>3. /\ JobsOK(jobs') /\ Len(jobs') <= MaxJobs
        /\ Len(base) + 1 \in DOMAIN jobs' /\ jobs'[Len(base) + 1] = job
        /\ \A j \in DOMAIN base : j \in DOMAIN jobs' /\ jobs'[j] = base[j]
    BY <2>1, <2>2, AppendedJobs
  <2>4. JobsTyped'
    BY <2>3 DEF JobsTyped
  <2>5. jobs' # <<>>
    BY <2>3
  <2>6. kind = "reconciliation" \/ Reconciles(base) => Reconciles(jobs')
    BY <2>1, <2>3 DEF Reconciles
  <2> QED BY <2>4, <2>5, <2>6
<1> QED BY <1>2, <1>3

\* A request finds or leaves a status check that is still to begin.
LEMMA RequestJobs ==
  ASSUME JobsTyped, RequestReconciliation
  PROVE  /\ JobsTyped' /\ Grown
         /\ \E j \in DOMAIN jobs' : jobs'[j].kind = "reconciliation" /\ jobs'[j].state = "ready"
<1>1. CASE \E j \in DOMAIN jobs : jobs[j].kind = "reconciliation" /\ jobs[j].state = "ready"
  BY <1>1 DEF RequestReconciliation, JobsTyped, Grown
<1>2. CASE ~\E j \in DOMAIN jobs : jobs[j].kind = "reconciliation" /\ jobs[j].state = "ready"
  <2> DEFINE job == NewJob("reconciliation", "none", 0, 0)
  <2>1. /\ job \in JobRecord /\ job.kind = "reconciliation" /\ job.action = "none"
        /\ job.state = "ready"
    BY NewJobFacts, BoundAssumption
  <2>2. Len(jobs) < MaxJobs /\ jobs' = Append(jobs, job)
    BY <1>2 DEF RequestReconciliation, Room
  <2> HIDE DEF job
  <2>3. /\ JobsOK(jobs') /\ Len(jobs') <= MaxJobs
        /\ Len(jobs) + 1 \in DOMAIN jobs' /\ jobs'[Len(jobs) + 1] = job
        /\ \A j \in DOMAIN jobs : j \in DOMAIN jobs' /\ jobs'[j] = jobs[j]
    BY <2>1, <2>2, AppendedJobs DEF JobsTyped
  <2> QED BY <2>1, <2>3 DEF JobsTyped, Grown
<1> QED BY <1>1, <1>2
-----------------------------------------------------------------------------
(* Steps of others, under the run or without one.                           *)

\* More jobs do not disturb the run, nor a status check that is still to read.
LEMMA GrownJobs ==
  ASSUME IInv, Grown, run' = run, formed' = formed
  PROVE  /\ OwnerRuns'
         /\ run.pc # "idle" => RunJob' = RunJob /\ CurrentWrite' = CurrentWrite
         /\ \A j \in DOMAIN jobs : StillReads(j) => j \in DOMAIN jobs' /\ StillReads(j)'
<1>1. run.pc # "idle" => run.job \in DOMAIN jobs /\ RunJob' = RunJob
  BY DEF IInv, OwnerRuns, Grown, RunJob
<1>2. OwnerRuns'
  BY <1>1 DEF IInv, OwnerRuns, Grown
<1>3. run.pc # "idle" => CurrentWrite' = CurrentWrite
  BY <1>1 DEF CurrentWrite, HasLink
<1>4. \A j \in DOMAIN jobs : StillReads(j) => j \in DOMAIN jobs' /\ StillReads(j)'
  BY DEF Grown, StillReads
<1> QED BY <1>1, <1>2, <1>3, <1>4

LEMMA FaultBound == ASSUME RestTyped, Fault PROVE faults' \in 0..MaxFaults
  BY BoundAssumption DEF RestTyped, Fault

\* A job is appended for a command; a choice also changes the status it is made in.
LEMMA CommandSteps ==
  ASSUME IInv, (\E action \in {"cancel", "resend"} : Command(action)) \/ SelectClient
  PROVE  IInv'
<1> USE DEF IInv
<1>1. PICK action \in {"cancel", "resend", "select"}, scope \in 0..MaxCommands :
        Len(jobs) < MaxJobs /\ jobs' = Append(jobs, NewJob("formation", action, scope, 0))
  <2>1. ASSUME NEW action \in {"cancel", "resend"}, Command(action)
        PROVE  commands + 1 \in 0..MaxCommands
    BY <2>1, BoundAssumption DEF Command, Typed, RestTyped
  <2> QED BY <2>1, BoundAssumption DEF Command, SelectClient, Room
<1> DEFINE job == NewJob("formation", action, scope, 0)
<1>2. job \in JobRecord /\ job.kind = "formation"
  BY NewJobFacts
<1> HIDE DEF job
<1>3. JobsTyped' /\ Grown /\ jobs' # <<>>
  <2>1. jobs' = Append(jobs, job)
    BY <1>1 DEF job
  <2>2. /\ JobsOK(jobs') /\ Len(jobs') <= MaxJobs /\ Len(jobs) + 1 \in DOMAIN jobs'
        /\ \A j \in DOMAIN jobs : j \in DOMAIN jobs' /\ jobs'[j] = jobs[j]
    BY <1>1, <1>2, <2>1, AppendedJobs DEF Typed, JobsTyped
  <2>3. jobs' # <<>>
    BY <2>2
  <2> QED BY <2>2, <2>3 DEF JobsTyped, Grown
<1>4. /\ UNCHANGED <<formed, sent, audit, paidAudit, inbox, journal, written, doc, sends, net,
                     notice, run, late, asked, faults>>
      /\ commands' \in 0..MaxCommands
      /\ \/ status' = status
         \/ status = "client_selection_required" /\ status' = "resolving_client"
  <2>1. ASSUME NEW a, Command(a)
        PROVE  /\ UNCHANGED <<status, formed, sent, audit, paidAudit, inbox, journal, written, doc,
                              sends, net, notice, run, late, asked, faults>>
               /\ commands' \in 0..MaxCommands
    BY <2>1, BoundAssumption DEF Command, rowVars, crmVars, Typed, RestTyped
  <2>2. CASE SelectClient
    BY <2>2 DEF SelectClient, crmVars, Typed, RestTyped
  <2>3. CASE \E a \in {"cancel", "resend"} : Command(a)
    BY <2>1, <2>3
  <2> QED BY <2>2, <2>3
<1>5. Typed'
  <2>1. RowTyped'
    BY <1>4 DEF Typed, RowTyped, Statuses
  <2>2. CrmTyped' /\ RunTyped' /\ RestTyped'
    BY <1>4 DEF Typed, CrmTyped, RunTyped, RestTyped
  <2> QED BY <1>3, <2>1, <2>2 DEF Typed
<1>6. /\ OwnerRuns'
      /\ run.pc # "idle" => CurrentWrite' = CurrentWrite
      /\ \A j \in DOMAIN jobs : StillReads(j) => j \in DOMAIN jobs' /\ StillReads(j)'
  BY <1>3, <1>4, GrownJobs
<1>7. RunKnows'
  BY <1>4 DEF RunKnows, Terminal, Final
<1>8. CheckedHasDocument' /\ DocumentKnown' /\ EarlyCallbacks'
  BY <1>4 DEF CheckedHasDocument, DocumentKnown, EarlyCallbacks, HasDocument
<1>9. JournalKnows'
  BY <1>4, <1>6 DEF JournalKnows, Final
<1>10. CallbackNotLost' /\ PaidIsFollowedUp'
  BY <1>3, <1>4, <1>6 DEF CallbackNotLost, PaidIsFollowedUp
<1> QED BY <1>5, <1>6, <1>7, <1>8, <1>9, <1>10

\* A callback leaves an inbox row or a status check that is still to read.
LEMMA CallbackSteps == ASSUME IInv, Callback \/ RecoverCallback PROVE IInv'
<1> USE DEF IInv
<1>1. /\ UNCHANGED <<rowVars, journal, written, doc, sends, net, run, late, commands>>
      /\ notice' \in {"none", "due", "delivered"}
      /\ faults' \in 0..MaxFaults /\ inbox' \in BOOLEAN /\ asked' \in BOOLEAN
  BY FaultBound DEF Callback, RecoverCallback, ReceiveCallback, crmVars, Typed, CrmTyped, RestTyped
<1>2. /\ UNCHANGED <<status, formed, sent, audit, paidAudit, journal, written, doc, sends, net,
                     run, late, commands>>
      /\ HasDocument' = HasDocument
  BY <1>1 DEF rowVars, HasDocument
<1>3. /\ JobsTyped' /\ Grown
      /\ \/ inbox' \/ ~asked'
         \/ \E j \in DOMAIN jobs' : jobs'[j].kind = "reconciliation" /\ jobs'[j].state = "ready"
      /\ ~HasDocument => inbox' \/ ~asked'
  <2>1. CASE RequestReconciliation /\ HasDocument
    BY <2>1, RequestJobs DEF Typed
  <2>2. CASE ~HasDocument
    BY <2>2 DEF Callback, RecoverCallback, ReceiveCallback, Typed, JobsTyped, Grown
  <2> QED BY <2>1, <2>2 DEF Callback, RecoverCallback, ReceiveCallback
<1>4. Typed'
  BY <1>1, <1>2, <1>3 DEF Typed, RowTyped, CrmTyped, RunTyped, RestTyped
<1>5. /\ OwnerRuns'
      /\ run.pc # "idle" => CurrentWrite' = CurrentWrite
  BY <1>2, <1>3, GrownJobs
<1>6. RunKnows' /\ CheckedHasDocument' /\ DocumentKnown' /\ EarlyCallbacks'
  BY <1>2, <1>3 DEF RunKnows, CheckedHasDocument, DocumentKnown, EarlyCallbacks
<1>7. JournalKnows'
  BY <1>2, <1>5 DEF JournalKnows
<1>8. CallbackNotLost'
  <2>1. ASSUME NEW j \in DOMAIN jobs', jobs'[j].kind = "reconciliation", jobs'[j].state = "ready"
        PROVE  StillReads(j)'
    <3>1. run'.job = j => run'.pc = "idle"
      BY <2>1, <1>5 DEF OwnerRuns, RunJob
    <3> QED BY <2>1, <3>1 DEF StillReads, Active
  <2> QED BY <1>3, <2>1 DEF CallbackNotLost
<1>9. PaidIsFollowedUp'
  BY <1>2, <1>3 DEF PaidIsFollowedUp, Grown, Typed, JobsTyped, JobsOK
<1> QED BY <1>4, <1>5, <1>6, <1>7, <1>8, <1>9

LEMMA WorldSteps == ASSUME IInv, CustomerPays \/ Expires PROVE IInv'
<1> USE DEF IInv
<1>1. /\ UNCHANGED <<status, formed, sent, audit, paidAudit, jobs, inbox, journal, written, sends,
                     net, run, asked, commands, faults>>
      /\ doc' = doc \/ (doc # "none" /\ doc' = "paid")
      /\ notice' \in {"none", "due", "delivered"} /\ late' \in BOOLEAN
  <2>1. CASE CustomerPays
    BY <2>1 DEF CustomerPays, rowVars, Typed, CrmTyped, RestTyped
  <2>2. CASE Expires
    <3>1. /\ UNCHANGED <<rowVars, jobs, inbox, journal, written, run, asked, commands, faults>>
          /\ UNCHANGED crmVars /\ late' = TRUE
      BY <2>2 DEF Expires
    <3> QED BY <3>1 DEF rowVars, crmVars, Typed, CrmTyped, RestTyped
  <2> QED BY <2>1, <2>2
<1>2. Typed'
  BY <1>1 DEF Typed, RowTyped, JobsTyped, CrmTyped, RunTyped, RestTyped
<1>3. OwnerRuns' /\ RunKnows' /\ CheckedHasDocument' /\ EarlyCallbacks' /\ PaidIsFollowedUp'
  BY <1>1 DEF OwnerRuns, RunKnows, CheckedHasDocument, EarlyCallbacks, PaidIsFollowedUp, RunJob,
     HasDocument
<1>4. JournalKnows' /\ CallbackNotLost'
  BY <1>1 DEF JournalKnows, CurrentWrite, RunJob, HasLink, CallbackNotLost, StillReads
<1>5. DocumentKnown'
  BY <1>1 DEF DocumentKnown
<1> QED BY <1>2, <1>3, <1>4, <1>5
-----------------------------------------------------------------------------
(* Steps of the run.                                                        *)

\* Where a status check no longer serves a callback that comes in.
AfterRead == {"unpaid", "paid", "done"}

\* What any step of a run keeps that goes on with its job.
LEMMA OwnStep ==
  ASSUME IInv, run.pc # "idle", NEW place \in Places \ {"idle"}, At(place),
         UNCHANGED <<jobs, inbox, late, commands, notice>>,
         RowTyped', CrmTyped', faults' \in 0..MaxFaults, asked' \in BOOLEAN,
         HasDocument => HasDocument', status = "paid" => status' = "paid",
         place \in {"resolving", "forming", "waiting", "applied", "storing"}
           => RunJob.kind = "formation",
         place \in {"resolving", "forming"} => RunJob.action \notin {"cancel", "resend"},
         asked' => asked /\ (place \in AfterRead => \/ run.pc \in AfterRead
                                                  \/ RunJob.kind = "formation"
                                                  \/ ~HasDocument)
  PROVE  /\ Typed' /\ OwnerRuns' /\ EarlyCallbacks' /\ CallbackNotLost' /\ PaidIsFollowedUp'
         /\ run'.pc = place /\ run'.view = run.view /\ RunJob' = RunJob
<1> USE DEF IInv
<1>1. /\ run.job \in DOMAIN jobs /\ RunJob.state = "running"
      /\ run \in [job : Nat, pc : Places, view : Statuses]
  BY DEF OwnerRuns, Typed, RunTyped
<1>2. /\ run'.pc = place /\ run'.view = run.view /\ run'.job = run.job /\ RunTyped'
      /\ RunJob' = RunJob
  BY <1>1 DEF At, RunTyped, RunJob
<1>3. Typed'
  BY <1>2 DEF Typed, JobsTyped, RestTyped
<1>4. OwnerRuns'
  BY <1>1, <1>2 DEF OwnerRuns
<1>5. EarlyCallbacks'
  BY DEF EarlyCallbacks
<1>6. CallbackNotLost'
  <2> SUFFICES ASSUME asked', ~inbox', status' # "paid" PROVE \E j \in DOMAIN jobs' : StillReads(j)'
    BY DEF CallbackNotLost
  <2>1. asked /\ ~inbox /\ status # "paid" /\ HasDocument
    BY DEF EarlyCallbacks
  <2>2. PICK j \in DOMAIN jobs : StillReads(j)
    BY <2>1 DEF CallbackNotLost
  <2>3. StillReads(j)'
    BY <1>1, <1>2, <2>1, <2>2 DEF StillReads, RunJob, AfterRead
  <2> QED BY <2>3
<1>7. PaidIsFollowedUp'
  BY <1>1 DEF PaidIsFollowedUp
<1> QED BY <1>2, <1>3, <1>4, <1>5, <1>6, <1>7

\* A run that breaks, or gets no answer: what it announced stays unknown.
LEMMA BreakingSteps == ASSUME IInv, Breaks \/ NoAnswer PROVE IInv'
<1> USE DEF IInv
<1>1. /\ UNCHANGED <<rowVars, jobs, inbox, journal, written, crmVars, late, asked, commands>>
      /\ At("broken") /\ run.pc # "idle" /\ Fault
  BY DEF Breaks, NoAnswer
<1>2. UNCHANGED <<status, formed, sent, audit, paidAudit, jobs, inbox, journal, written, doc, sends,
                  net, notice, late, asked, commands>>
  BY <1>1 DEF rowVars, crmVars
<1>3. RowTyped' /\ CrmTyped' /\ faults' \in 0..MaxFaults /\ asked' \in BOOLEAN
  BY <1>1, <1>2, FaultBound DEF Typed, RowTyped, CrmTyped, RestTyped
<1>4. /\ Typed' /\ OwnerRuns' /\ EarlyCallbacks' /\ CallbackNotLost' /\ PaidIsFollowedUp'
      /\ run'.pc = "broken"
  BY <1>1, <1>2, <1>3, OwnStep DEF Places, AfterRead, HasDocument
<1>5. RunKnows' /\ CheckedHasDocument' /\ JournalKnows' /\ DocumentKnown'
  BY <1>2, <1>4 DEF RunKnows, CheckedHasDocument, JournalKnows, DocumentKnown, HasDocument
<1> QED BY <1>4, <1>5

\* What recovery believes of a creation is true: the document is there.
LEMMA SettleStep == ASSUME IInv, SettleUnknown PROVE IInv'
<1> USE DEF IInv
<1>1. /\ UNCHANGED <<rowVars, jobs, inbox, crmVars, late, asked, commands, faults>>
      /\ run.pc = "opened"
  BY DEF SettleUnknown
<1>2. UNCHANGED <<status, formed, sent, audit, paidAudit, jobs, inbox, doc, sends, net, notice, late,
                  asked, commands, faults>>
  BY <1>1 DEF rowVars, crmVars
<1>3. PICK place \in {"working", "unknown"} :
        /\ At(place)
        /\ \/ UNCHANGED <<journal, written>> /\ (place = "working" => journal = NoWrite)
           \/ /\ journal # NoWrite /\ Evidence(journal[1])
              /\ written' = written \cup {journal} /\ journal' = NoWrite
  BY DEF SettleUnknown
<1>4. RowTyped' /\ CrmTyped' /\ faults' \in 0..MaxFaults /\ asked' \in BOOLEAN
  BY <1>2, <1>3 DEF Typed, RowTyped, CrmTyped, RestTyped
<1>5. /\ Typed' /\ OwnerRuns' /\ EarlyCallbacks' /\ CallbackNotLost' /\ PaidIsFollowedUp'
      /\ run'.pc = place /\ run'.view = run.view
  BY <1>1, <1>2, <1>3, <1>4, OwnStep DEF Places, AfterRead, HasDocument
<1>6. RunKnows' /\ CheckedHasDocument'
  BY <1>1, <1>2, <1>5 DEF RunKnows, CheckedHasDocument, HasDocument
<1>7. JournalKnows'
  BY <1>1, <1>2, <1>3, <1>5 DEF JournalKnows
<1>8. journal \in Writes /\ Evidence(journal[1]) /\ journal[1] = "create" => doc # "none"
  BY DEF Evidence
<1>9. DocumentKnown'
  BY <1>2, <1>3, <1>5, <1>8 DEF DocumentKnown, Typed, CrmTyped
<1> QED BY <1>5, <1>6, <1>7, <1>9
\* The write of a run: a command deletes or sends, a formation creates or sends.
LEMMA CurrentWriteFacts ==
  ASSUME IInv, run.pc # "idle"
  PROVE  /\ CurrentWrite \in Writes /\ CurrentWrite # NoWrite
         /\ RunJob.action = "cancel" => CurrentWrite[1] = "delete"
         /\ RunJob.action # "cancel" => CurrentWrite[1] \in {"create", "send"}
         /\ CurrentWrite[1] = "create" => RunJob.action \notin {"cancel", "resend"}
<1>1. RunJob.scope \in 0..MaxCommands /\ 0 \in 0..MaxCommands
  BY JobFacts, BoundAssumption DEF IInv, Typed, JobsTyped, OwnerRuns, RunJob
<1>2. CASE RunJob.action = "cancel"
  BY <1>1, <1>2 DEF CurrentWrite, Writes, NoWrite
<1>3. CASE RunJob.action = "resend"
  BY <1>1, <1>3 DEF CurrentWrite, Writes, NoWrite
<1>4. CASE RunJob.action \notin {"cancel", "resend"}
  BY <1>1, <1>4 DEF CurrentWrite, Writes, NoWrite
<1> QED BY <1>2, <1>3, <1>4

\* A write is announced for a payment that is open, and a deletion for a document.
LEMMA BeginWriteStep ==
  ASSUME IInv, run.pc \in {"working", "forming"}, RunJob.kind = "formation",
         status \notin Terminal, BeginWrite(CurrentWrite),
         RunJob.action = "cancel" => doc # "none",
         UNCHANGED <<rowVars, jobs, inbox, written, doc, sends, notice, late, asked, commands,
                     faults>>
  PROVE  IInv'
<1> USE DEF IInv
<1>1. UNCHANGED <<status, formed, sent, audit, paidAudit, jobs, inbox, written, doc, sends, notice,
                  late, asked, commands, faults>>
  BY DEF rowVars
<1>2. CurrentWrite \in Writes /\ (CurrentWrite[1] = "delete" => doc # "none")
  BY CurrentWriteFacts
<1>3. PICK place \in {"storing", "waiting"} :
        /\ At(place)
        /\ place = "storing" => UNCHANGED <<journal, net>>
        /\ place = "waiting" => journal' = CurrentWrite /\ net' = net \cup {CurrentWrite}
  BY DEF BeginWrite
<1>4. RowTyped' /\ CrmTyped' /\ faults' \in 0..MaxFaults /\ asked' \in BOOLEAN
  BY <1>1, <1>2, <1>3 DEF Typed, RowTyped, CrmTyped, RestTyped
<1>5. /\ Typed' /\ OwnerRuns' /\ EarlyCallbacks' /\ CallbackNotLost' /\ PaidIsFollowedUp'
      /\ run'.pc = place /\ run'.view = run.view /\ RunJob' = RunJob
  BY <1>1, <1>3, <1>4, OwnStep DEF Places, AfterRead, HasDocument
<1>6. RunKnows' /\ CheckedHasDocument'
  BY <1>1, <1>5 DEF RunKnows, CheckedHasDocument, HasDocument
<1>7. CurrentWrite' = CurrentWrite
  BY <1>1, <1>5 DEF CurrentWrite, HasLink
<1>8. journal = NoWrite /\ \A w \in net : w \in written
  BY DEF JournalKnows, Typed, CrmTyped, Writes, NoWrite
<1>9. JournalKnows'
  BY <1>1, <1>3, <1>5, <1>7, <1>8 DEF JournalKnows, Terminal
<1>10. DocumentKnown'
  BY <1>1, <1>2, <1>3, <1>5 DEF DocumentKnown
<1> QED BY <1>5, <1>6, <1>9, <1>10

\* The answer of the CRM came, so the write took effect.
LEMMA ConfirmedStep == ASSUME IInv, Confirmed PROVE IInv'
<1> USE DEF IInv
<1>1. /\ UNCHANGED <<rowVars, jobs, inbox, crmVars, late, asked, commands, faults>>
      /\ run.pc = "applied" /\ At("storing")
      /\ written' = written \cup {journal} /\ journal' = NoWrite
  BY DEF Confirmed
<1>2. UNCHANGED <<status, formed, sent, audit, paidAudit, jobs, inbox, doc, sends, net, notice, late,
                  asked, commands, faults>>
  BY <1>1 DEF rowVars, crmVars
<1>3. journal \in Writes /\ RunJob.kind = "formation"
  BY <1>1, CurrentWriteFacts DEF JournalKnows, OwnerRuns
<1>4. RowTyped' /\ CrmTyped' /\ faults' \in 0..MaxFaults /\ asked' \in BOOLEAN
  BY <1>1, <1>2, <1>3 DEF Typed, RowTyped, CrmTyped, RestTyped
<1>5. /\ Typed' /\ OwnerRuns' /\ EarlyCallbacks' /\ CallbackNotLost' /\ PaidIsFollowedUp'
      /\ run'.pc = "storing"
  BY <1>1, <1>2, <1>3, <1>4, OwnStep DEF Places, AfterRead, HasDocument
<1>6. RunKnows' /\ CheckedHasDocument'
  BY <1>1, <1>2, <1>5 DEF RunKnows, CheckedHasDocument, HasDocument
<1>7. JournalKnows' /\ DocumentKnown'
  BY <1>1, <1>2, <1>5 DEF JournalKnows, DocumentKnown
<1> QED BY <1>5, <1>6, <1>7

LEMMA StoreStep == ASSUME IInv, Store PROVE IInv'
<1> USE DEF IInv
<1>1. /\ UNCHANGED <<audit, paidAudit, jobs, inbox, journal, written, crmVars, late, asked, commands,
                     faults>>
      /\ run.pc = "storing"
  BY DEF Store
<1>2. UNCHANGED <<audit, paidAudit, jobs, inbox, journal, written, doc, sends, net, notice, late,
                  asked, commands, faults>>
  BY <1>1 DEF crmVars
<1>3. /\ RunJob.kind = "formation" /\ status \notin Terminal /\ journal = NoWrite
      /\ CurrentWrite[1] \in {"create", "delete", "send"}
      /\ CurrentWrite[1] = "delete" => RunJob.action = "cancel"
  BY <1>1, CurrentWriteFacts DEF OwnerRuns, RunKnows, JournalKnows
<1>4. /\ formed' \in {formed, 4} /\ (HasDocument => HasDocument') /\ sent' \in BOOLEAN
      /\ status' \in {"payment_created", "canceled", "send_queued"}
      /\ status' = "canceled" => RunJob.action = "cancel"
  BY <1>3, StepsFacts DEF Store, HasDocument, DocumentStep, Typed, RowTyped
<1>5. PICK place \in {"done", "forming"} :
        At(place) /\ (place = "forming" <=> RunJob.action \notin {"cancel", "resend"})
  BY DEF Store
<1>6. RowTyped' /\ CrmTyped' /\ faults' \in 0..MaxFaults /\ asked' \in BOOLEAN
  BY <1>2, <1>4 DEF Typed, RowTyped, CrmTyped, RestTyped, Statuses, Progress, Terminal, Final
<1>7. status # "paid"
  BY <1>3 DEF Terminal, Final
<1>8. /\ Typed' /\ OwnerRuns' /\ EarlyCallbacks' /\ CallbackNotLost' /\ PaidIsFollowedUp'
      /\ run'.pc = place
  BY <1>1, <1>2, <1>3, <1>4, <1>5, <1>6, <1>7, OwnStep DEF Places, AfterRead
<1>9. RunKnows' /\ CheckedHasDocument'
  BY <1>4, <1>5, <1>8 DEF RunKnows, CheckedHasDocument, Terminal, Final
<1>10. JournalKnows' /\ DocumentKnown'
  BY <1>2, <1>3, <1>8 DEF JournalKnows, DocumentKnown
<1> QED BY <1>8, <1>9, <1>10
\* A step of the business rules between two writes.
LEMMA PlainStep ==
  ASSUME IInv, run.pc \in {"working", "resolving", "forming", "checking", "unpaid", "paid"},
         NEW place \in {"resolving", "forming", "checking", "unpaid", "paid", "done", "broken"},
         At(place),
         UNCHANGED <<jobs, inbox, journal, written, doc, sends, net, notice, late, commands>>,
         UNCHANGED faults \/ Fault,
         RowTyped', asked' \in BOOLEAN,
         HasDocument => HasDocument', status = "paid" => status' = "paid",
         place \in {"checking", "unpaid", "paid"} \/ status' = "paid" => HasDocument',
         place = "resolving" => status' = "resolving_client" /\ formed' = 0,
         place = "forming" => status' \notin Terminal \ {"paid"},
         place = "unpaid" => status' # "paid",
         place \in {"resolving", "forming"}
           => RunJob.kind = "formation" /\ RunJob.action \notin {"cancel", "resend"},
         asked' => asked /\ (place \in AfterRead => \/ run.pc \in AfterRead
                                                  \/ RunJob.kind = "formation"
                                                  \/ ~HasDocument)
  PROVE  IInv'
<1> USE DEF IInv
<1>1. CrmTyped' /\ faults' \in 0..MaxFaults
  BY FaultBound DEF Typed, CrmTyped, RestTyped
<1>2. /\ Typed' /\ OwnerRuns' /\ EarlyCallbacks' /\ CallbackNotLost' /\ PaidIsFollowedUp'
      /\ run'.pc = place
  BY <1>1, OwnStep DEF Places, AfterRead
<1>3. RunKnows' /\ CheckedHasDocument'
  BY <1>2 DEF RunKnows, CheckedHasDocument
<1>4. JournalKnows' /\ DocumentKnown'
  BY <1>2 DEF JournalKnows, DocumentKnown
<1> QED BY <1>2, <1>3, <1>4

\* A status that is not final when the run begins is not final for its command.
LEMMA ViewIsCurrent ==
  ASSUME IInv, run.pc \in {"opened", "working"}
  PROVE  run.view \in Terminal <=> status \in Terminal
  BY DEF IInv, RunKnows, Terminal, Final

\* Only a formation has a command.
LEMMA CommandIsFormation ==
  ASSUME IInv, run.pc # "idle", RunJob.action \in {"cancel", "resend"}
  PROVE  RunJob.kind = "formation"
<1>1. run.job \in DOMAIN jobs /\ JobsOK(jobs)
  BY DEF IInv, OwnerRuns, Typed, JobsTyped
<1>2. jobs[run.job].kind \in {"formation", "reconciliation"}
  BY <1>1, JobFacts
<1> QED BY <1>1, <1>2 DEF JobsOK, RunJob

LEMMA CommandStep == ASSUME IInv, ExecuteCommand PROVE IInv'
<1> USE DEF IInv
<1>1. /\ UNCHANGED <<formed, sent, audit, paidAudit, jobs, inbox, written, doc, sends, notice, late,
                     asked, commands, faults>>
      /\ run.pc = "working" /\ RunJob.kind = "formation"
      /\ RunJob.action \in {"cancel", "resend"}
  BY CommandIsFormation DEF ExecuteCommand
<1>2. run.view \in Terminal <=> status \in Terminal
  BY <1>1, ViewIsCurrent
<1>3. CASE BeginWrite(CurrentWrite) /\ UNCHANGED status /\ run.view \notin Terminal
           /\ ~(RunJob.action = "cancel" /\ doc # "unpaid")
  <2>1. UNCHANGED rowVars
    BY <1>1, <1>3 DEF rowVars
  <2> QED BY <1>1, <1>2, <1>3, <2>1, BeginWriteStep
<1>4. ASSUME NEW place \in {"done", "checking", "broken"}, At(place), UNCHANGED <<journal, net>>,
             status' = status \/ (status' = "canceled" /\ status \notin Terminal),
             place = "checking" => HasDocument
      PROVE  IInv'
  <2>1. RowTyped' /\ asked' \in BOOLEAN
    BY <1>1, <1>4 DEF Typed, RowTyped, RestTyped, Statuses, Terminal, Final
  <2>2. HasDocument' = HasDocument
    BY <1>1 DEF HasDocument
  <2>3. /\ status = "paid" => status' = "paid"
        /\ status' = "paid" => HasDocument
    BY <1>4 DEF CheckedHasDocument, Terminal, Final
  <2> QED BY <1>1, <1>4, <2>1, <2>2, <2>3, PlainStep
<1>5. \/ BeginWrite(CurrentWrite) /\ UNCHANGED status /\ run.view \notin Terminal
         /\ ~(RunJob.action = "cancel" /\ doc # "unpaid")
      \/ \E place \in {"done", "checking", "broken"} :
           /\ At(place) /\ UNCHANGED <<journal, net>>
           /\ \/ status' = status
              \/ status' = "canceled" /\ status \notin Terminal
           /\ place = "checking" => HasDocument
  <2>1. CASE run.view \in Terminal
    BY <2>1 DEF ExecuteCommand
  <2>2. CASE run.view \notin Terminal /\ RunJob.action = "cancel" /\ ~HasDocument
    BY <1>2, <2>2 DEF ExecuteCommand
  <2>3. CASE run.view \notin Terminal /\ RunJob.action = "cancel" /\ HasDocument /\ doc # "unpaid"
    BY <2>3 DEF ExecuteCommand
  <2>4. CASE run.view \notin Terminal /\ ~(RunJob.action = "cancel" /\ ~HasDocument)
             /\ ~(RunJob.action = "cancel" /\ doc # "unpaid")
    BY <2>4 DEF ExecuteCommand
  <2> QED BY <2>1, <2>2, <2>3, <2>4
<1> QED BY <1>3, <1>4, <1>5
LEMMA StartFormationStep == ASSUME IInv, StartFormation PROVE IInv'
<1> USE DEF IInv
<1>1. /\ UNCHANGED <<formed, sent, audit, paidAudit, jobs, inbox, journal, written, crmVars, late,
                     asked, commands, faults>>
      /\ run.pc = "working" /\ RunJob.kind = "formation"
      /\ RunJob.action \notin {"cancel", "resend"}
  BY DEF StartFormation
<1>2. UNCHANGED <<formed, sent, audit, paidAudit, jobs, inbox, journal, written, doc, sends, net,
                  notice, late, asked, commands, faults>>
  BY <1>1 DEF crmVars
<1>3. run.view \in Terminal <=> status \in Terminal
  BY <1>1, ViewIsCurrent
<1>4. PICK place \in {"done", "resolving", "forming"} :
        /\ At(place)
        /\ \/ status' = status
           \/ status' = "expired" /\ status \notin Terminal /\ place = "done"
           \/ status' = "resolving_client" /\ status \notin Terminal
        /\ place = "resolving" => status' = "resolving_client" /\ formed = 0
        /\ place = "forming" => status' \notin Terminal \ {"paid"}
  <2>1. CASE run.view \notin Terminal /\ ~HasDocument /\ late
    BY <1>3, <2>1 DEF StartFormation
  <2>2. CASE /\ ~(run.view \notin Terminal /\ ~HasDocument /\ late)
             /\ status \in (Terminal \ {"paid"}) \cup {"client_selection_required"}
    BY <2>2 DEF StartFormation
  <2>3. CASE /\ ~(run.view \notin Terminal /\ ~HasDocument /\ late)
             /\ status \notin (Terminal \ {"paid"}) \cup {"client_selection_required"}
    <3>1. CASE status \in {"draft", "resolving_client"} /\ formed = 0
      BY <2>3, <3>1 DEF StartFormation, Terminal, Final
    <3>2. CASE ~(status \in {"draft", "resolving_client"} /\ formed = 0)
      BY <2>3, <3>2 DEF StartFormation
    <3> QED BY <3>1, <3>2
  <2> QED BY <2>1, <2>2, <2>3
<1>5. RowTyped' /\ asked' \in BOOLEAN
  BY <1>2, <1>4 DEF Typed, RowTyped, RestTyped, Statuses, Terminal, Final
<1>6. HasDocument' = HasDocument
  BY <1>2 DEF HasDocument
<1>7. status = "paid" <=> status' = "paid"
  BY <1>4 DEF Terminal, Final
<1>8. status' = "paid" => HasDocument
  BY <1>7 DEF CheckedHasDocument
<1> QED BY <1>1, <1>2, <1>4, <1>5, <1>6, <1>7, <1>8, PlainStep

LEMMA ResolveClientStep == ASSUME IInv, ResolveClient PROVE IInv'
<1> USE DEF IInv
<1>1. /\ UNCHANGED <<sent, audit, paidAudit, jobs, inbox, journal, written, crmVars, late, asked,
                     commands>>
      /\ UNCHANGED faults \/ Fault
      /\ run.pc = "resolving" /\ RunJob.kind = "formation"
      /\ RunJob.action \notin {"cancel", "resend"} /\ status = "resolving_client" /\ formed = 0
  BY DEF ResolveClient, OwnerRuns, RunKnows
<1>2. UNCHANGED <<sent, audit, paidAudit, jobs, inbox, journal, written, doc, sends, net, notice, late,
                  asked, commands>>
  BY <1>1 DEF crmVars
<1>3. CASE At("done") /\ status' = "client_selection_required" /\ formed' = formed
  <2>1. RowTyped' /\ asked' \in BOOLEAN /\ HasDocument' = HasDocument
    BY <1>2, <1>3 DEF Typed, RowTyped, RestTyped, Statuses, HasDocument
  <2> QED BY <1>1, <1>2, <1>3, <2>1, PlainStep
<1>4. CASE At("forming") /\ status' = Steps[1] /\ formed' = 1
  <2>1. status' = "client_resolved"
    BY <1>4, StepsFacts
  <2>2. RowTyped' /\ asked' \in BOOLEAN
    BY <1>2, <1>4, <2>1 DEF Typed, RowTyped, RestTyped, Statuses, Progress
  <2>3. ~HasDocument
    BY <1>1 DEF HasDocument, DocumentStep
  <2> QED BY <1>1, <1>2, <1>4, <2>1, <2>2, <2>3, PlainStep DEF Terminal, Final
<1> QED BY <1>3, <1>4 DEF ResolveClient

\* The rest of the formation: a step stays in its place unless it announces a write.
LEMMA StaysForming == ASSUME RunTyped, run.pc = "forming", run' = run PROVE At("forming")
  BY DEF RunTyped, At

LEMMA FormStepStep == ASSUME IInv, FormStep PROVE IInv'
<1> USE DEF IInv
<1>1. /\ UNCHANGED <<sent, audit, paidAudit, jobs, inbox, written, doc, sends, notice, late, asked,
                     commands, faults>>
      /\ run.pc = "forming" /\ RunJob.kind = "formation" /\ formed < 6
      /\ RunJob.action \notin {"cancel", "resend"} /\ status \notin Terminal
  BY StepsFacts DEF FormStep, OwnerRuns, RunKnows, Terminal, Final
<1>2. CASE formed + 1 = DocumentStep /\ doc = "none"
  <2>1. BeginWrite(CurrentWrite) /\ UNCHANGED <<status, formed>>
    BY <1>2 DEF FormStep
  <2>2. UNCHANGED rowVars
    BY <1>1, <2>1 DEF rowVars
  <2> QED BY <1>1, <2>1, <2>2, BeginWriteStep
<1>3. CASE ~(formed + 1 = DocumentStep /\ doc = "none")
  <2>1. formed' = formed + 1 /\ status' = Steps[formed + 1] /\ UNCHANGED <<run, journal, net>>
    BY <1>3 DEF FormStep
  <2>2. formed \in 0..6 /\ formed + 1 \in 1..6
    BY <1>1 DEF Typed, RowTyped
  <2>3. status' \in Progress
    BY <2>1, <2>2, StepsFacts
  <2>4. RowTyped' /\ asked' \in BOOLEAN
    BY <1>1, <2>1, <2>2, <2>3 DEF Typed, RowTyped, RestTyped, Statuses
  <2>5. At("forming")
    BY <1>1, <2>1, StaysForming DEF Typed
  <2>6. HasDocument => HasDocument'
    BY <2>1, <2>2 DEF HasDocument, DocumentStep
  <2>7. status' \notin Terminal /\ status # "paid"
    BY <1>1, <2>3 DEF Terminal, Final, Progress
  <2>8. status' # "paid"
    BY <2>7 DEF Terminal, Final
  <2> QED BY <1>1, <2>1, <2>4, <2>5, <2>6, <2>7, <2>8, PlainStep
<1> QED BY <1>2, <1>3

LEMMA FinishFormingStep == ASSUME IInv, FinishForming PROVE IInv'
<1> USE DEF IInv
<1>1. /\ UNCHANGED <<formed, paidAudit, jobs, inbox, written, doc, sends, notice, late, asked,
                     commands, faults>>
      /\ run.pc = "forming" /\ RunJob.kind = "formation"
      /\ RunJob.action \notin {"cancel", "resend"} /\ status \notin Terminal \ {"paid"}
  BY DEF FinishForming, OwnerRuns, RunKnows
<1>2. CASE BeginWrite(CurrentWrite) /\ status = "link_created" /\ UNCHANGED <<status, sent, audit>>
  <2>1. UNCHANGED rowVars /\ status \notin Terminal
    BY <1>1, <1>2 DEF rowVars, Terminal, Final
  <2> QED BY <1>1, <1>2, <2>1, BeginWriteStep
<1>3. ASSUME NEW place \in {"forming", "done"}, At(place), UNCHANGED <<journal, net>>,
             sent' \in BOOLEAN, audit' \subseteq {"comment", "activity"},
             status' = status \/ (status = "link_created" /\ status' = "send_queued")
      PROVE  IInv'
  <2>1. RowTyped' /\ asked' \in BOOLEAN
    BY <1>1, <1>3 DEF Typed, RowTyped, RestTyped, Statuses
  <2>2. HasDocument' = HasDocument
    BY <1>1 DEF HasDocument
  <2>3. status' \notin Terminal \ {"paid"} /\ (status' = "paid" <=> status = "paid")
    BY <1>1, <1>3 DEF Terminal, Final
  <2>4. status' = "paid" => HasDocument
    BY <2>3 DEF CheckedHasDocument
  <2> QED BY <1>1, <1>3, <2>1, <2>2, <2>3, <2>4, PlainStep
<1>4. \/ BeginWrite(CurrentWrite) /\ status = "link_created" /\ UNCHANGED <<status, sent, audit>>
      \/ \E place \in {"forming", "done"} :
           /\ At(place) /\ UNCHANGED <<journal, net>>
           /\ sent' \in BOOLEAN /\ audit' \subseteq {"comment", "activity"}
           /\ status' = status \/ (status = "link_created" /\ status' = "send_queued")
  <2>1. sent \in BOOLEAN /\ audit \subseteq {"comment", "activity"}
    BY DEF Typed, RowTyped
  <2>2. run' = run => At("forming")
    BY <1>1, StaysForming DEF Typed
  <2>3. CASE "comment" \notin audit
    <3>1. audit' = audit \cup {"comment"} /\ UNCHANGED <<status, sent, run, journal, net>>
      BY <2>3 DEF FinishForming
    <3> QED BY <2>1, <2>2, <3>1
  <2>4. CASE "comment" \in audit /\ status = "link_created"
    <3>1. CASE sends # {}
      <4>1. status' = "send_queued" /\ sent' = TRUE /\ UNCHANGED <<run, journal, net, audit>>
        BY <2>4, <3>1 DEF FinishForming
      <4> QED BY <2>1, <2>2, <2>4, <4>1
    <3>2. CASE sends = {}
      BY <2>4, <3>2 DEF FinishForming
    <3> QED BY <3>1, <3>2
  <2>5. CASE /\ "comment" \in audit /\ status # "link_created"
             /\ status \in PollStates \cup {"paid"} /\ "activity" \notin audit
    <3>1. audit' = audit \cup {"activity"} /\ UNCHANGED <<status, sent, run, journal, net>>
      BY <2>5 DEF FinishForming
    <3> QED BY <2>1, <2>2, <3>1
  <2>6. CASE /\ "comment" \in audit /\ status # "link_created"
             /\ ~(status \in PollStates \cup {"paid"} /\ "activity" \notin audit)
    <3>1. At("done") /\ UNCHANGED <<status, sent, audit, journal, net>>
      BY <2>6 DEF FinishForming
    <3> QED BY <2>1, <3>1
  <2> QED BY <2>3, <2>4, <2>5, <2>6
<1> QED BY <1>2, <1>3, <1>4

\* A status check reads, and stores what it read later.
LEMMA CheckSteps ==
  ASSUME IInv, StartReconciliation \/ ReadStatus \/ StoreUnpaid \/ StorePaid
  PROVE  IInv'
<1> USE DEF IInv
<1>1. CASE StartReconciliation
  <2>1. /\ UNCHANGED <<status, formed, sent, audit, paidAudit, jobs, inbox, journal, written, doc,
                       sends, net, notice, late, asked, commands, faults>>
        /\ run.pc = "working"
    BY <1>1 DEF StartReconciliation, rowVars, crmVars
  <2>2. RowTyped' /\ asked' \in BOOLEAN /\ HasDocument' = HasDocument
    BY <2>1 DEF Typed, RowTyped, RestTyped, HasDocument
  <2>3. PICK place \in {"checking", "done"} :
          At(place) /\ (place = "checking" <=> HasDocument)
    BY <1>1 DEF StartReconciliation
  <2>4. status' = "paid" => HasDocument'
    BY <2>1, <2>2 DEF CheckedHasDocument
  <2>5. /\ place \in {"checking", "unpaid", "paid"} \/ status' = "paid" => HasDocument'
        /\ place \in AfterRead => ~HasDocument
    BY <2>2, <2>3, <2>4 DEF AfterRead
  <2> QED BY <2>1, <2>2, <2>3, <2>5, PlainStep
<1>2. CASE ReadStatus
  <2>1. /\ UNCHANGED <<status, formed, sent, audit, paidAudit, jobs, inbox, journal, written, doc,
                       sends, net, notice, late, commands, faults>>
        /\ run.pc = "checking" /\ ~asked'
    BY <1>2 DEF ReadStatus, rowVars, crmVars
  <2>2. RowTyped' /\ HasDocument' = HasDocument /\ asked' \in BOOLEAN
    <3>1. RowTyped' /\ HasDocument' = HasDocument
      BY <2>1 DEF Typed, RowTyped, HasDocument
    <3>2. asked' \in BOOLEAN
      BY <1>2 DEF ReadStatus
    <3> QED BY <3>1, <3>2
  <2>3. PICK place \in {"paid", "broken", "unpaid"} :
          At(place) /\ (place = "unpaid" => status # "paid")
    BY <1>2 DEF ReadStatus
  <2>4. HasDocument
    BY <2>1 DEF CheckedHasDocument
  <2> QED BY <2>1, <2>2, <2>3, <2>4, PlainStep
<1>3. CASE StoreUnpaid
  <2>1. /\ UNCHANGED <<formed, sent, audit, paidAudit, jobs, inbox, journal, written, doc, sends,
                       net, notice, late, asked, commands, faults>>
        /\ run.pc = "unpaid" /\ At("done") /\ status' \in {status, "expired"}
    BY <1>3 DEF StoreUnpaid, crmVars
  <2>2. RowTyped' /\ asked' \in BOOLEAN /\ HasDocument' = HasDocument
    BY <2>1 DEF Typed, RowTyped, RestTyped, HasDocument, Statuses, Terminal, Final
  <2>3. status # "paid" /\ status' # "paid"
    BY <2>1 DEF RunKnows
  <2> QED BY <2>1, <2>2, <2>3, PlainStep DEF AfterRead
<1>4. CASE StorePaid
  <2>1. /\ UNCHANGED <<formed, sent, audit, jobs, inbox, journal, written, doc, sends, net, notice,
                       late, asked, commands, faults>>
        /\ run.pc = "paid"
    BY <1>4 DEF StorePaid, crmVars
  <2>2. PICK place \in {"paid", "done"} : At(place) /\ status' = "paid" /\ paidAudit' \in BOOLEAN
    BY <1>4, <2>1 DEF StorePaid, At, Typed, RunTyped, RowTyped
  <2>3. RowTyped' /\ asked' \in BOOLEAN /\ HasDocument' = HasDocument
    BY <2>1, <2>2 DEF Typed, RowTyped, RestTyped, HasDocument, Statuses, Terminal, Final
  <2>4. HasDocument
    BY <2>1 DEF CheckedHasDocument
  <2> QED BY <2>1, <2>2, <2>3, <2>4, PlainStep DEF AfterRead
<1> QED BY <1>1, <1>2, <1>3, <1>4
-----------------------------------------------------------------------------
(* Requests on their way, and the end of a run.                             *)

\* A request is executed, refused or lost: only its own run hears of it.
LEMMA RequestSteps ==
  ASSUME IInv, NEW write \in net, CrmApplies(write) \/ CrmRejects(write) \/ RequestLost(write)
  PROVE  IInv'
<1> USE DEF IInv
<1>1. /\ UNCHANGED <<status, formed, sent, audit, paidAudit, jobs, inbox, written, notice, late,
                     asked, commands>>
      /\ net' = net \ {write} /\ faults' \in 0..MaxFaults
  BY FaultBound DEF CrmApplies, CrmRejects, RequestLost, rowVars, Typed, RestTyped
<1>2. write \in Writes /\ write[1] \in {"create", "delete", "send"} /\ write[2] \in 0..MaxCommands
  BY DEF Typed, CrmTyped, Writes
<1>3. /\ doc' \in {"none", "unpaid", "paid", "deleted"} /\ sends' \subseteq 0..MaxCommands
      /\ doc # "none" => doc' # "none"
      /\ CrmApplies(write) /\ write[1] = "create" => doc' # "none"
  <2>1. doc \in {"none", "unpaid", "paid", "deleted"} /\ sends \subseteq 0..MaxCommands
    BY DEF Typed, CrmTyped
  <2>2. CASE CrmApplies(write)
    BY <1>2, <2>1, <2>2 DEF CrmApplies
  <2>3. CASE ~CrmApplies(write)
    BY <2>1, <2>3 DEF CrmRejects, RequestLost
  <2> QED BY <2>2, <2>3
<1>4. journal' = journal \/ (CrmRejects(write) /\ journal' = NoWrite)
  BY DEF CrmApplies, CrmRejects, RequestLost
<1>5. CrmTyped' /\ RowTyped' /\ asked' \in BOOLEAN
  BY <1>1, <1>3, <1>4 DEF Typed, CrmTyped, RowTyped, RestTyped
<1>6. CASE run' = run /\ ~CrmRejects(write)
  <2>1. Typed'
    BY <1>1, <1>5, <1>6 DEF Typed, JobsTyped, RunTyped, RestTyped
  <2>2. /\ OwnerRuns' /\ RunKnows' /\ CheckedHasDocument' /\ EarlyCallbacks'
        /\ CallbackNotLost' /\ PaidIsFollowedUp'
    BY <1>1, <1>6 DEF OwnerRuns, RunKnows, CheckedHasDocument, EarlyCallbacks, CallbackNotLost,
       PaidIsFollowedUp, RunJob, HasDocument, StillReads
  <2>3. CurrentWrite' = CurrentWrite
    BY <1>1, <1>6 DEF CurrentWrite, RunJob, HasLink
  <2>4. JournalKnows'
    BY <1>1, <1>4, <1>6, <2>3 DEF JournalKnows
  <2>5. DocumentKnown'
    BY <1>1, <1>3, <1>4, <1>6 DEF DocumentKnown
  <2> QED BY <2>1, <2>2, <2>4, <2>5
<1>7. CASE Awaited(write) /\ At("applied") /\ CrmApplies(write)
  <2>1. run.pc = "waiting" /\ write = CurrentWrite /\ write = journal /\ RunJob.kind = "formation"
    BY <1>7 DEF Awaited, JournalKnows, OwnerRuns
  <2>2. /\ Typed' /\ OwnerRuns' /\ EarlyCallbacks' /\ CallbackNotLost' /\ PaidIsFollowedUp'
        /\ run'.pc = "applied" /\ RunJob' = RunJob
    BY <1>1, <1>5, <1>7, <2>1, OwnStep DEF Places, AfterRead, HasDocument
  <2>3. RunKnows' /\ CheckedHasDocument'
    BY <1>1, <2>1, <2>2 DEF RunKnows, CheckedHasDocument, HasDocument
  <2>4. journal' = journal
    BY <1>7 DEF CrmApplies
  <2>5. CurrentWrite' = CurrentWrite
    BY <1>1, <2>2 DEF CurrentWrite, HasLink
  <2>6. JournalKnows'
    BY <1>1, <2>1, <2>2, <2>4, <2>5 DEF JournalKnows
  <2>7. DocumentKnown'
    BY <1>1, <1>3, <1>7, <2>1, <2>2, <2>4 DEF DocumentKnown
  <2> QED BY <2>2, <2>3, <2>6, <2>7
<1>8. CASE Awaited(write) /\ At("broken")
  <2>1. run.pc = "waiting" /\ write = journal
    BY <1>8 DEF Awaited, JournalKnows
  <2>2. /\ Typed' /\ OwnerRuns' /\ EarlyCallbacks' /\ CallbackNotLost' /\ PaidIsFollowedUp'
        /\ run'.pc = "broken"
    BY <1>1, <1>5, <1>8, <2>1, OwnStep DEF Places, AfterRead, HasDocument
  <2>3. RunKnows' /\ CheckedHasDocument'
    BY <1>1, <2>2 DEF RunKnows, CheckedHasDocument, HasDocument
  <2>4. JournalKnows'
    BY <1>1, <1>4, <2>1, <2>2 DEF JournalKnows
  <2>5. DocumentKnown'
    BY <1>1, <1>3, <2>2 DEF DocumentKnown
  <2> QED BY <2>2, <2>3, <2>4, <2>5
<1> QED BY <1>6, <1>7, <1>8 DEF CrmApplies, CrmRejects, RequestLost

\* Without a run, only the jobs and the record of the payment tell the state.
LEMMA Released ==
  ASSUME IInv, run' = NoRun, Typed',
         UNCHANGED <<formed, paidAudit, inbox, journal, written, doc, sends, net, asked>>,
         status' = status \/ status' \notin Final,
         status = "paid" => status' = "paid",
         asked /\ ~inbox /\ status # "paid"
           => \E j \in DOMAIN jobs' : jobs'[j].kind = "reconciliation",
         status = "paid" /\ ~paidAudit => jobs' # <<>>
  PROVE  IInv'
<1> USE DEF IInv
<1>1. run'.pc = "idle" /\ run'.job = 0
  BY DEF NoRun
<1>2. OwnerRuns' /\ RunKnows'
  BY <1>1 DEF OwnerRuns, RunKnows
<1>3. CheckedHasDocument' /\ EarlyCallbacks'
  BY <1>1 DEF CheckedHasDocument, EarlyCallbacks, HasDocument, Final
<1>4. JournalKnows' /\ DocumentKnown'
  BY <1>1 DEF JournalKnows, DocumentKnown
<1>5. PaidIsFollowedUp'
  BY DEF PaidIsFollowedUp, Final
<1>6. CallbackNotLost'
  <2>1. ASSUME NEW j \in DOMAIN jobs', jobs'[j].kind = "reconciliation" PROVE StillReads(j)'
    <3>1. jobs'[j].state \in Active \cup Stopped
      BY JobFacts DEF Typed, JobsTyped
    <3> QED BY <2>1, <3>1, <1>1 DEF StillReads
  <2> QED BY <2>1 DEF CallbackNotLost
<1> QED BY <1>2, <1>3, <1>4, <1>5, <1>6

LEMMA CrashStep == ASSUME IInv, Crash PROVE IInv'
<1> USE DEF IInv
<1>1. /\ UNCHANGED <<status, formed, sent, audit, paidAudit, jobs, inbox, journal, written, doc,
                     sends, net, notice, late, asked, commands>>
      /\ run' = NoRun /\ faults' \in 0..MaxFaults
  BY FaultBound DEF Crash, rowVars, crmVars, Typed
<1>2. Typed'
  BY <1>1 DEF Typed, RowTyped, JobsTyped, CrmTyped, RunTyped, RestTyped, NoRun, Places, Statuses
<1>3. asked /\ ~inbox /\ status # "paid" => \E j \in DOMAIN jobs : jobs[j].kind = "reconciliation"
  BY DEF CallbackNotLost, StillReads
<1>4. status = "paid" /\ ~paidAudit => jobs # <<>>
  BY DEF PaidIsFollowedUp
<1> QED BY <1>1, <1>2, <1>3, <1>4, Released

\* A job changes its state, and nothing else.
LEMMA RestatedJobs ==
  ASSUME JobsTyped, NEW i \in DOMAIN jobs, NEW state \in Active \cup Stopped,
         jobs' = [jobs EXCEPT ![i].state = state]
  PROVE  /\ JobsTyped' /\ jobs' # <<>> /\ DOMAIN jobs' = DOMAIN jobs
         /\ jobs'[i].state = state /\ jobs'[i].kind = jobs[i].kind
         /\ \A j \in DOMAIN jobs : j # i => jobs'[j] = jobs[j]
<1> DEFINE r == [jobs[i] EXCEPT !.state = state]
<1>1. jobs[i] \in JobRecord
  BY JobFacts DEF JobsTyped
<1>2. /\ r \in JobRecord /\ r.state = state
      /\ r.kind = jobs[i].kind /\ r.action = jobs[i].action
  BY <1>1 DEF JobRecord
<1>3. jobs' = [jobs EXCEPT ![i] = r]
  OBVIOUS
<1> HIDE DEF r
<1> DEFINE next == [jobs EXCEPT ![i] = r]
<1>4. /\ JobsOK(next) /\ Len(next) = Len(jobs) /\ DOMAIN next = DOMAIN jobs
      /\ next[i] = r /\ \A j \in DOMAIN jobs : j # i => next[j] = jobs[j]
  <2>1. JobsOK(jobs)
    BY DEF JobsTyped
  <2>2. /\ JobsOK([jobs EXCEPT ![i] = r]) /\ Len([jobs EXCEPT ![i] = r]) = Len(jobs)
        /\ DOMAIN [jobs EXCEPT ![i] = r] = DOMAIN jobs
        /\ [jobs EXCEPT ![i] = r][i] = r
        /\ \A j \in DOMAIN jobs : j # i => [jobs EXCEPT ![i] = r][j] = jobs[j]
    BY <1>2, <2>1, ChangedJob
  <2> QED BY <2>2
<1>5. /\ JobsOK(jobs') /\ Len(jobs') = Len(jobs) /\ DOMAIN jobs' = DOMAIN jobs
      /\ jobs'[i] = r /\ \A j \in DOMAIN jobs : j # i => jobs'[j] = jobs[j]
  BY <1>3, <1>4
<1>6. jobs' # <<>>
  BY <1>5
<1> QED BY <1>2, <1>5, <1>6 DEF JobsTyped

LEMMA ClaimStep == ASSUME IInv, NEW j \in DOMAIN jobs, Claim(j) PROVE IInv'
<1> USE DEF IInv
<1>1. /\ UNCHANGED <<status, formed, sent, audit, paidAudit, inbox, journal, written, doc, sends, net,
                     notice, late, asked, commands, faults>>
      /\ run = NoRun /\ jobs[j].state \in Active
      /\ jobs' = [jobs EXCEPT ![j].state = "running"]
      /\ run' = [job |-> j, pc |-> "opened", view |-> status]
  BY DEF Claim, rowVars, crmVars
<1>2. /\ JobsTyped' /\ jobs' # <<>> /\ DOMAIN jobs' = DOMAIN jobs
      /\ jobs'[j].state = "running" /\ jobs'[j].kind = jobs[j].kind
      /\ \A k \in DOMAIN jobs : k # j => jobs'[k] = jobs[k]
  <2>1. "running" \in Active \cup Stopped
    BY DEF Active
  <2> QED BY <1>1, <2>1, RestatedJobs DEF Typed
<1>3. run'.job = j /\ run'.pc = "opened" /\ run'.view = status
  BY <1>1
<1>4. RunTyped'
  <2>1. j \in Nat
    BY JobFacts DEF Typed, JobsTyped
  <2> QED BY <1>1, <2>1 DEF RunTyped, Typed, RowTyped, Places
<1>5. Typed'
  BY <1>1, <1>2, <1>4 DEF Typed, RowTyped, CrmTyped, RestTyped
<1>6. OwnerRuns' /\ RunKnows'
  BY <1>1, <1>2, <1>3 DEF OwnerRuns, RunKnows, RunJob
<1>7. CheckedHasDocument' /\ EarlyCallbacks' /\ DocumentKnown' /\ JournalKnows'
  BY <1>1, <1>3 DEF CheckedHasDocument, EarlyCallbacks, DocumentKnown, JournalKnows, HasDocument
<1>8. PaidIsFollowedUp'
  BY <1>2 DEF PaidIsFollowedUp
<1>9. CallbackNotLost'
  <2>1. ASSUME NEW k \in DOMAIN jobs, StillReads(k) PROVE StillReads(k)'
    <3>1. CASE k = j
      BY <1>1, <1>2, <1>3, <2>1, <3>1 DEF StillReads, Active
    <3>2. CASE k # j
      BY <1>1, <1>2, <1>3, <2>1, <3>2 DEF StillReads
    <3> QED BY <3>1, <3>2
  <2> QED BY <1>1, <1>2, <2>1 DEF CallbackNotLost
<1> QED BY <1>5, <1>6, <1>7, <1>8, <1>9

\* The status a failed payment continues with is not a final one.
LEMMA ResumableFacts ==
  ASSUME RowTyped PROVE ResumableStatus \in Statuses /\ ResumableStatus \notin Final
<1>1. CASE formed = 0
  BY <1>1, StepsFacts DEF ResumableStatus, Statuses, Final
<1>2. CASE formed \in 1..5
  <2>1. ResumableStatus = Steps[formed] /\ Steps[formed] \in Progress
    BY <1>2, StepsFacts DEF ResumableStatus
  <2> QED BY <2>1 DEF Statuses, Final, Progress
<1>3. CASE formed = 6
  <2>1. ResumableStatus = IF sent THEN "send_queued" ELSE "link_created"
    BY <1>3, StepsFacts DEF ResumableStatus
  <2> QED BY <2>1 DEF Statuses, Final, Progress
<1>4. formed = 0 \/ formed \in 1..5 \/ formed = 6
  BY DEF RowTyped
<1> QED BY <1>1, <1>2, <1>3, <1>4

LEMMA AdminRetryStep == ASSUME IInv, NEW j \in DOMAIN jobs, AdminRetry(j) PROVE IInv'
<1> USE DEF IInv
<1>1. /\ UNCHANGED <<formed, sent, audit, paidAudit, inbox, journal, written, doc, sends, net, notice,
                     run, late, asked, commands>>
      /\ run = NoRun /\ faults' \in 0..MaxFaults
      /\ status' = IF status = "failed" THEN ResumableStatus ELSE status
  BY FaultBound DEF AdminRetry, crmVars, Typed
<1> DEFINE base == RemoveAt(jobs, j)
           action == IF jobs[j].action = "none" THEN "resume" ELSE jobs[j].action
           job == NewJob(jobs[j].kind, action, jobs[j].scope, 0)
<1>2. jobs' = Append(base, job)
  BY DEF AdminRetry
<1>3. job \in JobRecord /\ job.kind = jobs[j].kind /\ job.action = action
  <2>1. /\ jobs[j].kind \in {"formation", "reconciliation"}
        /\ jobs[j].action \in {"none", "cancel", "resend", "select", "resume"}
        /\ jobs[j].scope \in 0..MaxCommands
    BY JobFacts DEF Typed, JobsTyped
  <2>2. action \in {"none", "cancel", "resend", "select", "resume"} /\ 0 \in Nat
    BY <2>1
  <2> HIDE DEF action
  <2> QED BY <2>1, <2>2, NewJobFacts
<1>4. job.kind = "reconciliation" => job.action \in {"none", "resume"}
  BY <1>3 DEF Typed, JobsTyped, JobsOK
<1>5. /\ JobsOK(base) /\ Len(base) = Len(jobs) - 1
      /\ \A k \in DOMAIN jobs : k # j => \E m \in DOMAIN base : base[m] = jobs[k]
  BY RemovedJob DEF Typed, JobsTyped
<1>6. Len(base) < MaxJobs
  BY <1>5, JobFacts, BoundAssumption DEF Typed, JobsTyped
<1> HIDE DEF base, job, action
<1>7. /\ JobsOK(jobs') /\ Len(jobs') <= MaxJobs
      /\ Len(base) + 1 \in DOMAIN jobs' /\ jobs'[Len(base) + 1] = job
      /\ \A k \in DOMAIN base : k \in DOMAIN jobs' /\ jobs'[k] = base[k]
  BY <1>2, <1>3, <1>4, <1>5, <1>6, AppendedJobs
<1>8. jobs' # <<>>
  BY <1>7
<1>9. asked /\ ~inbox /\ status # "paid" => \E k \in DOMAIN jobs' : jobs'[k].kind = "reconciliation"
  <2> SUFFICES ASSUME asked, ~inbox, status # "paid"
               PROVE  \E k \in DOMAIN jobs' : jobs'[k].kind = "reconciliation"
    OBVIOUS
  <2>1. PICK k \in DOMAIN jobs : jobs[k].kind = "reconciliation"
    BY DEF CallbackNotLost, StillReads
  <2> QED BY <1>3, <1>5, <1>7, <2>1
<1>10. /\ status' \in Statuses /\ (status' = status \/ status' \notin Final)
       /\ status = "paid" => status' = "paid"
  BY <1>1, ResumableFacts DEF Typed, RowTyped
<1>11. Typed'
  BY <1>1, <1>7, <1>10 DEF Typed, RowTyped, JobsTyped, CrmTyped, RunTyped, RestTyped
<1> QED BY <1>1, <1>8, <1>9, <1>10, <1>11, Released

\* finish puts a payment that is open back into the queue.
LEMMA FinishDoneStep == ASSUME IInv, FinishDone PROVE IInv'
<1> USE DEF IInv
<1>1. /\ UNCHANGED <<status, formed, sent, audit, paidAudit, inbox, journal, written, doc, sends, net,
                     notice, late, asked, commands, faults>>
      /\ run' = NoRun /\ run.pc = "done"
  BY DEF FinishDone, rowVars, crmVars
<1> DEFINE base == RemoveAt(jobs, run.job)
<1>2. run.job \in DOMAIN jobs /\ RunJob.state = "running"
  BY <1>1 DEF OwnerRuns
<1>3. /\ JobsOK(base) /\ Len(base) <= MaxJobs
      /\ \A k \in DOMAIN jobs : k # run.job => \E m \in DOMAIN base : base[m] = jobs[k]
  BY <1>2, RemovedJob, JobFacts, BoundAssumption DEF Typed, JobsTyped
<1>4. /\ JobsTyped'
      /\ asked /\ ~inbox /\ status # "paid" => \E k \in DOMAIN jobs' : jobs'[k].kind = "reconciliation"
      /\ status = "paid" /\ ~paidAudit => jobs' # <<>>
  <2>1. CASE HasDocument /\ (status \notin Terminal \/ (status = "paid" /\ ~paidAudit))
    <3>1. FollowUp("reconciliation", "none", 0, 0, base)
      BY <2>1 DEF FinishDone
    <3> HIDE DEF base
    <3>2. 0 \in 0..MaxCommands /\ 0 \in Nat
      BY BoundAssumption
    <3> QED BY <1>3, <3>1, <3>2, FollowUpJobs DEF Reconciles
  <2>2. CASE ~(HasDocument /\ (status \notin Terminal \/ (status = "paid" /\ ~paidAudit)))
    <3>1. jobs' = base
      BY <2>2 DEF FinishDone
    <3> HIDE DEF base
    <3>2. ~(status = "paid" /\ ~paidAudit)
      BY <2>2 DEF CheckedHasDocument
    <3>3. ASSUME asked, ~inbox, status # "paid"
          PROVE  \E k \in DOMAIN jobs' : jobs'[k].kind = "reconciliation"
      <4>1. PICK k \in DOMAIN jobs : StillReads(k)
        BY <3>3 DEF CallbackNotLost
      <4>2. k # run.job /\ jobs[k].kind = "reconciliation"
        BY <1>1, <1>2, <4>1 DEF StillReads, RunJob, Stopped
      <4> QED BY <1>3, <3>1, <4>2
    <3> QED BY <1>3, <3>1, <3>2, <3>3 DEF JobsTyped
  <2> QED BY <2>1, <2>2
<1>5. Typed'
  BY <1>1, <1>4 DEF Typed, RowTyped, CrmTyped, RunTyped, RestTyped, NoRun, Places, Statuses
<1> QED BY <1>1, <1>4, <1>5, Released

\* A failed job is repeated or stopped, and a callback it was to read for waits on.
LEMMA FinishFailedStep == ASSUME IInv, FinishFailed PROVE IInv'
<1> USE DEF IInv
<1>1. /\ UNCHANGED <<formed, sent, audit, paidAudit, inbox, journal, written, doc, sends, net, notice,
                     late, asked, commands, faults>>
      /\ run' = NoRun /\ run.pc \in {"unknown", "broken"}
  BY DEF FinishFailed, crmVars
<1>2. run.job \in DOMAIN jobs
  BY <1>1 DEF OwnerRuns
<1>3. asked /\ ~inbox /\ status # "paid" => \E k \in DOMAIN jobs : jobs[k].kind = "reconciliation"
  BY DEF CallbackNotLost, StillReads
<1> DEFINE base == RemoveAt(jobs, run.job)
<1>4. CASE \E limit : RunJob.attempt + 1 <= limit
           /\ FollowUp(RunJob.kind, RunJob.action, RunJob.scope, RunJob.attempt + 1, base)
           /\ UNCHANGED status
  <2>1. /\ JobsOK(base) /\ Len(base) <= MaxJobs
        /\ \A k \in DOMAIN jobs : k # run.job => \E m \in DOMAIN base : base[m] = jobs[k]
    BY <1>2, RemovedJob, JobFacts, BoundAssumption DEF Typed, JobsTyped
  <2>2. /\ RunJob.kind \in {"formation", "reconciliation"}
        /\ RunJob.action \in {"none", "cancel", "resend", "select", "resume"}
        /\ RunJob.kind = "reconciliation" => RunJob.action \in {"none", "resume"}
        /\ RunJob.scope \in 0..MaxCommands /\ RunJob.attempt + 1 \in Nat
    BY <1>2, JobFacts DEF Typed, JobsTyped, JobsOK, RunJob
  <2> HIDE DEF base
  <2>3. /\ JobsTyped' /\ jobs' # <<>>
        /\ RunJob.kind = "reconciliation" \/ Reconciles(base) => Reconciles(jobs')
    BY <1>4, <2>1, <2>2, FollowUpJobs
  <2>4. asked /\ ~inbox /\ status # "paid" => \E k \in DOMAIN jobs' : jobs'[k].kind = "reconciliation"
    BY <1>3, <2>1, <2>3 DEF Reconciles, RunJob
  <2>5. Typed'
    BY <1>1, <1>4, <2>3 DEF Typed, RowTyped, CrmTyped, RunTyped, RestTyped, NoRun, Places, Statuses
  <2> QED BY <1>1, <1>4, <2>3, <2>4, <2>5, Released
<1>5. CASE \E stopped \in Stopped :
           /\ jobs' = [jobs EXCEPT ![run.job].state = stopped]
           /\ status' = IF status \in Final THEN status ELSE "failed"
  <2>1. /\ JobsTyped' /\ jobs' # <<>> /\ DOMAIN jobs' = DOMAIN jobs
        /\ \A k \in DOMAIN jobs : jobs'[k].kind = jobs[k].kind
    BY <1>2, <1>5, RestatedJobs DEF Typed
  <2>2. /\ status' \in Statuses /\ (status' = status \/ status' \notin Final)
        /\ status = "paid" => status' = "paid"
    BY <1>5 DEF Typed, RowTyped, Statuses, Terminal, Final
  <2>3. Typed'
    BY <1>1, <2>1, <2>2 DEF Typed, RowTyped, CrmTyped, RunTyped, RestTyped, NoRun, Places, Statuses
  <2> QED BY <1>1, <1>3, <2>1, <2>2, <2>3, Released
<1> HIDE DEF base
<1> QED BY <1>4, <1>5 DEF FinishFailed, Stopped, base
-----------------------------------------------------------------------------
(* The invariant, and what follows from it.                                 *)

LEMMA InitIInv == Init => IInv
<1> SUFFICES ASSUME Init PROVE IInv
  OBVIOUS
<1> DEFINE job == NewJob("formation", "none", 0, 0)
<1>1. 0 \in 0..MaxCommands /\ 0 \in 0..MaxFaults /\ 0 \in Nat
  BY BoundAssumption
<1>2. job \in JobRecord /\ job.kind = "formation"
  BY <1>1, NewJobFacts
<1>3. jobs = <<job>>
  BY DEF Init
<1> HIDE DEF job
<1>4. jobs \in Seq(JobRecord) /\ Len(jobs) = 1 /\ \A j \in DOMAIN jobs : jobs[j] = job
  BY <1>2, <1>3
<1>5. JobsTyped
  BY <1>2, <1>4, BoundAssumption DEF JobsTyped, JobsOK
<1>6. run = NoRun /\ run.pc = "idle"
  BY DEF Init, NoRun
<1>7. Typed
  <2>1. RowTyped
    <3>1. status = "draft" /\ formed = 0 /\ sent = FALSE /\ audit = {} /\ paidAudit = FALSE
      BY DEF Init
    <3>2. sent \in BOOLEAN /\ paidAudit \in BOOLEAN
      BY <3>1
    <3>3. formed \in 0..6
      BY <3>1
    <3>4. status \in Statuses
      BY <3>1 DEF Statuses
    <3>5. audit \subseteq {"comment", "activity"}
      BY <3>1
    <3> QED BY <3>2, <3>3, <3>4, <3>5 DEF RowTyped
  <2>2. CrmTyped
    BY DEF Init, CrmTyped
  <2>3. RunTyped
    BY <1>6 DEF RunTyped, NoRun, Places, Statuses
  <2>4. RestTyped
    BY <1>1 DEF Init, RestTyped
  <2> QED BY <1>5, <2>1, <2>2, <2>3, <2>4 DEF Typed
<1>8. OwnerRuns /\ RunKnows /\ CheckedHasDocument /\ JournalKnows /\ DocumentKnown
  BY <1>6 DEF Init, OwnerRuns, RunKnows, CheckedHasDocument, JournalKnows, DocumentKnown
<1>9. EarlyCallbacks /\ CallbackNotLost /\ PaidIsFollowedUp
  BY DEF Init, EarlyCallbacks, CallbackNotLost, PaidIsFollowedUp
<1> QED BY <1>7, <1>8, <1>9 DEF IInv

LEMMA StutterStep == ASSUME IInv, UNCHANGED vars PROVE IInv'
<1> USE DEF IInv
<1>1. UNCHANGED <<status, formed, sent, audit, paidAudit, jobs, inbox, journal, written, doc, sends,
                  net, notice, run, late, asked, commands, faults>>
  BY DEF vars, rowVars, crmVars
<1>2. Typed'
  BY <1>1 DEF Typed, RowTyped, JobsTyped, CrmTyped, RunTyped, RestTyped
<1>3. OwnerRuns' /\ RunKnows' /\ CheckedHasDocument' /\ DocumentKnown' /\ EarlyCallbacks'
  BY <1>1 DEF OwnerRuns, RunKnows, CheckedHasDocument, DocumentKnown, EarlyCallbacks, RunJob,
     HasDocument
<1>4. JournalKnows' /\ CallbackNotLost' /\ PaidIsFollowedUp'
  BY <1>1 DEF JournalKnows, CurrentWrite, RunJob, HasLink, CallbackNotLost, StillReads,
     PaidIsFollowedUp
<1> QED BY <1>2, <1>3, <1>4

LEMMA WorkStep == ASSUME IInv, Work PROVE IInv'
<1>1. CASE SettleUnknown \/ Confirmed \/ Store
  BY <1>1, SettleStep, ConfirmedStep, StoreStep
<1>2. CASE ExecuteCommand \/ StartFormation \/ ResolveClient
  BY <1>2, CommandStep, StartFormationStep, ResolveClientStep
<1>3. CASE FormStep \/ FinishForming
  BY <1>3, FormStepStep, FinishFormingStep
<1>4. CASE StartReconciliation \/ ReadStatus \/ StoreUnpaid \/ StorePaid
  BY <1>4, CheckSteps
<1>5. CASE FinishDone \/ FinishFailed
  BY <1>5, FinishDoneStep, FinishFailedStep
<1> QED BY <1>1, <1>2, <1>3, <1>4, <1>5 DEF Work

LEMMA StepIInv == IInv /\ [Next]_vars => IInv'
<1> SUFFICES ASSUME IInv, [Next]_vars PROVE IInv'
  OBVIOUS
<1>1. CASE (\E action \in {"cancel", "resend"} : Command(action)) \/ SelectClient
  BY <1>1, CommandSteps
<1>2. ASSUME NEW j \in DOMAIN jobs, AdminRetry(j) \/ Claim(j) PROVE IInv'
  BY <1>2, AdminRetryStep, ClaimStep
<1>3. CASE Callback \/ RecoverCallback \/ CustomerPays \/ Expires
  BY <1>3, CallbackSteps, WorldSteps
<1>4. CASE Work
  BY <1>4, WorkStep
<1>5. CASE Crash \/ Breaks \/ NoAnswer
  BY <1>5, CrashStep, BreakingSteps
<1>6. ASSUME NEW write \in net, CrmApplies(write) \/ CrmRejects(write) \/ RequestLost(write)
      PROVE  IInv'
  BY <1>6, RequestSteps
<1>7. CASE UNCHANGED vars
  BY <1>7, StutterStep
<1> QED BY <1>1, <1>2, <1>3, <1>4, <1>5, <1>6, <1>7 DEF Next

\* The inductive invariant holds in every reachable state.
THEOREM Invariance == Spec => []IInv
<1>1. Init => IInv
  BY InitIInv
<1>2. IInv /\ [Next]_vars => IInv'
  BY StepIInv
<1> QED BY <1>1, <1>2, PTL DEF Spec

\* Every variable holds a value of its kind, however many jobs, commands and faults.
THEOREM TypeCorrect == Spec => []TypeOK
<1>1. IInv => TypeOK
  BY TypedIsTypeOK DEF IInv
<1> QED BY <1>1, Invariance, PTL

\* request_reconciliation_in_session, recover_callbacks and finish: a callback that
\* came in after the last status read is in the inbox, or a status check that has
\* still to read waits, runs or was stopped in sight of the administrator, or the
\* inbox gave it up while its document was unknown.
THEOREM CallbackKept == Spec => []CallbackNotLost
<1>1. IInv => CallbackNotLost
  BY DEF IInv
<1> QED BY <1>1, Invariance, PTL

\* finish: a paid payment without its comment and activity never runs out of jobs.
THEOREM PaidFollowed == Spec => []PaidIsFollowedUp
<1>1. IInv => PaidIsFollowedUp
  BY DEF IInv
<1> QED BY <1>1, Invariance, PTL

\* The run changes a status that is not final, or finds out that it is paid.
LEMMA WorkKeepsFinal == ASSUME IInv, Work PROVE KeepsFinal
<1> USE DEF IInv
<1>1. CASE \/ SettleUnknown \/ Confirmed \/ StartReconciliation \/ ReadStatus \/ FinishDone
  BY <1>1 DEF SettleUnknown, Confirmed, StartReconciliation, ReadStatus, FinishDone, rowVars,
     KeepsFinal
<1>2. CASE Store
  BY <1>2 DEF Store, RunKnows, KeepsFinal, Terminal, Final
<1>3. CASE ExecuteCommand
  <2>1. run.view \in Terminal <=> status \in Terminal
    BY <1>3, ViewIsCurrent DEF ExecuteCommand
  <2>2. status' = status \/ run.view \notin Terminal
    BY <1>3 DEF ExecuteCommand
  <2> QED BY <2>1, <2>2 DEF KeepsFinal, Terminal, Final
<1>4. CASE StartFormation
  <2>1. run.view \in Terminal <=> status \in Terminal
    BY <1>4, ViewIsCurrent DEF StartFormation
  <2>2. status' = status \/ run.view \notin Terminal \/ status \in {"draft", "resolving_client"}
    BY <1>4 DEF StartFormation
  <2> QED BY <2>1, <2>2 DEF KeepsFinal, Terminal, Final
<1>5. CASE ResolveClient
  BY <1>5 DEF ResolveClient, RunKnows, KeepsFinal
<1>6. CASE FormStep
  BY <1>6 DEF FormStep, RunKnows, KeepsFinal, Terminal, Final
<1>7. CASE FinishForming
  <2>1. status' = status \/ status = "link_created"
    BY <1>7 DEF FinishForming
  <2> QED BY <2>1 DEF KeepsFinal
<1>8. CASE StoreUnpaid
  <2>1. run.pc = "unpaid" /\ (status \in {"canceled", "expired"} => status' = status)
    BY <1>8 DEF StoreUnpaid
  <2>2. status # "paid"
    BY <2>1 DEF RunKnows
  <2> QED BY <2>1, <2>2 DEF KeepsFinal
<1>9. CASE StorePaid
  BY <1>9 DEF StorePaid, KeepsFinal
<1>10. CASE FinishFailed
  BY <1>10 DEF FinishFailed, KeepsFinal, Final
<1> QED BY <1>1, <1>2, <1>3, <1>4, <1>5, <1>6, <1>7, <1>8, <1>9, <1>10 DEF Work

LEMMA StepKeepsFinal == ASSUME IInv, [Next]_vars PROVE KeepsFinal
<1>1. CASE Work
  BY <1>1, WorkKeepsFinal
<1>2. CASE (\E action \in {"cancel", "resend"} : Command(action)) \/ SelectClient
  BY <1>2 DEF Command, SelectClient, rowVars, KeepsFinal
<1>3. ASSUME NEW j \in DOMAIN jobs, AdminRetry(j) \/ Claim(j) PROVE KeepsFinal
  BY <1>3 DEF AdminRetry, Claim, rowVars, KeepsFinal
<1>4. CASE Callback \/ RecoverCallback \/ CustomerPays \/ Expires
  BY <1>4 DEF Callback, RecoverCallback, CustomerPays, Expires, rowVars, KeepsFinal
<1>5. CASE Crash \/ Breaks \/ NoAnswer
  BY <1>5 DEF Crash, Breaks, NoAnswer, rowVars, KeepsFinal
<1>6. ASSUME NEW write \in net, CrmApplies(write) \/ CrmRejects(write) \/ RequestLost(write)
      PROVE  KeepsFinal
  BY <1>6 DEF CrmApplies, CrmRejects, RequestLost, rowVars, KeepsFinal
<1>7. CASE UNCHANGED vars
  BY <1>7 DEF vars, rowVars, KeepsFinal
<1> QED BY <1>1, <1>2, <1>3, <1>4, <1>5, <1>6, <1>7 DEF Next

\* T19, T21: paid is never taken back, and a canceled or expired payment can only
\* still turn out to be paid, whatever job, command or retry runs late.
THEOREM FinalStays == Spec => FinalStaysFinal
<1>1. IInv /\ [Next]_vars => KeepsFinal
  BY StepKeepsFinal
<1>2. IInv /\ [Next]_vars => [KeepsFinal]_vars
  BY <1>1
<1> QED BY <1>2, Invariance, PTL DEF Spec, FinalStaysFinal

\* Every request on its way to a final payment is believed to be executed already.
LEMMA StepKeepsSilent == ASSUME IInv, [Next]_vars PROVE KeepsSilent
<1> USE DEF IInv
<1>1. ASSUME NEW write \in net, CrmApplies(write), status \in {"canceled", "expired"},
             ConfirmedWasSent
      PROVE  (doc = "none" => doc' = "none") /\ UNCHANGED sends
  <2>1. write \in Writes /\ write \in written
    BY <1>1 DEF JournalKnows, Typed, CrmTyped, Writes, NoWrite, Final
  <2>2. /\ write[1] \in {"create", "delete", "send"} /\ write[2] \in 0..MaxCommands
        /\ write = <<write[1], write[2]>>
    BY <2>1 DEF Writes
  <2>3. CASE write[1] = "create"
    BY <1>1, <2>1, <2>3 DEF CrmApplies, DocumentKnown
  <2>4. CASE write[1] = "delete"
    BY <1>1, <2>4 DEF CrmApplies, DocumentKnown
  <2>5. CASE write[1] = "send"
    <3>1. write[2] \in sends
      BY <1>1, <2>1, <2>2, <2>5 DEF ConfirmedWasSent
    <3> QED BY <1>1, <2>5, <3>1 DEF CrmApplies
  <2> QED BY <2>2, <2>3, <2>4, <2>5
<1>2. CASE UNCHANGED <<doc, sends>>
  BY <1>2 DEF KeepsSilent
<1>3. CASE CustomerPays
  BY <1>3 DEF CustomerPays, KeepsSilent
<1>4. \/ \E write \in net : CrmApplies(write)
      \/ UNCHANGED <<doc, sends>>
      \/ CustomerPays
  <2>1. CASE (\E action \in {"cancel", "resend"} : Command(action)) \/ SelectClient
    BY <2>1 DEF Command, SelectClient, crmVars
  <2>2. ASSUME NEW j \in DOMAIN jobs, AdminRetry(j) \/ Claim(j) PROVE UNCHANGED <<doc, sends>>
    BY <2>2 DEF AdminRetry, Claim, crmVars
  <2>3. CASE Callback \/ RecoverCallback \/ Expires
    BY <2>3 DEF Callback, RecoverCallback, Expires, crmVars
  <2>4. CASE Crash \/ Breaks \/ NoAnswer
    BY <2>4 DEF Crash, Breaks, NoAnswer, crmVars
  <2>5. ASSUME NEW write \in net, CrmRejects(write) \/ RequestLost(write)
        PROVE  UNCHANGED <<doc, sends>>
    BY <2>5 DEF CrmRejects, RequestLost
  <2>6. CASE SettleUnknown \/ Confirmed \/ Store \/ StartFormation \/ ResolveClient
    BY <2>6 DEF SettleUnknown, Confirmed, Store, StartFormation, ResolveClient, crmVars
  <2>7. CASE ExecuteCommand \/ FormStep \/ FinishForming
    BY <2>7 DEF ExecuteCommand, FormStep, FinishForming
  <2>8. CASE \/ StartReconciliation \/ ReadStatus \/ StoreUnpaid \/ StorePaid \/ FinishDone
             \/ FinishFailed
    BY <2>8 DEF StartReconciliation, ReadStatus, StoreUnpaid, StorePaid, FinishDone, FinishFailed,
       crmVars
  <2>9. CASE UNCHANGED vars
    BY <2>9 DEF vars, crmVars
  <2> QED BY <2>1, <2>2, <2>3, <2>4, <2>5, <2>6, <2>7, <2>8, <2>9 DEF Next, Work
<1> QED BY <1>1, <1>2, <1>3, <1>4 DEF KeepsSilent

\* T21: no document is created for a canceled or expired payment and nothing is sent
\* to the customer, not even by a request that left before, unless recovery took a
\* send request for executed that was not.
THEOREM FinalSilent == Spec => FinalIsSilent
<1>1. IInv /\ [Next]_vars => [KeepsSilent]_vars
  BY StepKeepsSilent
<1> QED BY <1>1, Invariance, PTL DEF Spec, FinalIsSilent
=============================================================================
