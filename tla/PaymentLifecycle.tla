--------------------------- MODULE PaymentLifecycle ---------------------------
(***************************************************************************)
(* What happens to one payment: its status, the steps that form it in the  *)
(* CRM, the commands of the employee (cancel, resend, choose a client) and *)
(* of the administrator, the callbacks of the CRM and the customer's own   *)
(* payment.  Every one of them works through the durable jobs of the       *)
(* payment; one job runs at a time.                                        *)
(*                                                                         *)
(* That a second worker cannot execute next to the first, and that no      *)
(* write takes effect twice, is the subject of PaymentFencing; here a      *)
(* single run stands for the owner of the lease, and a write that was sent *)
(* by a run that is gone may still arrive.                                 *)
(***************************************************************************)
EXTENDS Integers, Sequences, SequencesExt

CONSTANTS MaxUnknown,   \* retries of a job with an unknown write (3)
          MaxRetries,   \* bx24_worker_max_retries
          MayBeAmbiguous, \* the client may have to be chosen by hand
          MayBeLate,    \* expires_at may come
          UserActions,  \* commands the employee uses, of cancel, resend, select
          MaxJobs,      \* bound: jobs of the payment at a time
          MaxCommands,  \* bound: cancel and resend commands
          MaxFaults     \* bound: crashes, errors, lost requests, spare callbacks

ASSUME RetryAssumption == MaxUnknown \in Nat /\ MaxRetries \in Nat
ASSUME ScenarioAssumption ==
  /\ MayBeAmbiguous \in BOOLEAN
  /\ MayBeLate \in BOOLEAN
  /\ UserActions \subseteq {"cancel", "resend", "select"}
ASSUME BoundAssumption == MaxJobs \in Nat \ {0} /\ MaxCommands \in Nat /\ MaxFaults \in Nat

VARIABLES
  \* the payment row
  status,
  formed,    \* how many of the Steps its columns record
  sent,      \* send_status is set
  audit,     \* which of formation comment and activity are recorded
  paidAudit, \* paid comment and activity are recorded
  \* other tables
  jobs,      \* unfinished or stopped, in the order of their creation;
             \* no query looks at one that is completed or superseded
  inbox,     \* a callback for a payment document nobody knows yet
  journal,   \* the external write whose outcome is unknown, or NoWrite
  written,   \* the confirmed external writes
  \* the CRM and the customer
  doc,       \* the payment document
  sends,     \* scopes whose send request took effect
  net,       \* the writes whose requests are on their way
  notice,    \* the CRM's callback about the customer's payment
  \* the run that owns the lease
  run,
  \* time, ghosts and bounds
  late,      \* expires_at has come
  asked,     \* a callback came in after the last status read, and was not given up
  commands,  \* cancel and resend commands given
  faults

rowVars == <<status, formed, sent, audit, paidAudit>>
crmVars == <<doc, sends, net, notice>>
vars == <<rowVars, jobs, inbox, journal, written, crmVars, run, late, asked, commands, faults>>

-----------------------------------------------------------------------------
\* The steps of process, and the status each of them leaves.
Steps == <<"client_resolved", "invoice_created", "product_added", "payment_created",
           "payment_created", "link_created">>
DocumentStep == 4
AllSteps == Len(Steps)

Final    == {"paid", "canceled", "expired"}
Terminal == Final \cup {"failed"}
PollStates == {"send_queued", "sent", "send_failed"}
Active   == {"ready", "running"}
Stopped  == {"failed", "needs_reconciliation"}

\* A write is named by its CRM method and by the scope of its job.
NoWrite == <<"none", 0>>
NoRun   == [job |-> 0, pc |-> "idle", view |-> "draft"]

HasDocument == formed >= DocumentStep
HasLink == formed = AllSteps

NewJob(kind, action, scope, attempt) ==
  [kind |-> kind, action |-> action, scope |-> scope, attempt |-> attempt, state |-> "ready"]

ActiveIn(js, kind) == {j \in DOMAIN js : js[j].kind = kind /\ js[j].state \in Active}

Fault == faults < MaxFaults /\ faults' = faults + 1

Room == Len(jobs) < MaxJobs

\* The step the failed payment continues with.
ResumableStatus ==
  CASE formed = 0 -> "draft"
    [] formed \in 1..(AllSteps - 1) -> Steps[formed]
    [] formed = AllSteps -> IF sent THEN "send_queued" ELSE "link_created"

Init ==
  /\ status = "draft"
  /\ formed = 0
  /\ sent = FALSE
  /\ audit = {}
  /\ paidAudit = FALSE
  /\ jobs = <<NewJob("formation", "none", 0, 0)>>
  /\ inbox = FALSE
  /\ journal = NoWrite
  /\ written = {}
  /\ doc = "none"
  /\ sends = {}
  /\ net = {}
  /\ notice = "none"
  /\ run = NoRun
  /\ late = FALSE
  /\ asked = FALSE
  /\ commands = 0
  /\ faults = 0

-----------------------------------------------------------------------------
(* The employee, the administrator, the CRM and the customer.               *)

\* queue_command for cancel and resend: a second one of a kind is absorbed.
Command(action) ==
  /\ action \in UserActions
  /\ status \notin Terminal
  /\ action = "resend" => HasLink
  /\ ~\E j \in DOMAIN jobs : jobs[j].action = action /\ jobs[j].state \in Active
  /\ Room /\ commands < MaxCommands
  /\ commands' = commands + 1
  /\ jobs' = Append(jobs, NewJob("formation", action, commands + 1, 0))
  /\ UNCHANGED <<rowVars, inbox, journal, written, crmVars, run, late, asked, faults>>

\* queue_command for the choice of one of the candidates.
SelectClient ==
  /\ "select" \in UserActions
  /\ status = "client_selection_required"
  /\ Room
  /\ status' = "resolving_client"
  /\ jobs' = Append(jobs, NewJob("formation", "select", 0, 0))
  /\ UNCHANGED <<formed, sent, audit, paidAudit, inbox, journal, written, crmVars, run,
                 late, asked, commands, faults>>

\* retry_in_session: a stopped job is replaced by one with the same intent.
AdminRetry(j) ==
  /\ jobs[j].state \in Stopped
  /\ run = NoRun
  /\ Fault
  /\ status' = IF status = "failed" THEN ResumableStatus ELSE status
  /\ LET action == IF jobs[j].action = "none" THEN "resume" ELSE jobs[j].action IN
     jobs' = Append(RemoveAt(jobs, j), NewJob(jobs[j].kind, action, jobs[j].scope, 0))
  /\ UNCHANGED <<formed, sent, audit, paidAudit, inbox, journal, written, crmVars, run,
                 late, asked, commands>>

\* Mutant of RequestReconciliation: a running reconciliation absorbs it, too.
RequestAbsorbed ==
  IF ActiveIn(jobs, "reconciliation") # {}
  THEN UNCHANGED jobs
  ELSE Room /\ jobs' = Append(jobs, NewJob("reconciliation", "none", 0, 0))

\* A queued reconciliation absorbs the request, a running one cannot: its
\* status read may be behind it.
RequestReconciliation ==
  IF \E j \in DOMAIN jobs : jobs[j].kind = "reconciliation" /\ jobs[j].state = "ready"
  THEN UNCHANGED jobs
  ELSE Room /\ jobs' = Append(jobs, NewJob("reconciliation", "none", 0, 0))

\* receive_callback: a document that is not recorded yet leaves an inbox row.
ReceiveCallback ==
  /\ IF HasDocument
     THEN RequestReconciliation /\ UNCHANGED inbox
     ELSE inbox' = TRUE /\ UNCHANGED jobs
  /\ asked' = TRUE

Callback ==
  /\ doc # "none"
  /\ \/ notice = "due" /\ notice' = "delivered" /\ UNCHANGED faults
     \/ Fault /\ UNCHANGED notice
  /\ ReceiveCallback
  /\ UNCHANGED <<rowVars, journal, written, doc, sends, net, run, late, commands>>

\* recover_callbacks: the document of an inbox row is known by now, or the row
\* has waited for it until its expires_at and is given up.
RecoverCallback ==
  /\ inbox
  /\ inbox' = FALSE
  /\ IF HasDocument
     THEN RequestReconciliation /\ UNCHANGED asked
     ELSE asked' = FALSE /\ UNCHANGED jobs
  /\ UNCHANGED <<rowVars, journal, written, crmVars, run, late, commands, faults>>

CustomerPays ==
  /\ doc = "unpaid" /\ HasLink
  /\ doc' = "paid"
  /\ notice' = "due"
  /\ UNCHANGED <<rowVars, jobs, inbox, journal, written, sends, net, run, late, asked,
                 commands, faults>>

Expires ==
  /\ MayBeLate /\ ~late
  /\ late' = TRUE
  /\ UNCHANGED <<rowVars, jobs, inbox, journal, written, crmVars, run, asked, commands, faults>>

-----------------------------------------------------------------------------
(* One run of the executor.                                                 *)

RunJob == jobs[run.job]
At(place) == run' = [run EXCEPT !.pc = place]

\* The job is claimed and its payment loaded; a lost lease or a crash forgets both.
Claim(j) ==
  /\ run = NoRun
  /\ jobs[j].state \in Active
  /\ jobs' = [jobs EXCEPT ![j].state = "running"]
  /\ run' = [job |-> j, pc |-> "opened", view |-> status]
  /\ UNCHANGED <<rowVars, inbox, journal, written, crmVars, late, asked, commands, faults>>

Crash ==
  /\ run # NoRun
  /\ Fault
  /\ run' = NoRun
  /\ UNCHANGED <<rowVars, jobs, inbox, journal, written, crmVars, late, asked, commands>>

\* A read fails, or the CRM answers something that is no use.
Breaks ==
  /\ run.pc \in {"opened", "working", "resolving", "forming", "checking", "paid"}
  /\ Fault
  /\ At("broken")
  /\ UNCHANGED <<rowVars, jobs, inbox, journal, written, crmVars, late, asked, commands>>

\* What recover_write takes for a proof that the unknown write took effect.  An
\* update of the invoice is proved by the fields it would set: the link and the
\* trigger, the same in every send request.
Evidence(write) ==
  CASE write = "create" -> doc # "none"
    [] write = "delete" -> doc = "deleted"
    [] write = "send"   -> sends # {}

\* Mutant of SettleUnknown: no evidence is taken for a write that did not happen.
SettleBlindly ==
  /\ run.pc = "opened"
  /\ journal' = NoWrite
  /\ written' = IF journal # NoWrite /\ Evidence(journal[1]) THEN written \cup {journal} ELSE written
  /\ At("working")
  /\ UNCHANGED <<rowVars, jobs, inbox, crmVars, late, asked, commands, faults>>

\* perform: an unknown write is settled before anything else is done.
SettleUnknown ==
  /\ run.pc = "opened"
  /\ IF journal = NoWrite
     THEN At("working") /\ UNCHANGED <<journal, written>>
     ELSE IF Evidence(journal[1])
     THEN /\ written' = written \cup {journal}
          /\ journal' = NoWrite
          /\ At("working")
     ELSE At("unknown") /\ UNCHANGED <<journal, written>>
  /\ UNCHANGED <<rowVars, jobs, inbox, crmVars, late, asked, commands, faults>>

\* begin_write: a confirmed write answers from the journal.
BeginWrite(write) ==
  IF write \in written
  THEN At("storing") /\ UNCHANGED <<journal, net>>
  ELSE /\ journal' = write
       /\ net' = net \cup {write}
       /\ At("waiting")

\* The write the run is making, by the job it runs and how far the payment is.
CurrentWrite ==
  LET scope == RunJob.scope IN
  CASE RunJob.action = "cancel" -> <<"delete", scope>>
    [] RunJob.action = "resend" -> <<"send", scope>>
    [] OTHER -> IF HasLink THEN <<"send", 0>> ELSE <<"create", 0>>

Awaited(write) == run.pc = "waiting" /\ CurrentWrite = write

\* The CRM executes the request, also when nobody waits for it any more.
CrmApplies(write) ==
  /\ net' = net \ {write}
  /\ doc' = CASE write[1] = "create" -> "unpaid"
              [] write[1] = "delete" -> "deleted"
              [] write[1] = "send" -> doc
  /\ sends' = IF write[1] = "send" THEN sends \cup {write[2]} ELSE sends
  /\ IF Awaited(write) THEN At("applied") ELSE UNCHANGED run
  /\ UNCHANGED <<rowVars, jobs, inbox, journal, written, notice, late, asked, commands,
                 faults>>

CrmRejects(write) ==
  /\ Awaited(write)
  /\ Fault
  /\ net' = net \ {write}
  /\ journal' = NoWrite
  /\ At("broken")
  /\ UNCHANGED <<rowVars, jobs, inbox, written, doc, sends, notice, late, asked, commands>>

RequestLost(write) ==
  /\ Fault
  /\ net' = net \ {write}
  /\ IF Awaited(write) THEN At("broken") ELSE UNCHANGED run
  /\ UNCHANGED <<rowVars, jobs, inbox, journal, written, doc, sends, notice, late, asked,
                 commands>>

\* No answer in time: the outcome of the write stays unknown.
NoAnswer ==
  /\ run.pc \in {"waiting", "applied"}
  /\ Fault
  /\ At("broken")
  /\ UNCHANGED <<rowVars, jobs, inbox, journal, written, crmVars, late, asked, commands>>

Confirmed ==
  /\ run.pc = "applied"
  /\ written' = written \cup {journal}
  /\ journal' = NoWrite
  /\ At("storing")
  /\ UNCHANGED <<rowVars, jobs, inbox, crmVars, late, asked, commands, faults>>

\* The result of a write becomes progress of the payment row.
Store ==
  /\ run.pc = "storing"
  /\ LET write == CurrentWrite[1] IN
     /\ formed' = IF write = "create" THEN DocumentStep ELSE formed
     /\ sent' = (sent \/ write = "send")
     /\ status' = CASE write = "create" -> Steps[DocumentStep]
                    [] write = "delete" -> "canceled"
                    [] write = "send"   -> "send_queued"
  /\ At(IF RunJob.action \in {"cancel", "resend"} THEN "done" ELSE "forming")
  /\ UNCHANGED <<audit, paidAudit, jobs, inbox, journal, written, crmVars, late, asked,
                 commands, faults>>

\* execute_command, on the payment as it was when the run began.
ExecuteCommand ==
  /\ run.pc = "working"
  /\ RunJob.action \in {"cancel", "resend"}
  /\ IF run.view \in Terminal
     THEN At("done") /\ UNCHANGED <<status, journal, net>>
     ELSE IF RunJob.action = "cancel" /\ ~HasDocument
     THEN status' = "canceled" /\ At("done") /\ UNCHANGED <<journal, net>>
     ELSE IF RunJob.action = "cancel" /\ doc # "unpaid"
     THEN /\ At(IF doc = "paid" THEN "checking" ELSE "broken")
          /\ UNCHANGED <<status, journal, net>>
     ELSE BeginWrite(CurrentWrite) /\ UNCHANGED status
  /\ UNCHANGED <<formed, sent, audit, paidAudit, jobs, inbox, written, doc, sends, notice,
                 late, asked, commands, faults>>

\* perform and the head of process, for a formation job without a command.
StartFormation ==
  /\ run.pc = "working"
  /\ RunJob.kind = "formation" /\ RunJob.action \notin {"cancel", "resend"}
  /\ IF run.view \notin Terminal /\ ~HasDocument /\ late
     THEN status' = "expired" /\ At("done")
     ELSE IF status \in (Terminal \ {"paid"}) \cup {"client_selection_required"}
     THEN At("done") /\ UNCHANGED status
     ELSE IF status \in {"draft", "resolving_client"} /\ formed = 0
     THEN status' = "resolving_client" /\ At("resolving")
     ELSE At("forming") /\ UNCHANGED status
  /\ UNCHANGED <<formed, sent, audit, paidAudit, jobs, inbox, journal, written, crmVars,
                 late, asked, commands, faults>>

\* The resolver finds the client, or the candidates to choose from; a further
\* question after a choice is counted as a fault.
ResolveClient ==
  /\ run.pc = "resolving"
  /\ \/ /\ MayBeAmbiguous
        /\ IF RunJob.action = "select" THEN Fault ELSE UNCHANGED faults
        /\ status' = "client_selection_required"
        /\ At("done")
        /\ UNCHANGED formed
     \/ /\ status' = Steps[1]
        /\ formed' = 1
        /\ At("forming")
        /\ UNCHANGED faults
  /\ UNCHANGED <<sent, audit, paidAudit, jobs, inbox, journal, written, crmVars, late,
                 asked, commands>>

\* The next step that is not recorded; the payment document and the send request
\* are looked up first.
FormStep ==
  /\ run.pc = "forming" /\ status # "paid" /\ formed < AllSteps
  /\ IF formed + 1 = DocumentStep /\ doc = "none"
     THEN BeginWrite(CurrentWrite) /\ UNCHANGED <<status, formed>>
     ELSE /\ formed' = formed + 1
          /\ status' = Steps[formed + 1]
          /\ UNCHANGED <<run, journal, net>>
  /\ UNCHANGED <<sent, audit, paidAudit, jobs, inbox, written, doc, sends, notice, late,
                 asked, commands, faults>>

\* Formation comment, then the send request, then the activity.
FinishForming ==
  /\ run.pc = "forming" /\ (status = "paid" \/ formed = AllSteps)
  /\ IF "comment" \notin audit
     THEN audit' = audit \cup {"comment"} /\ UNCHANGED <<status, sent, run, journal, net>>
     ELSE IF status = "link_created"
     THEN /\ IF sends # {}
             THEN status' = "send_queued" /\ sent' = TRUE /\ UNCHANGED <<run, journal, net>>
             ELSE BeginWrite(CurrentWrite) /\ UNCHANGED <<status, sent>>
          /\ UNCHANGED audit
     ELSE IF status \in PollStates \cup {"paid"} /\ "activity" \notin audit
     THEN audit' = audit \cup {"activity"} /\ UNCHANGED <<status, sent, run, journal, net>>
     ELSE At("done") /\ UNCHANGED <<status, sent, audit, journal, net>>
  /\ UNCHANGED <<formed, paidAudit, jobs, inbox, written, doc, sends, notice, late, asked,
                 commands, faults>>

\* Mutant of StartReconciliation: nothing is checked for a payment in a final state.
StartReconciliationUnlessFinal ==
  /\ run.pc = "working"
  /\ RunJob.kind = "reconciliation"
  /\ At(IF HasDocument /\ status \notin Terminal THEN "checking" ELSE "done")
  /\ UNCHANGED <<rowVars, jobs, inbox, journal, written, crmVars, late, asked, commands, faults>>

StartReconciliation ==
  /\ run.pc = "working"
  /\ RunJob.kind = "reconciliation"
  /\ At(IF HasDocument THEN "checking" ELSE "done")
  /\ UNCHANGED <<rowVars, jobs, inbox, journal, written, crmVars, late, asked, commands, faults>>

\* handle asks the CRM unless the payment is known to be paid.  What it read is
\* stored later: the customer may pay in between.
ReadStatus ==
  /\ run.pc = "checking"
  /\ asked' = FALSE
  /\ At(IF status = "paid" \/ doc = "paid" THEN "paid"
        ELSE IF doc = "deleted" THEN "broken" ELSE "unpaid")
  /\ UNCHANGED <<rowVars, jobs, inbox, journal, written, crmVars, late, commands, faults>>

StoreUnpaid ==
  /\ run.pc = "unpaid"
  /\ status' = IF status \notin {"canceled", "expired", "failed"} /\ late THEN "expired" ELSE status
  /\ At("done")
  /\ UNCHANGED <<formed, sent, audit, paidAudit, jobs, inbox, journal, written, crmVars,
                 late, asked, commands, faults>>

\* The payment is committed before its comment and activity.
StorePaid ==
  /\ run.pc = "paid"
  /\ IF status # "paid"
     THEN status' = "paid" /\ UNCHANGED <<paidAudit, run>>
     ELSE paidAudit' = TRUE /\ At("done") /\ UNCHANGED status
  /\ UNCHANGED <<formed, sent, audit, jobs, inbox, journal, written, crmVars, late, asked,
                 commands, faults>>

-----------------------------------------------------------------------------
(* finish.                                                                  *)

\* A queued reconciliation continues the polling instead of a new one, with
\* the attempts of a failed one.
FollowUp(kind, action, scope, attempt, base) ==
  LET queued == ActiveIn(base, "reconciliation") IN
  IF kind = "reconciliation" /\ queued # {}
  THEN LET first == CHOOSE j \in queued : \A k \in queued : j <= k IN
       jobs' = [base EXCEPT ![first].attempt = IF attempt > @ THEN attempt ELSE @]
  ELSE Len(base) < MaxJobs /\ jobs' = Append(base, NewJob(kind, action, scope, attempt))

\* Mutant of FinishDone: a status check is not followed by the next one.
FinishDoneOnce ==
  /\ run.pc = "done"
  /\ LET base == RemoveAt(jobs, run.job) IN
     IF HasDocument /\ status \notin Terminal /\ RunJob.kind = "formation"
     THEN FollowUp("reconciliation", "none", 0, 0, base)
     ELSE jobs' = base
  /\ run' = NoRun
  /\ UNCHANGED <<rowVars, inbox, journal, written, crmVars, late, asked, commands, faults>>

\* An open document is polled, a paid one until its comment and activity are made.
FinishDone ==
  /\ run.pc = "done"
  /\ LET base == RemoveAt(jobs, run.job) IN
     IF HasDocument /\ (status \notin Terminal \/ (status = "paid" /\ ~paidAudit))
     THEN FollowUp("reconciliation", "none", 0, 0, base)
     ELSE jobs' = base
  /\ run' = NoRun
  /\ UNCHANGED <<rowVars, inbox, journal, written, crmVars, late, asked, commands, faults>>

\* Mutant of FinishFailed: the payment's status gets the name of the job's state.
FinishFailedNamesState ==
  /\ run.pc \in {"unknown", "broken"}
  /\ LET stopped == IF run.pc = "unknown" THEN "needs_reconciliation" ELSE "failed" IN
     /\ jobs' = [jobs EXCEPT ![run.job].state = stopped]
     /\ status' = IF status \in Final THEN status ELSE stopped
  /\ run' = NoRun
  /\ UNCHANGED <<formed, sent, audit, paidAudit, inbox, journal, written, crmVars, late,
                 asked, commands, faults>>

\* Mutant of FinishFailed: the job of a final payment is not repeated.
FinishFailedDropsFinal ==
  /\ run.pc \in {"unknown", "broken"}
  /\ IF status \in Final
     THEN jobs' = RemoveAt(jobs, run.job) /\ UNCHANGED status
     ELSE jobs' = [jobs EXCEPT ![run.job].state = "failed"] /\ status' = "failed"
  /\ run' = NoRun
  /\ UNCHANGED <<formed, sent, audit, paidAudit, inbox, journal, written, crmVars, late,
                 asked, commands, faults>>

\* Mutant of FinishFailed: any payment fails, a final one as well.
FinishFailedAlways ==
  /\ run.pc \in {"unknown", "broken"}
  /\ jobs' = [jobs EXCEPT ![run.job].state = "failed"]
  /\ status' = "failed"
  /\ run' = NoRun
  /\ UNCHANGED <<formed, sent, audit, paidAudit, inbox, journal, written, crmVars, late,
                 asked, commands, faults>>

\* The job is repeated, or stopped; then the payment fails unless it is final.
FinishFailed ==
  /\ run.pc \in {"unknown", "broken"}
  /\ LET attempt == RunJob.attempt + 1
         limit == IF run.pc = "unknown" THEN MaxUnknown ELSE MaxRetries
         stopped == IF run.pc = "unknown" THEN "needs_reconciliation" ELSE "failed"
     IN  IF attempt <= limit
         THEN /\ FollowUp(RunJob.kind, RunJob.action, RunJob.scope, attempt,
                          RemoveAt(jobs, run.job))
              /\ UNCHANGED status
         ELSE /\ jobs' = [jobs EXCEPT ![run.job].state = stopped]
              /\ status' = IF status \in Final THEN status ELSE "failed"
  /\ run' = NoRun
  /\ UNCHANGED <<formed, sent, audit, paidAudit, inbox, journal, written, crmVars, late,
                 asked, commands, faults>>

-----------------------------------------------------------------------------
Work ==
  \/ SettleUnknown
  \/ Confirmed
  \/ Store
  \/ ExecuteCommand
  \/ StartFormation
  \/ ResolveClient
  \/ FormStep
  \/ FinishForming
  \/ StartReconciliation
  \/ ReadStatus
  \/ StoreUnpaid
  \/ StorePaid
  \/ FinishDone
  \/ FinishFailed

Next ==
  \/ \E action \in {"cancel", "resend"} : Command(action)
  \/ SelectClient
  \/ \E j \in DOMAIN jobs : AdminRetry(j) \/ Claim(j)
  \/ Callback
  \/ RecoverCallback
  \/ CustomerPays
  \/ Expires
  \/ Work
  \/ Crash \/ Breaks \/ NoAnswer
  \/ \E write \in net : CrmApplies(write) \/ CrmRejects(write) \/ RequestLost(write)

\* The job that has waited longest.
ClaimOldest ==
  \E j \in DOMAIN jobs :
    Claim(j) /\ \A k \in 1..(j - 1) : jobs[k].state \notin Active

\* due_jobs comes in the order of available_at, where a poll goes behind what is
\* waiting: the oldest job gets the lease if it is free again and again.  Runs go
\* on, the CRM answers unless a fault is counted, reports a payment sooner or
\* later, and expires_at comes.
Fairness ==
  /\ SF_vars(ClaimOldest)
  /\ WF_vars(Work)
  /\ WF_vars(\E write \in net : CrmApplies(write))
  /\ WF_vars(RecoverCallback)
  /\ WF_vars(notice = "due" /\ Callback)
  /\ WF_vars(Expires)

Spec == Init /\ [][Next]_vars /\ Fairness

-----------------------------------------------------------------------------
\* Every variable holds a value of its kind.
TypeOK ==
  /\ status \in {"draft", "resolving_client", "client_selection_required", "send_queued"}
                  \cup Range(Steps) \cup Terminal
  /\ formed \in 0..AllSteps
  /\ {sent, paidAudit, inbox, late, asked} \subseteq BOOLEAN
  /\ audit \subseteq {"comment", "activity"}
  /\ Len(jobs) <= MaxJobs
  /\ \A j \in DOMAIN jobs : jobs[j].state \in Active \cup Stopped
  /\ doc \in {"none", "unpaid", "paid", "deleted"}
  /\ sends \subseteq 0..MaxCommands
  /\ notice \in {"none", "due", "delivered"}
  /\ run.job \in 0..Len(jobs)
  /\ run.pc \in {"idle", "opened", "working", "resolving", "forming", "waiting", "applied",
                 "storing", "checking", "unpaid", "paid", "done", "unknown", "broken"}
  /\ commands \in 0..MaxCommands
  /\ faults \in 0..MaxFaults

\* request_reconciliation_in_session: "A running read cannot consume a new
\* callback".  A callback that came in after the last status read is in the
\* inbox or has a reconciliation whose read is still to come, unless that
\* reconciliation was stopped in sight of the administrator.  One way out is the
\* code's own: an inbox row whose document is still unknown when it expires is
\* given up (recover_callbacks, line 105); when the document comes after all, the
\* polling that its job starts makes up for the callback (PaidIsRecognised).
StillReads(j) ==
  /\ jobs[j].kind = "reconciliation"
  /\ \/ jobs[j].state \in Stopped
     \/ /\ jobs[j].state \in Active
        /\ run.job = j => run.pc \notin {"unpaid", "paid", "done"}

CallbackNotLost ==
  asked => inbox \/ status = "paid" \/ \E j \in DOMAIN jobs : StillReads(j)

\* T22: a payment that is known to be paid keeps a job until its comment and
\* activity are made, whatever breaks in between.  The last one may be any job the
\* administrator finds stopped, also a command: its retry ends with the follow-up.
PaidIsFollowedUp == status = "paid" /\ ~paidAudit => jobs # <<>>

\* T19, T21: paid is never taken back, and a payment that is canceled or expired
\* can only still turn out to be paid; no stale job, command or retry revives it.
KeepsFinal ==
  /\ status = "paid" => status' = "paid"
  /\ status \in {"canceled", "expired"} => status' \in {status, "paid"}
FinalStaysFinal == [][KeepsFinal]_vars

\* payment_write_recovery: "None when absence/ambiguity is not proof".  A send
\* request the journal confirms was executed.
ConfirmedWasSent ==
  \A scope \in 0..MaxCommands : <<"send", scope>> \in written => scope \in sends

\* T21: once a payment is canceled or expired, no document is created for it and
\* nothing is sent to the customer, not even by a request that left before: unless
\* recovery believed in a send request that never arrived (ConfirmedWasSent).
KeepsSilent ==
  status \in {"canceled", "expired"} /\ ConfirmedWasSent =>
    (doc = "none" => doc' = "none") /\ UNCHANGED sends
FinalIsSilent == [][KeepsSilent]_vars

\* Without a choice to make and with bounded faults, a payment gets paid, expires,
\* is canceled or fails in sight of the administrator.
PaymentSettles ==
  <>[](status \in Terminal \/ status = "client_selection_required")

\* A payment the customer made is recognised, by polling or by the callback, or
\* a stopped job tells of the failure.
PaidIsRecognised ==
  doc = "paid" ~> status = "paid" \/ \E j \in DOMAIN jobs : jobs[j].state \in Stopped

\* T20: a client the employee chose is not lost: while the choice waits to be
\* executed, nobody but its own run asks again.
KeepsSelection ==
  \A j \in DOMAIN jobs :
    jobs[j].action = "select" /\ jobs[j].state \in Active /\ run.job # j =>
      status' = status \/ status' # "client_selection_required"
SelectionKept == [][KeepsSelection]_vars
=============================================================================
