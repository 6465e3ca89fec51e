--------------------------- MODULE PaymentFencing ---------------------------
(***************************************************************************)
(* The fenced execution of one payment transaction: its durable jobs, the  *)
(* execution lease with its fencing token, the journal of external writes, *)
(* and the workers (stream consumers and the database fallback share one   *)
(* executor) that form the payment in the CRM.                             *)
(*                                                                         *)
(* Everything in payment_event_repository.py is keyed by the transaction,  *)
(* and "all owners lock payment -> job -> lease", so one transaction is    *)
(* the unit of interference; each database transaction is one action.      *)
(* Clocks are abstracted: a job may be claimed any time after it is        *)
(* created, and a live lease may expire at any moment (its heartbeat was   *)
(* late); a heartbeat that succeeds leaves the lease live.                 *)
(*                                                                         *)
(* The work is a row of columns, each with the CRM writes that produce it. *)
(* A formation fills the columns of the form in order; of a payment that   *)
(* is already paid it completes the comment and the activity only.  The    *)
(* status check of a paid payment makes its own comment and activity.  A   *)
(* formation may also stop to ask which client is meant.  The commands     *)
(* cancel and resend are in PaymentLifecycle: their writes have scopes of  *)
(* their own.  So is what a delivery does before a claim (PaymentDelivery).*)
(***************************************************************************)
EXTENDS Naturals

CONSTANTS Worker,        \* executors: consumers and recovery loops
          None,          \* no owner, no write in hand
          NColumns,      \* columns of the payment row that record results
          Document,      \* the column of the payment document
          Audit,         \* formation comment and activity
          Paid,          \* paid comment and activity, of the status check
          Unrecorded,    \* what a status check does that no column records
          Write,         \* the CRM writes of the payment
          Field,         \* the column each of them belongs to
          Optional,      \* those the resolution of the client may not need
          MaxUnknown,    \* retries of a write with an unknown outcome (3)
          MaxRetries,    \* bx24_worker_max_retries
          MaxJobs,       \* bound: jobs ever created
          MaxToken       \* bound: claims ever granted

Column == 1..NColumns
Client == 1

\* The columns a formation fills while the payment is open.
Form == Column \ (Paid \cup Unrecorded)

ASSUME NoneAssumption == None \notin Worker /\ None \notin Write
ASSUME ColumnAssumption ==
  /\ NColumns \in Nat /\ Document \in Column /\ Client < Document
  /\ Audit \cup Paid \cup Unrecorded \subseteq Document + 1..NColumns
  /\ Audit \subseteq Form /\ Paid \cap Unrecorded = {}
ASSUME WriteAssumption == Field \in [Write -> Column] /\ Optional \subseteq Write
ASSUME RetryAssumption == MaxUnknown \in Nat /\ MaxRetries \in Nat
ASSUME BoundAssumption == MaxJobs \in Nat \ {0} /\ MaxToken \in Nat

VARIABLES
  \* the database
  nJobs,        \* jobs created so far; their ids are 1..nJobs
  jobKind, jobState, jobAttempt,
  leaseToken,   \* fencing_token of the lease row, 0 while there is no row
  leaseOwner,   \* owner of the lease row
  leaseLive,    \* lease_until > now
  journal,      \* state of the external-write row of each write
  journalToken, \* its fencing_token
  recorded,     \* the columns the payment row holds
  status,       \* the payment status, as far as execution looks at it
  \* the CRM and the network
  remote,       \* how many times each write took effect
  net,          \* requests on their way to the CRM
  \* the workers
  pc, claimJob, claimToken,
  view,         \* the columns of the worker's own copy of the row
  todo,         \* the unknown writes it read and has still to reconcile
  seen,         \* the writes this run made or found made
  target        \* the write in hand

dbVars     == <<nJobs, jobKind, jobState, jobAttempt>>
leaseVars  == <<leaseToken, leaseOwner, leaseLive>>
rowVars    == <<journal, journalToken>>
workVars   == <<view, todo, seen, target>>
workerVars == <<pc, claimJob, claimToken, workVars>>
vars == <<dbVars, leaseVars, rowVars, recorded, status, remote, net, workerVars>>

-----------------------------------------------------------------------------
Job  == 1..MaxJobs
Kind == {"formation", "reconciliation"}
ActiveStates  == {"ready", "running"}
StoppedStates == {"failed", "needs_reconciliation"}
JobStates == {"none", "completed", "superseded"} \cup ActiveStates \cup StoppedStates
JournalStates == {"none", "prepared", "in_flight", "confirmed"}
PcStates == {"idle", "opened", "recovering", "working", "sending", "waiting",
             "applied", "rejected", "done", "unknown", "broken"}
StatusValues == {"open", "choosing", "failed", "closed", "paid"}
Request == [write : Write, token : 1..MaxToken]

\* Statuses a failed job or an expiry may still change: the payment is neither
\* final nor failed; a "choosing" one waits for the employee to pick a client.
Unsettled == {"open", "choosing"}

\* Ownership as owns_in_session decides it: owner and token match, lease live.
Owns(w) ==
  /\ leaseLive
  /\ leaseOwner = w
  /\ leaseToken = claimToken[w]

\* The columns a run is to fill: all of the form, only the comment and activity
\* of a formation that a payment overtook, or what a status check adds to a
\* payment that is paid.
Plan(w) ==
  LET kind == jobKind[claimJob[w]] IN
  {c \in Column :
     \/ kind = "formation" /\ status = "open" /\ c \in Form
     \/ kind = "formation" /\ status = "paid" /\ c \in Audit
     \/ kind = "reconciliation" /\ status = "paid" /\ c \in Paid \cup Unrecorded}

\* What its own copy of the row says is still to be filled.
Missing(w) == Plan(w) \ view[w]

\* The worker has come to column c: everything before it is filled.
AtColumn(w, c) ==
  /\ pc[w] = "working"
  /\ c \in Missing(w)
  /\ \A d \in Missing(w) : c <= d
  /\ Owns(w)

\* Active jobs of a kind, in the state the jobs have after an update.
ActiveJobs(kind, states) ==
  {j \in 1..nJobs : jobKind[j] = kind /\ states[j] \in ActiveStates}

\* The polling chains: active reconciliation jobs.
Polls == ActiveJobs("reconciliation", jobState)

-----------------------------------------------------------------------------
\* create_payment commits the payment row and its first formation job together.
Init ==
  /\ nJobs = 1
  /\ jobKind = [j \in Job |-> "formation"]
  /\ jobState = [j \in Job |-> IF j = 1 THEN "ready" ELSE "none"]
  /\ jobAttempt = [j \in Job |-> 0]
  /\ leaseToken = 0
  /\ leaseOwner = None
  /\ leaseLive = FALSE
  /\ journal = [i \in Write |-> "none"]
  /\ journalToken = [i \in Write |-> 0]
  /\ recorded = {}
  /\ status = "open"
  /\ remote = [i \in Write |-> 0]
  /\ net = {}
  /\ pc = [w \in Worker |-> "idle"]
  /\ claimJob = [w \in Worker |-> 0]
  /\ claimToken = [w \in Worker |-> 0]
  /\ view = [w \in Worker |-> {}]
  /\ todo = [w \in Worker |-> {}]
  /\ seen = [w \in Worker |-> {}]
  /\ target = [w \in Worker |-> None]

\* enqueue_in_session: a further job of the payment; base is the state of the
\* jobs after whatever else the transaction does to them.
Enqueue(kind, attempt, base) ==
  /\ nJobs < MaxJobs
  /\ nJobs' = nJobs + 1
  /\ jobKind' = [jobKind EXCEPT ![nJobs + 1] = kind]
  /\ jobState' = [base EXCEPT ![nJobs + 1] = "ready"]
  /\ jobAttempt' = [jobAttempt EXCEPT ![nJobs + 1] = attempt]

\* A worker takes the job: no live lease, and the token grows by one.
Claim(w, j) ==
  /\ pc[w] = "idle"
  /\ j <= nJobs
  /\ jobState[j] \in ActiveStates
  /\ ~leaseLive
  /\ leaseToken < MaxToken
  /\ leaseToken' = leaseToken + 1
  /\ leaseOwner' = w
  /\ leaseLive' = TRUE
  /\ jobState' = [jobState EXCEPT ![j] = "running"]
  /\ pc' = [pc EXCEPT ![w] = "opened"]
  /\ claimJob' = [claimJob EXCEPT ![w] = j]
  /\ claimToken' = [claimToken EXCEPT ![w] = leaseToken + 1]
  /\ UNCHANGED <<nJobs, jobKind, jobAttempt, rowVars, recorded, status,
                 remote, net, workVars>>

\* The lease runs out while its owner is slow, paused or dead.
LeaseExpires ==
  /\ leaseLive
  /\ leaseLive' = FALSE
  /\ UNCHANGED <<dbVars, leaseToken, leaseOwner, rowVars, recorded, status,
                 remote, net, workerVars>>

\* An execution ends: the claim and everything the worker read are gone.
Forget(w) ==
  /\ pc' = [pc EXCEPT ![w] = "idle"]
  /\ claimJob' = [claimJob EXCEPT ![w] = 0]
  /\ claimToken' = [claimToken EXCEPT ![w] = 0]
  /\ view' = [view EXCEPT ![w] = {}]
  /\ todo' = [todo EXCEPT ![w] = {}]
  /\ seen' = [seen EXCEPT ![w] = {}]
  /\ target' = [target EXCEPT ![w] = None]

\* The worker dies, or raises PaymentLeaseLost (a failed heartbeat or a refused
\* call), and forgets its claim; its request may still be on the way.
Abandon(w) ==
  /\ pc[w] # "idle"
  /\ Forget(w)
  /\ UNCHANGED <<dbVars, leaseVars, rowVars, recorded, status, remote, net>>

-----------------------------------------------------------------------------
\* perform reads the writes whose outcome nobody knows.
LoadUnknownWrites(w) ==
  /\ pc[w] = "opened"
  /\ todo' = [todo EXCEPT ![w] = {i \in Write : journal[i] = "in_flight"}]
  /\ pc' = [pc EXCEPT ![w] = "recovering"]
  /\ UNCHANGED <<dbVars, leaseVars, rowVars, recorded, status, remote, net,
                 claimJob, claimToken, view, seen, target>>

\* Mutant of RecoverWrite: absence in the CRM is taken for success.
RecoverUnseen(w, i) ==
  /\ pc[w] = "recovering" /\ i \in todo[w] /\ Owns(w)
  /\ journal' = [journal EXCEPT ![i] = "confirmed"]
  /\ journalToken' = [journalToken EXCEPT ![i] = claimToken[w]]
  /\ todo' = [todo EXCEPT ![w] = @ \ {i}]
  /\ UNCHANGED <<dbVars, leaseVars, recorded, status, remote, net,
                 pc, claimJob, claimToken, view, seen, target>>

\* The CRM shows the entity of an unknown write: confirm_recovered.
RecoverWrite(w, i) ==
  /\ pc[w] = "recovering"
  /\ i \in todo[w]
  /\ remote[i] = 1
  /\ Owns(w)
  /\ journal' = [journal EXCEPT ![i] = "confirmed"]
  /\ journalToken' = [journalToken EXCEPT ![i] = claimToken[w]]
  /\ todo' = [todo EXCEPT ![w] = @ \ {i}]
  /\ UNCHANGED <<dbVars, leaseVars, recorded, status, remote, net,
                 pc, claimJob, claimToken, view, seen, target>>

\* The CRM does not show it, or not unambiguously; absence is no proof.
RecoveryInconclusive(w) ==
  /\ pc[w] = "recovering"
  /\ todo[w] # {}
  /\ pc' = [pc EXCEPT ![w] = "unknown"]
  /\ UNCHANGED <<dbVars, leaseVars, rowVars, recorded, status, remote, net,
                 claimJob, claimToken, workVars>>

\* Nothing left to reconcile: the job's own work starts from a fresh row.
StartWork(w) ==
  /\ pc[w] = "recovering"
  /\ todo[w] = {}
  /\ view' = [view EXCEPT ![w] = recorded]
  /\ pc' = [pc EXCEPT ![w] = "working"]
  /\ UNCHANGED <<dbVars, leaseVars, rowVars, recorded, status, remote, net,
                 claimJob, claimToken, todo, seen, target>>

\* perform closes a payment that reached its expiry without a document.
FormationExpires(w) ==
  /\ pc[w] = "recovering"
  /\ todo[w] = {}
  /\ jobKind[claimJob[w]] = "formation"
  /\ status \in Unsettled
  /\ Document \notin recorded
  /\ Owns(w)
  /\ status' = "closed"
  /\ pc' = [pc EXCEPT ![w] = "done"]
  /\ UNCHANGED <<dbVars, leaseVars, rowVars, recorded, remote, net,
                 claimJob, claimToken, workVars>>

\* A write of the column the worker has come to, in the order the CRM's answers
\* call for.
Due(w, i) ==
  /\ AtColumn(w, Field[i])
  /\ i \notin seen[w]

\* The lookup before a write finds its entity in the CRM; nothing is written.
FindExisting(w, i) ==
  /\ Due(w, i)
  /\ remote[i] = 1
  /\ seen' = [seen EXCEPT ![w] = @ \cup {i}]
  /\ UNCHANGED <<dbVars, leaseVars, rowVars, recorded, status, remote, net,
                 pc, claimJob, claimToken, view, todo, target>>

\* begin_write: a confirmed row answers from the journal.
AnswerFromJournal(w, i) ==
  /\ Due(w, i)
  /\ journal[i] = "confirmed"
  /\ seen' = [seen EXCEPT ![w] = @ \cup {i}]
  /\ UNCHANGED <<dbVars, leaseVars, rowVars, recorded, status, remote, net,
                 pc, claimJob, claimToken, view, todo, target>>

\* begin_write: an unknown outcome is never repeated, anything else that is not
\* confirmed is announced before it is sent.
BeginWrite(w, i) ==
  /\ Due(w, i)
  /\ \/ /\ journal[i] = "in_flight"
        /\ pc' = [pc EXCEPT ![w] = "unknown"]
        /\ UNCHANGED <<rowVars, target>>
     \/ /\ journal[i] \in {"none", "prepared"}
        /\ journal' = [journal EXCEPT ![i] = "in_flight"]
        /\ journalToken' = [journalToken EXCEPT ![i] = claimToken[w]]
        /\ target' = [target EXCEPT ![w] = i]
        /\ pc' = [pc EXCEPT ![w] = "sending"]
  /\ UNCHANGED <<dbVars, leaseVars, recorded, status, remote, net,
                 claimJob, claimToken, view, todo, seen>>

\* The request leaves.  The ownership check that precedes it is a separate
\* read: the lease may have expired in between, so there is no guard here.
Send(w) ==
  /\ pc[w] = "sending"
  /\ net' = net \cup {[write |-> target[w], token |-> claimToken[w]]}
  /\ pc' = [pc EXCEPT ![w] = "waiting"]
  /\ UNCHANGED <<dbVars, leaseVars, rowVars, recorded, status, remote,
                 claimJob, claimToken, workVars>>

\* The worker, if any, that still waits for the answer to a request.
Awaits(w, r) ==
  /\ pc[w] = "waiting"
  /\ claimToken[w] = r.token
  /\ target[w] = r.write

\* The CRM executes the request; a late one finds nobody waiting.
RemoteApply(r) ==
  /\ r \in net
  /\ net' = net \ {r}
  /\ remote' = [remote EXCEPT ![r.write] = @ + 1]
  /\ pc' = [w \in Worker |-> IF Awaits(w, r) THEN "applied" ELSE pc[w]]
  /\ UNCHANGED <<dbVars, leaseVars, rowVars, recorded, status,
                 claimJob, claimToken, workVars>>

\* The CRM refuses the request: a definite error code, so nothing happened.
RemoteReject(r) ==
  /\ r \in net
  /\ net' = net \ {r}
  /\ pc' = [w \in Worker |-> IF Awaits(w, r) THEN "rejected" ELSE pc[w]]
  /\ UNCHANGED <<dbVars, leaseVars, rowVars, recorded, status, remote,
                 claimJob, claimToken, workVars>>

\* The request is lost on the way.
RequestLost(r) ==
  /\ r \in net
  /\ net' = net \ {r}
  /\ UNCHANGED <<dbVars, leaseVars, rowVars, recorded, status, remote,
                 workerVars>>

\* Mutant of NoAnswer: a lost answer is handled like a definite rejection.
NoAnswerRejected(w) ==
  /\ pc[w] \in {"waiting", "applied"}
  /\ pc' = [pc EXCEPT ![w] = "rejected"]
  /\ UNCHANGED <<dbVars, leaseVars, rowVars, recorded, status, remote, net,
                 claimJob, claimToken, workVars>>

\* A timeout, a network error, a 5xx or an unreadable answer: the write may or
\* may not have happened, or happen later, and its row stays in flight.
NoAnswer(w) ==
  /\ pc[w] \in {"waiting", "applied"}
  /\ pc' = [pc EXCEPT ![w] = "broken"]
  /\ UNCHANGED <<dbVars, leaseVars, rowVars, recorded, status, remote, net,
                 claimJob, claimToken, workVars>>

-----------------------------------------------------------------------------
\* The rows confirm_write and reject_write update: only the row of this claim.
SetOwnRow(w, state) ==
  journal' = [journal EXCEPT ![target[w]] =
                IF journalToken[target[w]] = claimToken[w] THEN state ELSE @]

ConfirmWrite(w) ==
  /\ pc[w] = "applied"
  /\ Owns(w)
  /\ SetOwnRow(w, "confirmed")
  /\ seen' = [seen EXCEPT ![w] = @ \cup {target[w]}]
  /\ target' = [target EXCEPT ![w] = None]
  /\ pc' = [pc EXCEPT ![w] = "working"]
  /\ UNCHANGED <<dbVars, leaseVars, journalToken, recorded, status, remote, net,
                 claimJob, claimToken, view, todo>>

\* A definite rejection makes the write repeatable; the error still ends the job.
RejectWrite(w) ==
  /\ pc[w] = "rejected"
  /\ Owns(w)
  /\ SetOwnRow(w, "prepared")
  /\ pc' = [pc EXCEPT ![w] = "broken"]
  /\ UNCHANGED <<dbVars, leaseVars, journalToken, recorded, status, remote, net,
                 claimJob, claimToken, workVars>>

\* Mutant of StoreResult: the row is updated without checking the lease.
StoreUnfenced(w, c) ==
  /\ pc[w] = "working"
  /\ c \in Missing(w)
  /\ \A d \in Missing(w) : c <= d
  /\ \A i \in Write \ Optional : Field[i] = c => i \in seen[w]
  /\ recorded' = recorded \cup ({c} \ Unrecorded)
  /\ view' = [view EXCEPT ![w] = @ \cup {c}]
  /\ seen' = [seen EXCEPT ![w] = {}]
  /\ UNCHANGED <<dbVars, leaseVars, rowVars, status, remote, net,
                 pc, claimJob, claimToken, todo, target>>

\* repository.update: the fenced store of a column, once its writes are made.
StoreResult(w, c) ==
  /\ AtColumn(w, c)
  /\ \A i \in Write \ Optional : Field[i] = c => i \in seen[w]
  /\ recorded' = recorded \cup ({c} \ Unrecorded)
  /\ view' = [view EXCEPT ![w] = @ \cup {c}]
  /\ seen' = [seen EXCEPT ![w] = {}]
  /\ UNCHANGED <<dbVars, leaseVars, rowVars, status, remote, net,
                 pc, claimJob, claimToken, todo, target>>

\* AmbiguousClient: the resolution, perhaps after some of its writes, cannot go
\* on without the employee; the payment waits for a choice and the run is over.
FormationAsks(w) ==
  /\ AtColumn(w, Client)
  /\ status' = "choosing"
  /\ pc' = [pc EXCEPT ![w] = "done"]
  /\ UNCHANGED <<dbVars, leaseVars, rowVars, recorded, remote, net,
                 claimJob, claimToken, workVars>>

\* process, or handle for a paid payment, has nothing (more) to do: its columns
\* are filled, or the payment waits for a choice, is failed or is final.
WorkReturns(w) ==
  /\ pc[w] = "working"
  /\ jobKind[claimJob[w]] = "formation" \/ status = "paid"
  /\ Missing(w) = {}
  /\ pc' = [pc EXCEPT ![w] = "done"]
  /\ UNCHANGED <<dbVars, leaseVars, rowVars, recorded, status, remote, net,
                 claimJob, claimToken, workVars>>

\* handle reads the payment in the CRM: it is paid, whatever the row said, and
\* the run goes on with its comment and activity; or it is not, and is closed
\* when it is late and neither final nor failed.
CheckStatus(w) ==
  /\ pc[w] = "working"
  /\ jobKind[claimJob[w]] = "reconciliation"
  /\ status # "paid"
  /\ Owns(w)
  /\ \/ status' = "paid" /\ UNCHANGED pc
     \/ /\ \/ status' = status
           \/ (status \in Unsettled /\ status' = "closed")
        /\ pc' = [pc EXCEPT ![w] = "done"]
  /\ UNCHANGED <<dbVars, leaseVars, rowVars, recorded, remote, net,
                 claimJob, claimToken, workVars>>

\* A read of the CRM fails, or the CRM answers something unusable.
ReadFails(w) ==
  /\ pc[w] \in {"recovering", "working"}
  /\ pc' = [pc EXCEPT ![w] = "broken"]
  /\ UNCHANGED <<dbVars, leaseVars, rowVars, recorded, status, remote, net,
                 claimJob, claimToken, workVars>>

-----------------------------------------------------------------------------
\* finish: closes the claimed job, queues what follows it and lets the lease go.
\* It does nothing for a worker that lost ownership, or whose job is not running.
MayFinish(w) ==
  /\ Owns(w)
  /\ jobState[claimJob[w]] = "running"

Release(w) ==
  /\ leaseLive' = FALSE
  /\ Forget(w)
  /\ UNCHANGED <<leaseToken, leaseOwner, rowVars, recorded, remote, net>>

\* Mutant of FollowUp: no look at the polling chain that already exists.
FollowUpAlways(kind, attempt, base) == Enqueue(kind, attempt, base)

\* Mutant of FollowUp: the search for an active job still sees the closing one.
FollowUpSeesItself(kind, attempt, base) ==
  IF kind = "reconciliation" /\ ActiveJobs(kind, jobState) # {}
  THEN jobState' = base /\ UNCHANGED <<nJobs, jobKind, jobAttempt>>
  ELSE Enqueue(kind, attempt, base)

\* The next job of a kind, except that an active reconciliation job already
\* continues the polling: a failed attempt only hands its attempt count to it.
FollowUp(kind, attempt, base) ==
  LET queued == IF kind = "reconciliation" THEN ActiveJobs(kind, base) ELSE {} IN
  IF queued = {}
  THEN Enqueue(kind, attempt, base)
  ELSE LET oldest == CHOOSE j \in queued : \A k \in queued : j <= k IN
       /\ jobState' = base
       /\ jobAttempt' = [jobAttempt EXCEPT ![oldest] =
                           IF attempt > @ THEN attempt ELSE @]
       /\ UNCHANGED <<nJobs, jobKind>>

\* What is left to do of a payment with a document when a job is done: an open
\* one keeps being polled, a paid one gets its comment and activity.
NeedsCheck ==
  /\ Document \in recorded
  /\ \/ status \in Unsettled
     \/ status = "paid" /\ ~(Paid \subseteq recorded)

FinishDone(w) ==
  /\ pc[w] = "done"
  /\ MayFinish(w)
  /\ LET base == [jobState EXCEPT ![claimJob[w]] = "completed"] IN
     IF NeedsCheck
     THEN FollowUp("reconciliation", 0, base)
     ELSE jobState' = base /\ UNCHANGED <<nJobs, jobKind, jobAttempt>>
  /\ UNCHANGED status
  /\ Release(w)

\* The job failed: a bounded number of attempts, then it stops for an operator
\* and the payment, unless it is final, is failed.
FinishFailed(w, limit, stopped) ==
  /\ MayFinish(w)
  /\ LET j == claimJob[w]
         attempt == jobAttempt[j] + 1
     IN  \/ /\ attempt <= limit
            /\ FollowUp(jobKind[j], attempt, [jobState EXCEPT ![j] = "superseded"])
            /\ UNCHANGED status
         \/ /\ attempt > limit
            /\ jobState' = [jobState EXCEPT ![j] = stopped]
            /\ status' = IF status \in Unsettled THEN "failed" ELSE status
            /\ UNCHANGED <<nJobs, jobKind, jobAttempt>>
  /\ Release(w)

FinishUnknown(w) ==
  pc[w] = "unknown" /\ FinishFailed(w, MaxUnknown, "needs_reconciliation")

FinishBroken(w) ==
  pc[w] = "broken" /\ FinishFailed(w, MaxRetries, "failed")

\* retry_in_session, behind both the admin retry and the admin resume: the
\* stopped job is replaced by one of the same kind with a fresh attempt budget.
AdminRetry(j) ==
  /\ j <= nJobs
  /\ jobState[j] \in StoppedStates
  /\ ~leaseLive
  /\ Enqueue(jobKind[j], 0, [jobState EXCEPT ![j] = "superseded"])
  /\ status' = IF status = "failed" THEN "open" ELSE status
  /\ UNCHANGED <<leaseVars, rowVars, recorded, remote, net, workerVars>>

\* queue_command: the employee picks a client, which queues a formation with the
\* choice; nothing here looks at the lease.
SelectClient ==
  /\ status = "choosing"
  /\ Enqueue("formation", 0, jobState)
  /\ status' = "open"
  /\ UNCHANGED <<leaseVars, rowVars, recorded, remote, net, workerVars>>

\* receive_callback for a known payment document: a job that is only queued
\* absorbs the callback, a running one does not.
Callback ==
  /\ Document \in recorded
  /\ ~\E j \in 1..nJobs : jobKind[j] = "reconciliation" /\ jobState[j] = "ready"
  /\ Enqueue("reconciliation", 0, jobState)
  /\ UNCHANGED <<leaseVars, rowVars, recorded, status, remote, net, workerVars>>

-----------------------------------------------------------------------------
Finish(w) == FinishDone(w) \/ FinishUnknown(w) \/ FinishBroken(w)

Recover(w) ==
  \/ LoadUnknownWrites(w)
  \/ \E i \in Write : RecoverWrite(w, i)
  \/ RecoveryInconclusive(w)
  \/ StartWork(w)
  \/ FormationExpires(w)

Work(w) ==
  \/ \E i \in Write : FindExisting(w, i) \/ AnswerFromJournal(w, i) \/ BeginWrite(w, i)
  \/ Send(w)
  \/ NoAnswer(w)
  \/ ConfirmWrite(w)
  \/ RejectWrite(w)
  \/ \E c \in Column : StoreResult(w, c)
  \/ FormationAsks(w)
  \/ WorkReturns(w)
  \/ CheckStatus(w)
  \/ ReadFails(w)

Crm(r) == RemoteApply(r) \/ RemoteReject(r) \/ RequestLost(r)

Next ==
  \/ \E w \in Worker : \E j \in Job : Claim(w, j)
  \/ \E w \in Worker : Abandon(w) \/ Recover(w) \/ Work(w) \/ Finish(w)
  \/ \E r \in net : Crm(r)
  \/ \E j \in Job : AdminRetry(j)
  \/ LeaseExpires
  \/ SelectClient
  \/ Callback

Spec == Init /\ [][Next]_vars

-----------------------------------------------------------------------------
\* Every variable holds a value of its kind.
TypeOK ==
  /\ nJobs \in 1..MaxJobs
  /\ jobKind \in [Job -> Kind]
  /\ jobState \in [Job -> JobStates]
  /\ jobAttempt \in [Job -> Nat]
  /\ leaseToken \in 0..MaxToken
  /\ leaseOwner \in Worker \cup {None}
  /\ leaseLive \in BOOLEAN
  /\ journal \in [Write -> JournalStates]
  /\ journalToken \in [Write -> 0..MaxToken]
  /\ recorded \subseteq Column \ Unrecorded
  /\ status \in StatusValues
  /\ remote \in [Write -> Nat]
  /\ net \subseteq Request
  /\ pc \in [Worker -> PcStates]
  /\ claimJob \in [Worker -> 0..MaxJobs]
  /\ claimToken \in [Worker -> 0..MaxToken]
  /\ view \in [Worker -> SUBSET Column]
  /\ todo \in [Worker -> SUBSET Write]
  /\ seen \in [Worker -> SUBSET Write]
  /\ target \in [Worker -> Write \cup {None}]

\* No write takes effect twice, although workers die between sending a request
\* and storing its answer, leases expire in mid-request, and a request may be
\* executed long after the worker that sent it gave up.  (payment_write_recovery:
\* "No blind write retries"; begin_write refuses a row that is in flight.)
AppliedAtMostOnce == \A i \in Write : remote[i] <= 1

\* The journal only ever confirms a write that took effect, and the payment row
\* only ever records a column whose writes did: nothing is skipped because of a
\* lost answer.
RecordedIsApplied ==
  /\ \A i \in Write : journal[i] = "confirmed" => remote[i] = 1
  /\ \A i \in Write \ Optional : Field[i] \in recorded => remote[i] = 1

\* Whoever owns the lease owns it for a job that is still running: finish never
\* meets the owner of a closed job, an administrator never replaces a job
\* somebody is executing.
OwnerRunsItsJob ==
  \A w \in Worker :
    pc[w] # "idle" /\ Owns(w) => jobState[claimJob[w]] = "running"

\* A payment that is neither final, failed nor waiting for the employee is never
\* forgotten: some job of it is queued or running, also when the employee picks
\* a client while the run that asked for it has not finished.  (payments.py:194:
\* the run that asks ends with no job to follow; until the choice comes, the
\* status is what shows the payment to the employee.)
WorkNotLost ==
  status = "open" => \E j \in 1..nJobs : jobState[j] \in ActiveStates

\* A failed payment always leaves a stopped job an administrator can retry.
FailedIsVisible ==
  status = "failed" => \E j \in 1..nJobs : jobState[j] \in StoppedStates

\* Closing a job, done or failed, either starts no reconciliation job or starts
\* the only active one.
PollsKept ==
  \A w \in Worker :
    Finish(w) => Polls' \subseteq Polls \/ Polls' = {nJobs'}

\* finish: "Do not create a second perpetual polling chain".
NoPollFork == [][PollsKept]_vars

\* The columns a column builds on: the whole form up to the document, and then
\* what the same plan fills before it.
Prior == [c \in Column |->
  {d \in Column \ Unrecorded :
     /\ d < c
     /\ \/ d <= Document
        \/ {c, d} \subseteq Audit
        \/ {c, d} \subseteq Paid \cup Unrecorded
        \/ {c, d} \subseteq Form /\ c \notin Audit}]

\* The engine keeps the promise of the CRM ledger.  Several writes may be made
\* before their column is recorded, a paid payment's comments are made by two
\* jobs and out of the form's order, and a client may be resolved twice; yet no
\* write is made before what it builds on, after its column or a second time.
Ledger == INSTANCE CrmLedger
LedgerSpec == Ledger!Spec

\* Acceptance row T18: the steps that are still missing "continue separately
\* from the status check".  Every unfinished formation has a formation job that
\* will continue it, or a stopped one that can be retried.
FormationNotForgotten ==
  status = "open" /\ ~(Form \subseteq recorded) =>
    \E j \in 1..nJobs : /\ jobKind[j] = "formation"
                        /\ jobState[j] \in ActiveStates \cup StoppedStates

=============================================================================
