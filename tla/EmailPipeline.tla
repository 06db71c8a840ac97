---------------------------- MODULE EmailPipeline ----------------------------
(* The path of one email: the API process stores it and enqueues a task        *)
(* (service.EmailService.Send), asynq hands the task to a worker, and the      *)
(* worker sends it (ProcessEmail).  Every call to Postgres, Redis or the       *)
(* provider is a step of its own, so that requests, attempts and failures      *)
(* interleave at the points where the program can really be interrupted.       *)
(*                                                                             *)
(* uuid.New() gives every request a fresh email id, so a request names the id  *)
(* it generates; likewise it names the task it enqueues, which asynq gives a   *)
(* fresh task id.                                                              *)
EXTENDS EmailRepository

CONSTANTS
  Requests,      \* calls of EmailService.Send: POST /send, or one of a bulk's
  KeyOf,         \* the idempotency_id of each request
  NoKey,         \* the empty idempotency_id
  Addresses,
  ToOf,          \* the recipient of each request
  MaxRetries,    \* MaxRetries: of the emails row and of the asynq task, 3
  ReturnsID,     \* does the provider return a message id (Resend yes, SMTP no)
  MaxOutages,    \* bound: calls to Postgres or Redis that fail
  MaxIncidents   \* bound: lost replies, timeouts, crashes and shutdowns

ASSUME MaxRetriesAssumption == MaxRetries \in Nat \ {0}
ASSUME AddressAssumption == ToOf \in [Requests -> Addresses]
ASSUME ReturnsIDAssumption == ReturnsID \in BOOLEAN
ASSUME BoundsAssumption == MaxOutages \in Nat /\ MaxIncidents \in Nat

\* An attempt of a task is named by the number of retries before it.
Attempts == 0..MaxRetries

VARIABLES
  api,           \* api[r]: where request r is, the row it works on, its answer
  emails,        \* the emails table
  suppressions,  \* the suppressions table
  task,          \* task[r]: the asynq task r enqueued
  run,           \* run[r][n]: the execution of attempt n of that task
  accepted,      \* accepted[r][n]: messages the provider took from it
  faults,        \* faults[r][n]: incidents that hit it
  outages, incidents  \* how many failures there have been

apiVars == <<api, suppressions>>
workVars == <<task, run, accepted, faults, incidents>>
vars == <<api, emails, suppressions, task, run, accepted, faults, outages,
          incidents>>

-----------------------------------------------------------------------------
ApiPcs == {"idle", "create", "enqueue", "markFailed", "markQueued",
           "done", "crashed"}
Answers == {"none", "suppressed", "queued", "duplicate", "error"}
TaskStates == {"none", "pending", "active", "completed", "archived"}

\* The steps of ProcessEmail, in their order, then its returns.
BeforeSend == {"GetByID", "MarkSending", "Send"}
AfterAccept == {"StoreID", "MarkSent", "ReturnOk"}
AfterError == {"IncrementRetry", "MarkFailure", "ReturnErr"}
Running == BeforeSend \union AfterAccept \union AfterError
RunPcs == Running \union {"idle", "returned", "lost"}

NewRequest(r) == [pc |-> "idle", email |-> r, answer |-> "none"]
NoTask(r) == [state |-> "none", email |-> r, retried |-> 0]
NoRun == [pc |-> "idle", ctx |-> "live", retryCount |-> 0, id |-> NoID]

Init ==
  /\ api = [r \in Requests |-> NewRequest(r)]
  /\ emails = [r \in Requests |-> AbsentRow]
  /\ suppressions \in SUBSET Addresses
  /\ task = [r \in Requests |-> NoTask(r)]
  /\ run = [r \in Requests |-> [n \in Attempts |-> NoRun]]
  /\ accepted = [r \in Requests |-> [n \in Attempts |-> 0]]
  /\ faults = [r \in Requests |-> [n \in Attempts |-> 0]]
  /\ outages = 0
  /\ incidents = 0

\* A call to Postgres or Redis fails.
Outage == outages < MaxOutages /\ outages' = outages + 1

\* An incident hits attempt n of r's task.
Incident(r, n) ==
  /\ incidents < MaxIncidents
  /\ incidents' = incidents + 1
  /\ faults' = [faults EXCEPT ![r][n] = @ + 1]

\* A statement whose error the caller ignores: it takes the table to "after",
\* also when only its reply is lost, or it fails and leaves the table alone.
Attempted(after) ==
  \/ emails' = after /\ UNCHANGED outages
  \/ Outage /\ UNCHANGED emails

-----------------------------------------------------------------------------
(* EmailService.Send, in the API process *)

Goto(r, pc) == api' = [api EXCEPT ![r] = [@ EXCEPT !.pc = pc]]
Respond(r, answer) ==
  api' = [api EXCEPT ![r] = [@ EXCEPT !.pc = "done", !.answer = answer]]

\* IsSuppressed; when the check itself fails the send goes on.
CheckSuppressed(r) ==
  /\ api[r].pc = "idle"
  /\ \/ /\ ToOf[r] \in suppressions
        /\ Respond(r, "suppressed")
        /\ UNCHANGED outages
     \/ /\ ToOf[r] \notin suppressions
        /\ Goto(r, "create")
        /\ UNCHANGED outages
     \/ /\ Outage
        /\ Goto(r, "create")
  /\ UNCHANGED <<emails, suppressions, workVars>>

\* The template does not render, or the result has no subject or no body.
RejectContent(r) ==
  /\ api[r].pc = "create"
  /\ Respond(r, "error")
  /\ UNCHANGED <<emails, suppressions, outages, workVars>>

\* Mutant: no UNIQUE constraint on idempotency_id.
NoConflicts(r) == {}

\* The stored rows that conflict with the INSERT of request r.
Conflicts(r) ==
  {e \in Requests : Stored(emails, e) /\ KeyOf[e] = KeyOf[r] /\ KeyOf[r] # NoKey}

\* Mutant: a duplicate is not answered at once, but enqueued as well.
CreateOrGetGoesOn(r) ==
  /\ api[r].pc = "create"
  /\ \/ \E e \in Conflicts(r) :
          /\ api' = [api EXCEPT ![r] = [@ EXCEPT !.pc = "enqueue", !.email = e]]
          /\ UNCHANGED emails
     \/ /\ Conflicts(r) = {}
        /\ emails' = Create(emails, r)
        /\ Goto(r, "enqueue")
  /\ UNCHANGED <<suppressions, outages, workVars>>

\* CreateOrGetByIdempotencyID.  Rows are never deleted, so the INSERT that
\* conflicts and the SELECT that follows it act as one step.  An INSERT that
\* reports an error may have been committed.
CreateOrGet(r) ==
  /\ api[r].pc = "create"
  /\ \/ \E e \in Conflicts(r) :
          /\ api' = [api EXCEPT ![r] =
                       [pc |-> "done", email |-> e, answer |-> "duplicate"]]
          /\ UNCHANGED <<emails, outages>>
     \/ /\ Conflicts(r) = {}
        /\ emails' = Create(emails, r)
        /\ Goto(r, "enqueue")
        /\ UNCHANGED outages
     \/ /\ Outage
        /\ Respond(r, "error")
        /\ \/ Conflicts(r) = {} /\ emails' = Create(emails, r)
           \/ UNCHANGED emails
  /\ UNCHANGED <<suppressions, workVars>>

\* asynq stores the task under a fresh task id.
AddTask(r) ==
  task' = [task EXCEPT ![r] =
             [state |-> "pending", email |-> api[r].email, retried |-> 0]]

\* Mutant: the error of enqueue is not looked at.
EnqueueUnchecked(r) ==
  /\ api[r].pc = "enqueue"
  /\ Goto(r, "markQueued")
  /\ \/ AddTask(r) /\ UNCHANGED outages
     \/ Outage /\ UNCHANGED task
  /\ UNCHANGED <<emails, suppressions, run, accepted, faults, incidents>>

\* enqueue.  Redis may take the task and lose the reply.
Enqueue(r) ==
  /\ api[r].pc = "enqueue"
  /\ \/ /\ AddTask(r)
        /\ Goto(r, "markQueued")
        /\ UNCHANGED outages
     \/ /\ Outage
        /\ Goto(r, "markFailed")
        /\ AddTask(r) \/ UNCHANGED task
  /\ UNCHANGED <<emails, suppressions, run, accepted, faults, incidents>>

\* Mutant: the row is marked, but the error is not returned.
MarkFailedSilently(r) ==
  /\ api[r].pc = "markFailed"
  /\ Attempted(UpdateStatus(emails, api[r].email, "failed"))
  /\ Respond(r, "queued")
  /\ UNCHANGED <<suppressions, workVars>>

MarkFailed(r) ==
  /\ api[r].pc = "markFailed"
  /\ Attempted(UpdateStatus(emails, api[r].email, "failed"))
  /\ Respond(r, "error")
  /\ UNCHANGED <<suppressions, workVars>>

MarkQueued(r) ==
  /\ api[r].pc = "markQueued"
  /\ Attempted(UpdateStatus(emails, api[r].email, "queued"))
  /\ Respond(r, "queued")
  /\ UNCHANGED <<suppressions, workVars>>

\* The API process dies inside the request, which then has no answer.
ApiCrash(r) ==
  /\ api[r].pc \in {"create", "enqueue", "markFailed", "markQueued"}
  /\ Goto(r, "crashed")
  /\ UNCHANGED <<emails, suppressions, outages, workVars>>

-----------------------------------------------------------------------------
(* asynq, for a task made with MaxRetry(MaxRetries) *)

\* Mutants: a task that is retried for ever, and one that is archived one
\* attempt too early.
RetryForever(r) ==
  task' = [task EXCEPT ![r] =
             [@ EXCEPT !.state = "pending", !.retried = task[r].retried + 1]]

ArchiveTooEarly(r) ==
  task' = [task EXCEPT ![r] =
             IF task[r].retried + 1 >= MaxRetries
             THEN [@ EXCEPT !.state = "archived"]
             ELSE [@ EXCEPT !.state = "pending", !.retried = task[r].retried + 1]]

\* What asynq does with a task whose attempt failed.
RetryOrArchive(r) ==
  task' = [task EXCEPT ![r] =
             IF task[r].retried >= MaxRetries
             THEN [@ EXCEPT !.state = "archived"]
             ELSE [@ EXCEPT !.state = "pending", !.retried = task[r].retried + 1]]

Complete(r) == task' = [task EXCEPT ![r] = [@ EXCEPT !.state = "completed"]]

\* The execution of attempt n becomes "new".
SetRun(r, n, new) == run' = [run EXCEPT ![r][n] = new]
Step(r, n, pc) == SetRun(r, n, [run[r][n] EXCEPT !.pc = pc])

\* A free worker takes the task and calls ProcessTask.  The delay before a
\* retry is left out.
Dequeue(r) ==
  /\ task[r].state = "pending"
  /\ task' = [task EXCEPT ![r] = [@ EXCEPT !.state = "active"]]
  /\ SetRun(r, task[r].retried, [NoRun EXCEPT !.pc = "GetByID"])
  /\ UNCHANGED <<apiVars, emails, accepted, faults, outages, incidents>>

Live(r, n) == run[r][n].pc \in Running /\ run[r][n].ctx = "live"

\* The 30 s of the task are over: asynq counts the attempt as failed and
\* abandons the goroutine, which runs on with a context that has ended.
Timeout(r, n) ==
  /\ Live(r, n)
  /\ SetRun(r, n, [run[r][n] EXCEPT !.ctx = "ended"])
  /\ RetryOrArchive(r)
  /\ Incident(r, n)
  /\ UNCHANGED <<apiVars, emails, accepted, outages>>

\* The worker process dies under the attempt; asynq still holds its lease.
WorkerCrash(r, n) ==
  /\ run[r][n].pc \in Running
  /\ Step(r, n, "lost")
  /\ Incident(r, n)
  /\ UNCHANGED <<apiVars, emails, task, accepted, outages>>

\* The lease of a lost attempt expires.
Recover(r) ==
  /\ task[r].state = "active"
  /\ run[r][task[r].retried].pc = "lost"
  /\ RetryOrArchive(r)
  /\ UNCHANGED <<apiVars, emails, run, accepted, faults, outages, incidents>>

\* Mutant: the task is not put back.
ShutdownKeepsTask(r, n) ==
  /\ Live(r, n)
  /\ SetRun(r, n, NoRun)
  /\ Incident(r, n)
  /\ UNCHANGED <<apiVars, emails, task, accepted, outages>>

\* srv.Shutdown: the attempt does not end in time, its task goes back to the
\* queue as it was, and the process exits.
Shutdown(r, n) ==
  /\ Live(r, n)
  /\ task' = [task EXCEPT ![r] = [@ EXCEPT !.state = "pending"]]
  /\ SetRun(r, n, NoRun)
  /\ Incident(r, n)
  /\ UNCHANGED <<apiVars, emails, accepted, outages>>

-----------------------------------------------------------------------------
(* EmailService.ProcessEmail, in a worker *)

\* A statement of attempt n on its row, with the attempt's context.
AttemptedBy(r, n, after) ==
  IF run[r][n].ctx = "live" THEN Attempted(after) ELSE UNCHANGED <<emails, outages>>

GetByID(r, n) ==
  /\ run[r][n].pc = "GetByID"
  /\ \/ /\ run[r][n].ctx = "live"
        /\ SetRun(r, n, [run[r][n] EXCEPT !.pc = "MarkSending",
                           !.retryCount = emails[task[r].email].retryCount])
        /\ UNCHANGED outages
     \/ /\ IF run[r][n].ctx = "live" THEN Outage ELSE UNCHANGED outages
        /\ Step(r, n, "ReturnErr")
  /\ UNCHANGED <<apiVars, emails, task, accepted, faults, incidents>>

\* Mutant: the attempt is counted when it begins, too.
MarkSendingCounted(r, n) ==
  /\ run[r][n].pc = "MarkSending"
  /\ AttemptedBy(r, n,
       IncrementRetry(UpdateStatus(emails, task[r].email, "sending"), task[r].email))
  /\ Step(r, n, "Send")
  /\ UNCHANGED <<apiVars, task, accepted, faults, incidents>>

MarkSending(r, n) ==
  /\ run[r][n].pc = "MarkSending"
  /\ AttemptedBy(r, n, UpdateStatus(emails, task[r].email, "sending"))
  /\ Step(r, n, "Send")
  /\ UNCHANGED <<apiVars, task, accepted, faults, incidents>>

\* The id the provider returns with the message it takes now.
ProviderID(r, n) == IF ReturnsID THEN <<r, n, accepted[r][n] + 1>> ELSE NoID

\* Mutant: the error of sender.Send is not looked at.
SendUnchecked(r, n) ==
  /\ run[r][n].pc = "Send"
  /\ Step(r, n, "MarkSent")
  /\ accepted' = [accepted EXCEPT ![r][n] = @ + 1] \/ UNCHANGED accepted
  /\ UNCHANGED <<apiVars, emails, task, faults, outages, incidents>>

\* sender.Send, which does not look at the context.  The provider takes the
\* message, takes it and the reply is lost or unreadable, or refuses it.
Send(r, n) ==
  /\ run[r][n].pc = "Send"
  /\ \/ /\ accepted' = [accepted EXCEPT ![r][n] = @ + 1]
        /\ SetRun(r, n, [run[r][n] EXCEPT
                           !.pc = IF ReturnsID THEN "StoreID" ELSE "MarkSent",
                           !.id = ProviderID(r, n)])
        /\ UNCHANGED <<faults, incidents>>
     \/ /\ accepted' = [accepted EXCEPT ![r][n] = @ + 1]
        /\ Step(r, n, "IncrementRetry")
        /\ Incident(r, n)
     \/ /\ Step(r, n, "IncrementRetry")
        /\ UNCHANGED <<accepted, faults, incidents>>
  /\ UNCHANGED <<apiVars, emails, task, outages>>

\* The row's count goes up; so does the copy that GetByID read.
IncrementRetryCount(r, n) ==
  /\ run[r][n].pc = "IncrementRetry"
  /\ AttemptedBy(r, n, IncrementRetry(emails, task[r].email))
  /\ SetRun(r, n, [run[r][n] EXCEPT !.pc = "MarkFailure", !.retryCount = @ + 1])
  /\ UNCHANGED <<apiVars, task, accepted, faults, incidents>>

\* Failed or back to queued, by the copy of retry_count.
MarkFailure(r, n) ==
  /\ run[r][n].pc = "MarkFailure"
  /\ AttemptedBy(r, n, UpdateStatus(emails, task[r].email,
       IF run[r][n].retryCount >= MaxRetries THEN "failed" ELSE "queued"))
  /\ Step(r, n, "ReturnErr")
  /\ UNCHANGED <<apiVars, task, accepted, faults, incidents>>

StoreProviderID(r, n) ==
  /\ run[r][n].pc = "StoreID"
  /\ AttemptedBy(r, n, UpdateResendEmailID(emails, task[r].email, run[r][n].id))
  /\ Step(r, n, "MarkSent")
  /\ UNCHANGED <<apiVars, task, accepted, faults, incidents>>

\* Mutant: ProcessEmail returns the error of MarkSent.
MarkSentOrFail(r, n) ==
  /\ run[r][n].pc = "MarkSent"
  /\ \/ /\ emails' = MarkSent(emails, task[r].email)
        /\ Step(r, n, "ReturnOk")
        /\ UNCHANGED outages
     \/ Outage /\ Step(r, n, "ReturnErr") /\ UNCHANGED emails
  /\ UNCHANGED <<apiVars, task, accepted, faults, incidents>>

MarkAsSent(r, n) ==
  /\ run[r][n].pc = "MarkSent"
  /\ AttemptedBy(r, n, MarkSent(emails, task[r].email))
  /\ Step(r, n, "ReturnOk")
  /\ UNCHANGED <<apiVars, task, accepted, faults, incidents>>

\* ProcessTask returns nil or an error.  asynq listens only to an attempt
\* that it has not abandoned.
Return(r, n) ==
  /\ run[r][n].pc \in {"ReturnOk", "ReturnErr"}
  /\ \/ run[r][n].ctx = "ended" /\ UNCHANGED task
     \/ run[r][n].ctx = "live" /\ run[r][n].pc = "ReturnOk" /\ Complete(r)
     \/ run[r][n].ctx = "live" /\ run[r][n].pc = "ReturnErr" /\ RetryOrArchive(r)
  /\ Step(r, n, "returned")
  /\ UNCHANGED <<apiVars, emails, accepted, faults, outages, incidents>>

-----------------------------------------------------------------------------
ApiStep(r) ==
  \/ RejectContent(r)
  \/ CreateOrGet(r)
  \/ Enqueue(r)
  \/ MarkFailed(r)
  \/ MarkQueued(r)

ProcessEmail(r, n) ==
  \/ GetByID(r, n)
  \/ MarkSending(r, n)
  \/ Send(r, n)
  \/ IncrementRetryCount(r, n)
  \/ MarkFailure(r, n)
  \/ StoreProviderID(r, n)
  \/ MarkAsSent(r, n)
  \/ Return(r, n)

AsynqStep(r) == Dequeue(r) \/ Recover(r)

Next ==
  \E r \in Requests :
    \/ CheckSuppressed(r)
    \/ ApiStep(r)
    \/ ApiCrash(r)
    \/ AsynqStep(r)
    \/ \E n \in Attempts :
         \/ ProcessEmail(r, n)
         \/ Timeout(r, n)
         \/ WorkerCrash(r, n)
         \/ Shutdown(r, n)

\* A request goes on once it has begun, a worker is always free in the end and
\* the recoverer runs.  A handler makes progress until its context ends; one
\* that asynq abandoned may hang for ever (the SMTP client has no timeout).
Fairness ==
  \A r \in Requests :
    /\ WF_vars(ApiStep(r))
    /\ WF_vars(AsynqStep(r))
    /\ \A n \in Attempts :
         WF_vars(Live(r, n) /\ (ProcessEmail(r, n) \/ Timeout(r, n)))

Spec == Init /\ [][Next]_vars
FairSpec == Spec /\ Fairness
=============================================================================
