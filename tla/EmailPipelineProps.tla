-------------------------- MODULE EmailPipelineProps --------------------------
(* What the path of an email promises.                                         *)
EXTENDS EmailPipeline

IDs == {NoID} \union (Requests \X Attempts \X Nat)

Rows == [status : Statuses \union {"absent"}, retryCount : Nat,
         sentAt : BOOLEAN, resendID : IDs]
Answered == [pc : ApiPcs, email : Requests, answer : Answers]
Tasks == [state : TaskStates, email : Requests, retried : Attempts]
Runs == [pc : RunPcs, ctx : {"live", "ended"}, retryCount : Nat, id : IDs]

\* Every variable has its type.
TypeOK ==
  /\ api \in [Requests -> Answered]
  /\ emails \in [Requests -> Rows]
  /\ suppressions \subseteq Addresses
  /\ task \in [Requests -> Tasks]
  /\ run \in [Requests -> [Attempts -> Runs]]
  /\ accepted \in [Requests -> [Attempts -> Nat]]
  /\ faults \in [Requests -> [Attempts -> Nat]]
  /\ outages \in Nat
  /\ incidents \in Nat

Queued(r) == task[r].state # "none"
Taken(r) == \E n \in Attempts : accepted[r][n] > 0
Calm == outages = 0 /\ incidents = 0

-----------------------------------------------------------------------------
\* However requests with one idempotency_id interleave, crash or fail, at most
\* one of them puts a task in the queue, and no two tasks carry one email: the
\* INSERT ... ON CONFLICT and the early return of Send.
OneTaskPerEmail ==
  \A r, s \in Requests :
    r # s /\ Queued(r) /\ Queued(s) =>
      /\ task[r].email # task[s].email
      /\ KeyOf[task[r].email] = KeyOf[task[s].email] => KeyOf[task[r].email] = NoKey

\* What Send answered is true of the store and the queue: "queued" names a row
\* whose task is in the queue, a duplicate names the row of another request
\* with the same key, and "suppressed" leaves nothing behind.
AnswersAreBacked ==
  \A r \in Requests :
    /\ api[r].answer = "queued" =>
         api[r].email = r /\ Stored(emails, r) /\ Queued(r) /\ task[r].email = r
    /\ api[r].answer = "duplicate" =>
         /\ api[r].email # r /\ KeyOf[api[r].email] = KeyOf[r]
         /\ Stored(emails, api[r].email) /\ ~Stored(emails, r)
    /\ api[r].answer = "suppressed" => ~Stored(emails, r) /\ ~Queued(r)

\* A row that no task carries belongs to a request that is about to enqueue
\* it, or that crashed or answered an error: no other row is left behind.
StrandedOnlyByFailure ==
  \A r \in Requests :
    Stored(emails, r) /\ ~Queued(r) =>
      \/ api[r].pc \in {"enqueue", "markFailed", "crashed"}
      \/ api[r].answer = "error"

\* The provider takes an email twice only if an incident (a lost reply, a
\* timeout, a crash, a shutdown) hit the earlier attempt: a retry never follows
\* an attempt that ended well, for every reordering of the attempts' steps.
DuplicateOnlyAfterIncident ==
  \A r \in Requests : \A n \in Attempts :
    /\ accepted[r][n] <= faults[r][n] + 1
    /\ \A m \in Attempts :
         m > n /\ run[r][m].pc # "idle" /\ accepted[r][n] > 0 => faults[r][n] > 0

\* asynq gives an email up only when all MaxRetries + 1 attempts were made, and
\* each of them was refused, failed or hit by an incident.
AbandonedOnlyAfterEveryAttempt ==
  \A r \in Requests : task[r].state = "archived" =>
    \A n \in Attempts :
      run[r][n].pc # "idle" /\ (accepted[r][n] > 0 => faults[r][n] > 0)

\* A task completes, and its row gets sent_at, only when the provider has
\* taken the message.
SentMeansAccepted ==
  \A r \in Requests :
    task[r].state = "completed" \/ emails[r].sentAt => Taken(r)

\* retry_count never runs ahead of the attempts: each execution of an attempt
\* adds at most one, and only a shutdown executes an attempt again.
RetryCountExplained ==
  \A r \in Requests :
    emails[r].retryCount <= task[r].retried + 1 + incidents

\* With no failure in the infrastructure, what the row says once the request
\* was answered and the task is over is what happened, but for the status that
\* a late UpdateStatus(queued) of Send may have overwritten.
CalmOutcome ==
  \A r \in Requests : Calm /\ api[r].answer = "queued" =>
    /\ task[r].state = "completed" =>
         /\ emails[r].status \in {"sent", "queued"} /\ emails[r].sentAt
         /\ ReturnsID => emails[r].resendID # NoID
    /\ task[r].state = "archived" =>
         /\ emails[r].status \in {"failed", "queued"} /\ ~emails[r].sentAt
         /\ emails[r].retryCount = MaxRetries + 1

\* A row loses the status "sent" only to the API's own late write, or to
\* another attempt of a task that an incident has hit.
SentLostOnlyToLateWrites ==
  [][\A r \in Requests :
       emails[r].status = "sent" /\ emails'[r].status # "sent" =>
         \/ emails'[r].status = "queued" /\ api[r].pc = "markQueued"
         \/ emails'[r].status = "failed" /\ api[r].pc = "markFailed"
         \/ \E n \in Attempts : faults[r][n] > 0]_vars

\* Every task that reached the queue is finished in the end: completed or, all
\* its attempts spent, archived.
EnqueuedSettles ==
  \A r \in Requests :
    Queued(r) ~> task[r].state \in {"completed", "archived"}

-----------------------------------------------------------------------------
(* The inductive invariant: who owns a row and its task, and how far the       *)
(* attempts of a task have come.                                               *)

\* A request works on its own row and enqueues a task for it, unless it found
\* another's.
Owned ==
  \A r \in Requests :
    /\ task[r].email = r
    /\ api[r].answer # "duplicate" => api[r].email = r

\* How far a request has come tells whether it stored a row and enqueued it.
StoredAndQueued ==
  \A r \in Requests :
    /\ api[r].pc \in {"idle", "create"} => ~Stored(emails, r) /\ ~Queued(r)
    /\ api[r].pc \in {"enqueue", "markFailed", "markQueued"} => Stored(emails, r)
    /\ api[r].pc = "enqueue" => ~Queued(r)
    /\ api[r].pc = "markQueued" => Queued(r)
    /\ Queued(r) => Stored(emails, r)
    /\ api[r].pc # "done" => api[r].answer = "none"

\* The UNIQUE constraint on idempotency_id.
KeysUnique ==
  \A r, s \in Requests :
    r # s /\ Stored(emails, r) /\ Stored(emails, s) /\ KeyOf[r] = KeyOf[s]
      => KeyOf[r] = NoKey

OwnershipInv ==
  Owned /\ StoredAndQueued /\ KeysUnique /\ AnswersAreBacked /\ StrandedOnlyByFailure

\* The attempts before the newest have begun, those after it have not; the
\* newest has begun once its task was taken from the queue.
AttemptsInOrder ==
  \A r \in Requests :
    /\ task[r].state = "none" => task[r].retried = 0
    /\ \A n \in Attempts :
         run[r][n].pc = "idle" <=>
           \/ n > task[r].retried
           \/ n = task[r].retried /\ task[r].state \in {"none", "pending"}

\* An attempt whose context has not ended is the newest of an active task, and
\* an active task has such an attempt or has lost it.
LiveIsNewest ==
  \A r \in Requests :
    /\ \A n \in Attempts :
         Live(r, n) => task[r].state = "active" /\ task[r].retried = n
    /\ task[r].state = "active" =>
         Live(r, task[r].retried) \/ run[r][task[r].retried].pc = "lost"
    /\ task[r].state = "archived" => task[r].retried = MaxRetries

\* Attempt n took no more messages than incidents hit it.
Excused(r, n) == accepted[r][n] <= faults[r][n]

\* Only the newest attempt can be ahead of its incidents, by one message: when
\* it has been told of it, or has completed its task.  An attempt that asynq
\* abandoned before its send has an incident to spare.
AcceptancesExcused ==
  \A r \in Requests : \A n \in Attempts :
    /\ accepted[r][n] <= faults[r][n] + 1
    /\ \/ Excused(r, n)
       \/ /\ n = task[r].retried
          /\ task[r].state = "completed" \/ (Live(r, n) /\ run[r][n].pc \in AfterAccept)
    /\ run[r][n].ctx = "ended" /\ run[r][n].pc \in BeforeSend
         => accepted[r][n] < faults[r][n]

AcceptancesKnown ==
  \A r \in Requests : \A n \in Attempts :
    run[r][n].pc \in AfterAccept => accepted[r][n] > 0

AttemptInv ==
  /\ AttemptsInOrder /\ LiveIsNewest
  /\ AcceptancesExcused /\ AcceptancesKnown /\ SentMeansAccepted

-----------------------------------------------------------------------------
(* The pipeline implements Delivery.                                           *)

\* The newest attempt of r's task has the provider's acknowledgement.
Acknowledged(r) ==
  LET newest == run[r][task[r].retried]
  IN  newest.pc \in AfterAccept /\ newest.ctx = "live"

PhaseOf(r) ==
  CASE task[r].state = "none"      -> "absent"
    [] task[r].state = "pending"   -> "waiting"
    [] task[r].state = "active"    -> IF Acknowledged(r) THEN "acknowledged" ELSE "trying"
    [] task[r].state = "completed" -> "kept"
    [] task[r].state = "archived"  -> "abandoned"

phaseBar == [r \in Requests |-> PhaseOf(r)]
atBar == [r \in Requests |-> task[r].retried]
openBar == [r \in Requests |-> {n \in Attempts : run[r][n].pc \in BeforeSend}]

D == INSTANCE Delivery WITH
       Emails <- Requests, phase <- phaseBar, at <- atBar, open <- openBar,
       taken <- accepted

\* Every behaviour of the API, asynq and the workers, with all their failures,
\* is a behaviour of Delivery.
ImplementsDelivery == D!DeliverySpec

-----------------------------------------------------------------------------
(* What the documents say and the code does not do *)

\* docs/openapi.yaml gives the status flow as pending, queued, sending, sent:
\* a sent email is not queued again.
SentIsNotRequeued ==
  [][\A r \in Requests :
       ~(emails[r].status = "sent" /\ emails'[r].status = "queued")]_vars

\* The answer to a duplicate says "Email already queued": once the request that
\* stored the row is over, its task is in the queue.
DuplicateIsQueued ==
  \A r \in Requests :
    api[r].answer = "duplicate" /\ api[api[r].email].pc \in {"done", "crashed"}
      => Queued(api[r].email)
=============================================================================
