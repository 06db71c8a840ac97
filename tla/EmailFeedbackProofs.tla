------------------------- MODULE EmailFeedbackProofs -------------------------
(* Proofs about the feedback on sent emails, which keep everything that is     *)
(* proved about the pipeline true while webhooks, recipients and operators     *)
(* write the tables it works on.                                               *)
EXTENDS EmailFeedbackProps, OutcomeProofs

PipelineInv == TypeOK /\ OwnershipInv /\ Order /\ Acceptances

LEMMA PipelineStep ==
  ASSUME PipelineInv, Next
  PROVE  PipelineInv'
<1> USE DEF PipelineInv
<1>1. 0 \in Attempts
  BY MaxRetriesAssumption DEF Attempts
<1>2. PICK r \in Requests :
        \/ CheckSuppressed(r) \/ ApiStep(r) \/ ApiCrash(r) \/ AsynqStep(r)
        \/ \E n \in Attempts :
             \/ ProcessEmail(r, n) \/ Timeout(r, n) \/ WorkerCrash(r, n) \/ Shutdown(r, n)
  BY DEF Next
<1>3. TypeOK'
  BY <1>1, <1>2, ApiType, AsynqType, HandlerType
<1>4. OwnershipInv'
  BY <1>1, <1>2, ApiOwnership, WorkOwnership DEF OwnershipInv
<1>5. Order'
  BY <1>1, <1>2, ApiOrder, AsynqOrder, HandlerOrder DEF OwnershipInv
<1>6. Acceptances'
  BY <1>1, <1>2, ApiAcceptances, AsynqAcceptances, HandlerAcceptances DEF OwnershipInv
<1> QED BY <1>3, <1>4, <1>5, <1>6

\* A step outside the pipeline that at most puts a terminal status in a row.
LEMMA PipelineKept ==
  ASSUME PipelineInv, UNCHANGED pipelineVars,
         suppressions' \subseteq Addresses, outages' \in Nat,
         \/ emails' = emails
         \/ \E e \in Requests : \E s \in {"bounced", "complaint"} :
              Stored(emails, e) /\ emails' = UpdateStatus(emails, e, s)
  PROVE  PipelineInv' /\ \A d \in Requests : Stored(emails, d)' <=> Stored(emails, d)
<1> USE DEF PipelineInv
<1>1. emails' \in [Requests -> Rows]
  BY StatementTypes DEF TypeOK, Statuses
<1>2. \A d \in Requests : Stored(emails, d)' <=> Stored(emails, d)
  <2>1. CASE emails' = emails
    BY <2>1 DEF Stored
  <2>2. ASSUME NEW e \in Requests, NEW s \in {"bounced", "complaint"},
               Stored(emails, e), emails' = UpdateStatus(emails, e, s)
        PROVE  \A d \in Requests : Stored(emails', d) <=> Stored(emails, d)
    <3>1. emails \in [Requests -> Rows] /\ s \in Statuses
      BY DEF TypeOK, Statuses
    <3> HIDE DEF PipelineInv
    <3> QED BY <2>2, <3>1, UpdatesKeepRows
  <2>3. \A d \in Requests : Stored(emails, d)' <=> Stored(emails', d)
    BY DEF Stored
  <2> QED BY <2>1, <2>2, <2>3
<1>3. TypeOK'
  BY <1>1 DEF TypeOK, pipelineVars
<1>4. OwnershipInv'
  <2>1. UNCHANGED <<api, task>> /\ \A d \in Requests : api[d].email \in Requests
    BY DEF TypeOK, Answered, pipelineVars
  <2>2. Owned' /\ StoredAndQueued'
    BY <1>2, <2>1 DEF OwnershipInv, Owned, StoredAndQueued, Queued
  <2>3. KeysUnique'
    BY <1>2 DEF OwnershipInv, KeysUnique
  <2>4. AnswersAreBacked'
    BY <1>2, <2>1 DEF OwnershipInv, AnswersAreBacked, Queued
  <2>5. StrandedOnlyByFailure'
    BY <1>2, <2>1 DEF OwnershipInv, StrandedOnlyByFailure, Queued
  <2> QED BY <2>2, <2>3, <2>4, <2>5 DEF OwnershipInv
<1>5. Order' /\ Acceptances'
  BY DEF Order, AttemptsInOrder, LiveIsNewest, Live, Acceptances, AttemptOk, Excused,
         pipelineVars
<1> QED BY <1>2, <1>3, <1>4, <1>5

-----------------------------------------------------------------------------
(* Whose message an event is about *)

\* A webhook request is about a message that the provider took from the request
\* its id names; from StoreEvent on it works on that request's row.
NoticeOk(h) ==
  /\ hook[h].pc # "idle" =>
       hook[h].id # NoID /\ hook[h].id[1] \in Requests /\ Taken(hook[h].id[1])
  /\ hook[h].pc \in {"store", "mark", "suppress"} =>
       hook[h].email = hook[h].id[1] /\ Stored(emails, hook[h].email)
  /\ hook[h].pc \in {"mark", "suppress"} => hook[h].kind \in Terminal
  /\ hook[h].outcome # "none" => hook[h].pc = "done"
  /\ hook[h].outcome = "processed" => hook[h].email = hook[h].id[1]

NoticesOk == \A h \in Notices : NoticeOk(h)

\* A row and the attempts of a task hold provider ids of their own only.
IDsBelong ==
  \A r \in Requests :
    /\ emails[r].resendID # NoID => emails[r].resendID[1] = r /\ Stored(emails, r)
    /\ \A n \in Attempts : run[r][n].id # NoID => run[r][n].id[1] = r

TerminalTaken ==
  \A r \in Requests : emails[r].status \in {"bounced", "complaint"} => Taken(r)

\* The provider id that a statement leaves in a row.
LEMMA StatementIDs ==
  ASSUME NEW t \in [Requests -> Rows], NEW e \in Requests
  PROVE  /\ Create(t, e)[e].resendID = NoID
         /\ \A s \in Statuses : UpdateStatus(t, e, s)[e].resendID = t[e].resendID
         /\ IncrementRetry(t, e)[e].resendID = t[e].resendID
         /\ MarkSent(t, e)[e].resendID = t[e].resendID
         /\ \A id \in IDs : UpdateResendEmailID(t, e, id)[e].resendID = id
<1> USE DEF Rows
<1>1. Create(t, e)[e].resendID = NoID
  BY DEF Create, AbsentRow
<1>2. \A s \in Statuses : UpdateStatus(t, e, s)[e].resendID = t[e].resendID
  BY DEF UpdateStatus
<1>3. IncrementRetry(t, e)[e].resendID = t[e].resendID
  BY DEF IncrementRetry
<1>4. MarkSent(t, e)[e].resendID = t[e].resendID
  BY DEF MarkSent
<1>5. \A id \in IDs : UpdateResendEmailID(t, e, id)[e].resendID = id
  BY DEF UpdateResendEmailID
<1> QED BY <1>1, <1>2, <1>3, <1>4, <1>5

\* A row gets its provider id from one of its own attempts.
LEMMA RowIDs ==
  ASSUME PipelineInv, Next, NEW r \in Requests
  PROVE  \/ emails'[r].resendID = NoID
         \/ emails'[r].resendID = emails[r].resendID
         \/ /\ Stored(emails, r)
            /\ \E n \in Attempts : emails'[r].resendID = run[r][n].id
<1> USE DEF PipelineInv
<1>1. emails \in [Requests -> Rows] /\ RequestInv(r)
  BY OwnershipByRequest DEF TypeOK
<1>2. PICK s \in Requests :
        \/ CheckSuppressed(s) \/ ApiStep(s) \/ ApiCrash(s) \/ AsynqStep(s)
        \/ \E n \in Attempts :
             \/ ProcessEmail(s, n) \/ Timeout(s, n) \/ WorkerCrash(s, n) \/ Shutdown(s, n)
  BY DEF Next
<1>3. CASE CheckSuppressed(s) \/ ApiStep(s) \/ ApiCrash(s)
  <2>1. CASE s # r
    BY <1>3, <2>1, ApiWrites
  <2>2. CASE s = r
    <3>1. \/ emails' = emails
          \/ emails' = Create(emails, r)
          \/ /\ api[r].pc \in {"markQueued", "markFailed"}
             /\ \E st \in {"queued", "failed"} :
                  emails' = UpdateStatus(emails, api[r].email, st)
      BY <1>3, <2>2
      DEF CheckSuppressed, ApiStep, RejectContent, CreateOrGet, Enqueue, MarkFailed,
          MarkQueued, ApiCrash, workVars, Attempted
    <3>2. api[r].pc \in {"markQueued", "markFailed"} => api[r].email = r
      BY <1>1 DEF RequestInv
    <3> QED BY <1>1, <3>1, <3>2, StatementIDs DEF Statuses
  <2> QED BY <2>1, <2>2
<1>4. CASE AsynqStep(s) \/ \E n \in Attempts :
             Timeout(s, n) \/ WorkerCrash(s, n) \/ Shutdown(s, n)
  BY <1>4 DEF AsynqStep, Dequeue, Recover, Timeout, WorkerCrash, Shutdown
<1>5. ASSUME NEW n \in Attempts, ProcessEmail(s, n)
      PROVE  \/ emails'[r].resendID = emails[r].resendID
             \/ Stored(emails, r) /\ emails'[r].resendID = run[r][n].id
  <2>1. CASE s # r
    BY <1>5, <2>1, AttemptWrites
  <2>2. CASE s = r
    <3>1. task[r].email = r /\ run[r][n].id \in IDs
      BY DEF OwnershipInv, Owned, TypeOK, Runs
    <3>2. \/ emails' = emails
          \/ \E st \in {"sending", "failed", "queued"} : emails' = UpdateStatus(emails, r, st)
          \/ emails' = IncrementRetry(emails, r)
          \/ emails' = MarkSent(emails, r)
          \/ /\ emails' = UpdateResendEmailID(emails, r, run[r][n].id)
             /\ run[r][n].pc = "StoreID"
      BY <1>5, <2>2, <3>1
      DEF ProcessEmail, GetByID, MarkSending, Send, IncrementRetryCount, MarkFailure,
          StoreProviderID, MarkAsSent, Return, AttemptedBy, Attempted
    <3>3. run[r][n].pc = "StoreID" => Stored(emails, r)
      <4>1. run[r][n].pc = "StoreID" => task[r].state # "none"
        BY DEF Order, AttemptsInOrder, Attempts
      <4> QED BY <4>1 DEF OwnershipInv, StoredAndQueued, Queued
    <3> QED BY <1>1, <3>1, <3>2, <3>3, StatementIDs DEF Statuses
  <2> QED BY <2>1, <2>2
<1> QED BY <1>2, <1>3, <1>4, <1>5

\* An attempt gets a provider id from its own send.
LEMMA RunIDs ==
  ASSUME PipelineInv, Next, NEW r \in Requests, NEW n \in Attempts
  PROVE  \/ run'[r][n].id = NoID
         \/ run'[r][n].id = run[r][n].id
         \/ run'[r][n].id = ProviderID(r, n)
<1> USE DEF PipelineInv
<1>1. /\ run \in [Requests -> [Attempts -> Runs]] /\ run[r][n] \in Runs
      /\ NoRun.id = NoID /\ [NoRun EXCEPT !.pc = "GetByID"].id = NoID
  BY DEF TypeOK, NoRun
<1>2. PICK s \in Requests, m \in Attempts :
        \/ CheckSuppressed(s) \/ ApiStep(s) \/ ApiCrash(s)
        \/ Dequeue(s) \/ Recover(s)
        \/ ProcessEmail(s, m) \/ Timeout(s, m) \/ WorkerCrash(s, m) \/ Shutdown(s, m)
  BY MaxRetriesAssumption DEF Next, AsynqStep, Attempts
<1>3. CASE CheckSuppressed(s) \/ ApiStep(s) \/ ApiCrash(s) \/ Recover(s)
  <2>1. run' = run
    BY <1>3 DEF CheckSuppressed, ApiStep, RejectContent, CreateOrGet, Enqueue, MarkFailed,
                MarkQueued, ApiCrash, workVars, Recover
  <2> QED BY <2>1
<1>4. CASE Dequeue(s)
  <2> DEFINE new == [NoRun EXCEPT !.pc = "GetByID"]
  <2>1. run' = [run EXCEPT ![s][task[s].retried] = new]
    BY <1>4 DEF Dequeue, SetRun
  <2>2. new.id = NoID /\ task[s].retried \in Attempts
    BY <1>1 DEF TypeOK, Tasks
  <2> HIDE DEF new
  <2> QED BY <1>1, <2>1, <2>2
<1>5. CASE Shutdown(s, m)
  <2>1. run' = [run EXCEPT ![s][m] = NoRun]
    BY <1>5 DEF Shutdown, SetRun
  <2> QED BY <1>1, <2>1
<1>6. \A pc : Step(s, m, pc) => run'[r][n].id = run[r][n].id
  <2> SUFFICES ASSUME NEW pc, Step(s, m, pc) PROVE run'[r][n].id = run[r][n].id
    OBVIOUS
  <2> DEFINE new == [run[s][m] EXCEPT !.pc = pc]
  <2>1. run' = [run EXCEPT ![s][m] = new]
    BY DEF Step, SetRun
  <2>2. new.id = run[s][m].id
    BY <1>1 DEF Runs
  <2> HIDE DEF new
  <2> QED BY <1>1, <2>1, <2>2
<1>7. CASE Timeout(s, m)
  <2> DEFINE new == [run[s][m] EXCEPT !.ctx = "ended"]
  <2>1. run' = [run EXCEPT ![s][m] = new]
    BY <1>7 DEF Timeout, SetRun
  <2>2. new.id = run[s][m].id
    BY <1>1 DEF Runs
  <2> HIDE DEF new
  <2> QED BY <1>1, <2>1, <2>2
<1>8. CASE GetByID(s, m)
  <2> DEFINE new == [run[s][m] EXCEPT !.pc = "MarkSending",
                       !.retryCount = emails[task[s].email].retryCount]
  <2>1. run' = [run EXCEPT ![s][m] = new] \/ Step(s, m, "ReturnErr")
    BY <1>8 DEF GetByID, SetRun
  <2>2. new.id = run[s][m].id
    BY <1>1 DEF Runs
  <2> HIDE DEF new
  <2> QED BY <1>1, <1>6, <2>1, <2>2
<1>9. CASE IncrementRetryCount(s, m)
  <2> DEFINE new == [run[s][m] EXCEPT !.pc = "MarkFailure", !.retryCount = @ + 1]
  <2>1. run' = [run EXCEPT ![s][m] = new]
    BY <1>9 DEF IncrementRetryCount, SetRun
  <2>2. new.id = run[s][m].id
    BY <1>1 DEF Runs
  <2> HIDE DEF new
  <2> QED BY <1>1, <2>1, <2>2
<1>10. CASE Send(s, m)
  <2> DEFINE new == [run[s][m] EXCEPT !.pc = IF ReturnsID THEN "StoreID" ELSE "MarkSent",
                                      !.id = ProviderID(s, m)]
  <2>1. run' = [run EXCEPT ![s][m] = new] \/ Step(s, m, "IncrementRetry")
    BY <1>10 DEF Send, SetRun
  <2>2. new.id = ProviderID(s, m)
    BY <1>1 DEF Runs
  <2> HIDE DEF new, ProviderID
  <2> QED BY <1>1, <1>6, <2>1, <2>2
<1>11. CASE \/ MarkSending(s, m) \/ MarkFailure(s, m) \/ StoreProviderID(s, m)
            \/ MarkAsSent(s, m) \/ Return(s, m) \/ WorkerCrash(s, m)
  <2>1. \E pc \in RunPcs : Step(s, m, pc)
    BY <1>11 DEF MarkSending, MarkFailure, StoreProviderID, MarkAsSent, Return, WorkerCrash,
                 RunPcs, Running, BeforeSend, AfterAccept, AfterError
  <2> QED BY <1>6, <2>1
<1> QED BY <1>2, <1>3, <1>4, <1>5, <1>7, <1>8, <1>9, <1>10, <1>11 DEF ProcessEmail

\* What the pipeline does to what the feedback relies on.
LEMMA PipelineSteps ==
  ASSUME PipelineInv, IDsBelong, TerminalTaken, Next
  PROVE  /\ IDsBelong' /\ TerminalTaken'
         /\ \A r \in Requests : /\ Taken(r) => Taken(r)'
                                /\ Stored(emails, r) => Stored(emails, r)'
         /\ suppressions' = suppressions /\ outages' \in {outages, outages + 1}
<1> USE DEF PipelineInv
<1>1. \A r \in Requests : Taken(r) => Taken(r)'
  BY SentOnlyAfterAccept DEF OwnershipInv, Taken
<1>2. \A r \in Requests : Stored(emails, r) => Stored(emails, r)'
  BY RowWrites DEF Stored, ByRequest, ByAttempt
<1>3. TerminalTaken'
  <2> SUFFICES ASSUME NEW r \in Requests, emails'[r].status \in {"bounced", "complaint"}
               PROVE  Taken(r)'
    BY DEF TerminalTaken
  <2>1. emails[r].status \in {"bounced", "complaint"}
    BY RowWrites DEF ByRequest, ByAttempt
  <2> QED BY <1>1, <2>1 DEF TerminalTaken
<1>4. IDsBelong'
  <2> SUFFICES ASSUME NEW r \in Requests
               PROVE  /\ emails'[r].resendID # NoID =>
                           emails'[r].resendID[1] = r /\ Stored(emails, r)'
                      /\ \A n \in Attempts : run'[r][n].id # NoID => run'[r][n].id[1] = r
    BY DEF IDsBelong
  <2>1. emails'[r].resendID # NoID => emails'[r].resendID[1] = r /\ Stored(emails, r)'
    BY <1>2, RowIDs DEF IDsBelong
  <2>2. ASSUME NEW n \in Attempts, run'[r][n].id # NoID PROVE run'[r][n].id[1] = r
    <3>1. ProviderID(r, n) # NoID => ProviderID(r, n)[1] = r
      BY DEF ProviderID
    <3> QED BY <2>2, <3>1, RunIDs DEF IDsBelong
  <2> QED BY <2>1, <2>2
<1>5. PICK r \in Requests, n \in Attempts :
        \/ CheckSuppressed(r) \/ ApiStep(r) \/ ApiCrash(r) \/ AsynqStep(r)
        \/ ProcessEmail(r, n) \/ Timeout(r, n) \/ WorkerCrash(r, n) \/ Shutdown(r, n)
  BY MaxRetriesAssumption DEF Next, Attempts
<1>6. suppressions' = suppressions
  <2>1. CheckSuppressed(r) \/ ApiStep(r) \/ ApiCrash(r) => suppressions' = suppressions
    BY DEF CheckSuppressed, ApiStep, RejectContent, CreateOrGet, Enqueue, MarkFailed,
           MarkQueued, ApiCrash
  <2>2. AsynqStep(r) \/ Timeout(r, n) \/ WorkerCrash(r, n) \/ Shutdown(r, n)
          => suppressions' = suppressions
    BY DEF AsynqStep, Dequeue, Recover, Timeout, WorkerCrash, Shutdown, apiVars
  <2>3. ProcessEmail(r, n) => suppressions' = suppressions
    BY DEF ProcessEmail, GetByID, MarkSending, Send, IncrementRetryCount, MarkFailure,
           StoreProviderID, MarkAsSent, Return, apiVars
  <2> QED BY <1>5, <2>1, <2>2, <2>3
<1>7. outages' \in {outages, outages + 1}
  <2>1. Outage => outages' = outages + 1
    BY DEF Outage
  <2>2. \A after : Attempted(after) => outages' \in {outages, outages + 1}
    BY <2>1 DEF Attempted
  <2>3. \A after : AttemptedBy(r, n, after) => outages' \in {outages, outages + 1}
    BY <2>2 DEF AttemptedBy
  <2>4. CheckSuppressed(r) \/ ApiStep(r) \/ ApiCrash(r)
          => outages' \in {outages, outages + 1}
    BY <2>1, <2>2 DEF CheckSuppressed, ApiStep, RejectContent, CreateOrGet, Enqueue,
                      MarkFailed, MarkQueued, ApiCrash
  <2>5. AsynqStep(r) \/ Timeout(r, n) \/ WorkerCrash(r, n) \/ Shutdown(r, n)
          => outages' = outages
    BY DEF AsynqStep, Dequeue, Recover, Timeout, WorkerCrash, Shutdown
  <2>6. ProcessEmail(r, n) => outages' \in {outages, outages + 1}
    BY <2>1, <2>3 DEF ProcessEmail, GetByID, MarkSending, Send, IncrementRetryCount,
                      MarkFailure, StoreProviderID, MarkAsSent, Return
  <2> QED BY <1>5, <2>4, <2>5, <2>6
<1> QED BY <1>1, <1>2, <1>3, <1>4, <1>6, <1>7

-----------------------------------------------------------------------------
(* The handlers *)

HookRecords == [pc : HookPcs, kind : Kinds, id : IDs,
                email : Requests \union {NoEmail}, outcome : Outcomes]

HookTypes ==
  /\ hook \in [Notices -> HookRecords]
  /\ events \subseteq [id : IDs, kind : Kinds, email : Requests]
  /\ told \in [Addresses -> {"nothing", "unsubscribed", "removed"}]

\* A processed bounce or complaint suppresses its recipient until the address
\* itself, which then is in lower case, is removed.
Suppressing(h) ==
  hook[h].outcome = "processed" /\ hook[h].kind \in Terminal =>
    \/ ToOf[hook[h].email] \in suppressions
    \/ outages > 0
    \/ /\ LowerOf[ToOf[hook[h].email]] = ToOf[hook[h].email]
       /\ told[ToOf[hook[h].email]] = "removed"

FeedbackInv ==
  /\ PipelineInv /\ IDsBelong /\ TerminalTaken /\ HookTypes /\ NoticesOk
  /\ EventsBelong /\ \A h \in Notices : Suppressing(h)

\* The step of one webhook request leaves the others as they are.
LEMMA OneNotice ==
  ASSUME FeedbackInv, NEW h \in Notices, NEW new \in HookRecords,
         hook' = [hook EXCEPT ![h] = new],
         UNCHANGED <<pipelineVars, told>>,
         \/ emails' = emails
         \/ \E e \in Requests : \E s \in {"bounced", "complaint"} :
              /\ Stored(emails, e) /\ Taken(e)
              /\ emails' = UpdateStatus(emails, e, s),
         suppressions \subseteq suppressions', suppressions' \subseteq Addresses,
         outages' = outages \/ outages' = outages + 1,
         events' \subseteq [id : IDs, kind : Kinds, email : Requests],
         EventsBelong', NoticeOk(h)', Suppressing(h)'
  PROVE  FeedbackInv'
<1> USE DEF FeedbackInv
<1>1. emails \in [Requests -> Rows] /\ outages \in Nat /\ outages' \in Nat
  BY DEF PipelineInv, TypeOK
<1>2. PipelineInv' /\ \A d \in Requests : Stored(emails, d)' <=> Stored(emails, d)
  BY <1>1, PipelineKept
<1>3. \A r \in Requests : Taken(r)' <=> Taken(r)
  BY DEF Taken, pipelineVars
<1>4. hook'[h] = new /\ (\A g \in Notices \ {h} : hook'[g] = hook[g]) /\ HookTypes'
  BY DEF HookTypes
<1>5. \A r \in Requests :
        /\ emails'[r].resendID = emails[r].resendID
        /\ emails'[r].status = emails[r].status \/ Taken(r)
  <2>1. CASE emails' = emails
    BY <2>1
  <2>2. CASE emails' # emails
    <3>1. PICK e \in Requests, s \in {"bounced", "complaint"} :
            Taken(e) /\ emails' = UpdateStatus(emails, e, s)
      BY <2>2
    <3>2. s \in Statuses
      BY DEF Statuses
    <3>3. emails'[e].resendID = emails[e].resendID
      BY <1>1, <3>1, <3>2, StatementIDs
    <3>4. \A r \in Requests \ {e} : emails'[r] = emails[r]
      BY <1>1, <3>1, <3>2, StatementEffects
    <3> QED BY <3>1, <3>3, <3>4
  <2> QED BY <2>1, <2>2
<1>6. IDsBelong' /\ TerminalTaken'
  BY <1>2, <1>3, <1>5 DEF IDsBelong, TerminalTaken, pipelineVars
<1>7. ASSUME NEW g \in Notices, g # h PROVE NoticeOk(g)' /\ Suppressing(g)'
  <2>1. NoticeOk(g) /\ Suppressing(g) /\ hook'[g] = hook[g] /\ hook[g] \in HookRecords
    BY <1>4, <1>7 DEF NoticesOk, HookTypes
  <2>2. NoticeOk(g)'
    BY <1>2, <1>3, <2>1 DEF NoticeOk
  <2>3. Suppressing(g)'
    BY <1>1, <2>1 DEF Suppressing
  <2> QED BY <2>2, <2>3
<1> QED BY <1>2, <1>4, <1>6, <1>7 DEF NoticesOk

\* What a webhook request makes of its record when it goes on or answers.
LEMMA HookRecord ==
  ASSUME NEW x \in HookRecords
  PROVE  /\ \A pc \in HookPcs : [x EXCEPT !.pc = pc] \in HookRecords
         /\ \A outcome \in Outcomes :
              [x EXCEPT !.pc = "done", !.outcome = outcome] \in HookRecords
         /\ \A e \in Requests : [x EXCEPT !.pc = "store", !.email = e] \in HookRecords
         /\ \A kind \in Kinds, id \in IDs :
              [x EXCEPT !.pc = "lookup", !.kind = kind, !.id = id] \in HookRecords
  BY DEF HookRecords, HookPcs, Outcomes

LEMMA ReceiveStep ==
  ASSUME FeedbackInv, NEW h \in Notices, Receive(h) PROVE FeedbackInv'
<1> USE DEF FeedbackInv
<1>1. PICK r \in Requests, n \in Attempts, kind \in Kinds : \E i \in 1..accepted[r][n] :
        hook' = [hook EXCEPT ![h] =
                   [hook[h] EXCEPT !.pc = "lookup", !.kind = kind, !.id = <<r, n, i>>]]
  BY DEF Receive
<1>2. PICK i \in 1..accepted[r][n] :
        hook' = [hook EXCEPT ![h] =
                   [hook[h] EXCEPT !.pc = "lookup", !.kind = kind, !.id = <<r, n, i>>]]
  BY <1>1
<1>3. accepted[r][n] \in Nat
  BY DEF PipelineInv, TypeOK
<1>4. accepted[r][n] > 0 /\ i \in Nat
  BY <1>3
<1>5. <<r, n, i>> \in IDs /\ <<r, n, i>> # NoID /\ <<r, n, i>>[1] = r
  BY <1>4, IDTypes DEF NoID
<1> DEFINE new == [hook[h] EXCEPT !.pc = "lookup", !.kind = kind, !.id = <<r, n, i>>]
<1>6. hook[h] \in HookRecords /\ new \in HookRecords
  BY <1>5, HookRecord DEF HookTypes
<1>7. /\ new.pc = "lookup" /\ new.id # NoID /\ new.id[1] = r
      /\ new.outcome = hook[h].outcome
  BY <1>5, <1>6 DEF HookRecords
<1>8. hook[h].outcome = "none"
  BY <1>6 DEF Receive, NoticesOk, NoticeOk
<1> HIDE DEF new
<1>9. hook' = [hook EXCEPT ![h] = new] /\ hook'[h] = new
  BY <1>2 DEF new, HookTypes
<1>10. /\ UNCHANGED <<pipelineVars, told, emails, suppressions, outages, events>>
  BY DEF Receive
<1>11. Taken(r)'
  BY <1>4, <1>10 DEF Taken, pipelineVars
<1>12. NoticeOk(h)' /\ Suppressing(h)'
  BY <1>7, <1>8, <1>9, <1>11 DEF NoticeOk, Suppressing
<1>13. EventsBelong' /\ suppressions' \subseteq Addresses
  BY <1>10 DEF EventsBelong, PipelineInv, TypeOK
<1> QED BY <1>6, <1>9, <1>10, <1>12, <1>13, OneNotice DEF HookTypes

LEMMA LookUpStep ==
  ASSUME FeedbackInv, NEW h \in Notices, LookUp(h) PROVE FeedbackInv'
<1> USE DEF FeedbackInv
<1>1. /\ UNCHANGED <<pipelineVars, told, emails, suppressions, events>>
      /\ hook[h].pc = "lookup" /\ (outages' = outages \/ outages' = outages + 1)
  BY DEF LookUp, Outage
<1>2. hook[h] \in HookRecords /\ NoticeOk(h)
  BY DEF HookTypes, NoticesOk
<1>3. EventsBelong' /\ suppressions' \subseteq Addresses
  BY <1>1 DEF EventsBelong, PipelineInv, TypeOK
<1>4. CASE \E e \in GetByResendEmailID(emails, hook[h].id) :
             hook' = [hook EXCEPT ![h] = [hook[h] EXCEPT !.pc = "store", !.email = e]]
  <2>1. PICK e \in GetByResendEmailID(emails, hook[h].id) :
             hook' = [hook EXCEPT ![h] = [hook[h] EXCEPT !.pc = "store", !.email = e]]
    BY <1>4
  <2>2. e \in Requests /\ Stored(emails, e) /\ hook[h].id[1] = e
    BY DEF GetByResendEmailID, IDsBelong, PipelineInv, TypeOK
  <2> DEFINE new == [hook[h] EXCEPT !.pc = "store", !.email = e]
  <2>3. new \in HookRecords
    BY <1>2, <2>2, HookRecord
  <2>4. /\ new.pc = "store" /\ new.email = e /\ new.id = hook[h].id
        /\ new.outcome = hook[h].outcome
    BY <1>2 DEF HookRecords
  <2>5. hook' = [hook EXCEPT ![h] = new]
    BY <2>1
  <2> HIDE DEF new
  <2>6. hook'[h] = new
    BY <2>5 DEF HookTypes
  <2>7. NoticeOk(h)' /\ Suppressing(h)'
    BY <1>1, <1>2, <2>2, <2>4, <2>6 DEF NoticeOk, Suppressing, Taken, pipelineVars
  <2> QED BY <1>1, <1>3, <2>3, <2>5, <2>7, OneNotice DEF HookTypes
<1>5. CASE Answer(h, "unknown")
  <2> DEFINE new == [hook[h] EXCEPT !.pc = "done", !.outcome = "unknown"]
  <2>1. new \in HookRecords
    BY <1>2, HookRecord DEF Outcomes
  <2>2. /\ new.pc = "done" /\ new.outcome = "unknown" /\ new.id = hook[h].id
    BY <1>2 DEF HookRecords
  <2>3. hook' = [hook EXCEPT ![h] = new]
    BY <1>5 DEF Answer
  <2> HIDE DEF new
  <2>4. hook'[h] = new
    BY <2>3 DEF HookTypes
  <2>5. NoticeOk(h)' /\ Suppressing(h)'
    BY <1>1, <1>2, <2>2, <2>4 DEF NoticeOk, Suppressing, Taken, pipelineVars
  <2> QED BY <1>1, <1>3, <2>1, <2>3, <2>5, OneNotice DEF HookTypes
<1> QED BY <1>4, <1>5 DEF LookUp

LEMMA StoreEventStep ==
  ASSUME FeedbackInv, NEW h \in Notices, StoreEvent(h) PROVE FeedbackInv'
<1> USE DEF FeedbackInv
<1>1. /\ UNCHANGED <<pipelineVars, told, emails, suppressions>>
      /\ hook[h].pc = "store" /\ (outages' = outages \/ outages' = outages + 1)
  BY DEF StoreEvent, Outage
<1>2. hook[h] \in HookRecords /\ NoticeOk(h)
  BY DEF HookTypes, NoticesOk
<1>3. hook[h].email \in Requests /\ hook[h].email = hook[h].id[1]
  BY <1>1, <1>2 DEF NoticeOk
<1>4. events' = events \/ Record(h)
  BY DEF StoreEvent
<1>5. events' \subseteq [id : IDs, kind : Kinds, email : Requests]
  BY <1>2, <1>3, <1>4 DEF Record, HookTypes, HookRecords
<1>6. EventsBelong' /\ suppressions' \subseteq Addresses
  BY <1>1, <1>3, <1>4 DEF Record, EventsBelong, PipelineInv, TypeOK
<1>7. \/ HookTo(h, "mark") /\ hook[h].kind \in Terminal
      \/ Answer(h, "processed") /\ hook[h].kind \notin Terminal
      \/ Answer(h, "unstored")
  BY DEF StoreEvent
<1>8. CASE HookTo(h, "mark") /\ hook[h].kind \in Terminal
  <2> DEFINE new == [hook[h] EXCEPT !.pc = "mark"]
  <2>1. new \in HookRecords
    BY <1>2, HookRecord DEF HookPcs
  <2>2. /\ new.pc = "mark" /\ new.email = hook[h].email /\ new.id = hook[h].id
        /\ new.outcome = hook[h].outcome /\ new.kind = hook[h].kind
    BY <1>2 DEF HookRecords
  <2>3. hook' = [hook EXCEPT ![h] = new]
    BY <1>8 DEF HookTo
  <2> HIDE DEF new
  <2>4. hook'[h] = new
    BY <2>3 DEF HookTypes
  <2>5. NoticeOk(h)' /\ Suppressing(h)'
    BY <1>1, <1>2, <1>8, <2>2, <2>4 DEF NoticeOk, Suppressing, Taken, pipelineVars
  <2> QED BY <1>1, <1>5, <1>6, <2>1, <2>3, <2>5, OneNotice
<1>9. ASSUME NEW outcome \in {"processed", "unstored"}, Answer(h, outcome),
             outcome = "processed" => hook[h].kind \notin Terminal
      PROVE  FeedbackInv'
  <2> DEFINE new == [hook[h] EXCEPT !.pc = "done", !.outcome = outcome]
  <2>1. new \in HookRecords
    BY <1>2, HookRecord DEF Outcomes
  <2>2. /\ new.pc = "done" /\ new.email = hook[h].email /\ new.id = hook[h].id
        /\ new.outcome = outcome /\ new.kind = hook[h].kind
    BY <1>2 DEF HookRecords
  <2>3. hook' = [hook EXCEPT ![h] = new]
    BY <1>9 DEF Answer
  <2> HIDE DEF new
  <2>4. hook'[h] = new
    BY <2>3 DEF HookTypes
  <2>5. NoticeOk(h)' /\ Suppressing(h)'
    BY <1>1, <1>2, <1>3, <1>9, <2>2, <2>4 DEF NoticeOk, Suppressing, Taken, pipelineVars
  <2> QED BY <1>1, <1>5, <1>6, <2>1, <2>3, <2>5, OneNotice
<1> QED BY <1>7, <1>8, <1>9

LEMMA MarkTerminalStep ==
  ASSUME FeedbackInv, NEW h \in Notices, MarkTerminal(h) PROVE FeedbackInv'
<1> USE DEF FeedbackInv
<1>1. /\ UNCHANGED <<pipelineVars, told, suppressions, events>>
      /\ hook[h].pc = "mark" /\ (outages' = outages \/ outages' = outages + 1)
      /\ \/ emails' = emails
         \/ emails' = UpdateStatus(emails, hook[h].email, StatusOf(hook[h].kind))
  BY DEF MarkTerminal, Attempted, Outage
<1>2. hook[h] \in HookRecords /\ NoticeOk(h) /\ StatusOf(hook[h].kind) \in {"bounced", "complaint"}
  BY DEF HookTypes, NoticesOk, StatusOf
<1>3. /\ hook[h].email \in Requests /\ hook[h].email = hook[h].id[1]
      /\ Stored(emails, hook[h].email) /\ Taken(hook[h].email)
  BY <1>1, <1>2 DEF NoticeOk
<1>4. \/ emails' = emails
      \/ \E e \in Requests : \E s \in {"bounced", "complaint"} :
              /\ Stored(emails, e) /\ Taken(e)
              /\ emails' = UpdateStatus(emails, e, s)
  BY <1>1, <1>2, <1>3
<1>5. EventsBelong' /\ suppressions' \subseteq Addresses
  BY <1>1 DEF EventsBelong, PipelineInv, TypeOK
<1> DEFINE new == [hook[h] EXCEPT !.pc = "suppress"]
<1>6. new \in HookRecords
  BY <1>2, HookRecord DEF HookPcs
<1>7. /\ new.pc = "suppress" /\ new.email = hook[h].email /\ new.id = hook[h].id
      /\ new.outcome = hook[h].outcome /\ new.kind = hook[h].kind
  BY <1>2 DEF HookRecords
<1>8. hook' = [hook EXCEPT ![h] = new]
  BY DEF MarkTerminal, HookTo
<1> HIDE DEF new
<1>9. hook'[h] = new
  BY <1>8 DEF HookTypes
<1>10. Stored(emails', hook[h].email)
  BY <1>1, <1>2, <1>3, StatementEffects DEF Stored, Statuses, PipelineInv, TypeOK
<1>11. NoticeOk(h)' /\ Suppressing(h)'
  BY <1>1, <1>2, <1>3, <1>7, <1>9, <1>10 DEF NoticeOk, Suppressing, Taken, pipelineVars
<1> QED BY <1>1, <1>4, <1>5, <1>6, <1>8, <1>11, OneNotice DEF HookTypes

LEMMA SuppressStep ==
  ASSUME FeedbackInv, NEW h \in Notices, Suppress(h) PROVE FeedbackInv'
<1> USE DEF FeedbackInv
<1>1. /\ UNCHANGED <<pipelineVars, told, emails, events>> /\ hook[h].pc = "suppress"
      /\ \/ /\ suppressions' = suppressions \union {ToOf[hook[h].email]}
            /\ outages' = outages
         \/ suppressions' = suppressions /\ outages' = outages + 1
  BY DEF Suppress, Outage
<1>2. hook[h] \in HookRecords /\ NoticeOk(h) /\ outages \in Nat
  BY DEF HookTypes, NoticesOk, PipelineInv, TypeOK
<1>3. hook[h].email \in Requests /\ hook[h].email = hook[h].id[1]
  BY <1>1, <1>2 DEF NoticeOk
<1>4. EventsBelong' /\ suppressions' \subseteq Addresses
  BY <1>1, <1>3, AddressAssumption DEF EventsBelong, PipelineInv, TypeOK
<1> DEFINE new == [hook[h] EXCEPT !.pc = "done", !.outcome = "processed"]
<1>5. new \in HookRecords
  BY <1>2, HookRecord DEF Outcomes
<1>6. /\ new.pc = "done" /\ new.email = hook[h].email /\ new.id = hook[h].id
      /\ new.outcome = "processed" /\ new.kind = hook[h].kind
  BY <1>2 DEF HookRecords
<1>7. hook' = [hook EXCEPT ![h] = new]
  BY DEF Suppress, Answer
<1> HIDE DEF new
<1>8. hook'[h] = new
  BY <1>7 DEF HookTypes
<1>9. NoticeOk(h)'
  BY <1>1, <1>2, <1>3, <1>6, <1>8 DEF NoticeOk, Taken, pipelineVars
<1>10. Suppressing(h)'
  BY <1>1, <1>2, <1>6, <1>8 DEF Suppressing
<1> QED BY <1>1, <1>4, <1>5, <1>7, <1>9, <1>10, OneNotice DEF HookTypes

LEMMA HookCrashStep ==
  ASSUME FeedbackInv, NEW h \in Notices, HookCrash(h) PROVE FeedbackInv'
<1> USE DEF FeedbackInv
<1>1. /\ UNCHANGED <<pipelineVars, told, emails, suppressions, outages, events>>
      /\ hook[h].pc \in {"lookup", "store", "mark", "suppress"}
  BY DEF HookCrash
<1>2. hook[h] \in HookRecords /\ NoticeOk(h)
  BY DEF HookTypes, NoticesOk
<1>3. EventsBelong' /\ suppressions' \subseteq Addresses
  BY <1>1 DEF EventsBelong, PipelineInv, TypeOK
<1> DEFINE new == [hook[h] EXCEPT !.pc = "crashed"]
<1>4. new \in HookRecords
  BY <1>2, HookRecord DEF HookPcs
<1>5. new.pc = "crashed" /\ new.id = hook[h].id /\ new.outcome = hook[h].outcome
  BY <1>2 DEF HookRecords
<1>6. hook' = [hook EXCEPT ![h] = new]
  BY DEF HookCrash, HookTo
<1> HIDE DEF new
<1>7. hook'[h] = new
  BY <1>6 DEF HookTypes
<1>8. NoticeOk(h)' /\ Suppressing(h)'
  BY <1>1, <1>2, <1>5, <1>7 DEF NoticeOk, Suppressing, Taken, pipelineVars
<1> QED BY <1>1, <1>3, <1>4, <1>6, <1>8, OneNotice DEF HookTypes

\* A recipient who opts out, or an operator who removes a suppression.
LEMMA AddressStep ==
  ASSUME FeedbackInv, NEW a \in Addresses, PostUnsubscribe(a) \/ RemoveSuppression(a)
  PROVE  FeedbackInv'
<1> USE DEF FeedbackInv
<1>1. UNCHANGED <<pipelineVars, emails, hook, events>>
  BY DEF PostUnsubscribe, RemoveSuppression
<1>2. \/ /\ suppressions' = suppressions \union {LowerOf[a]}
         /\ told' = [told EXCEPT ![LowerOf[a]] = "unsubscribed"] /\ outages' = outages
      \/ /\ suppressions' = suppressions \ {LowerOf[a]}
         /\ told' = [told EXCEPT ![LowerOf[a]] = "removed"] /\ outages' = outages
      \/ /\ \/ suppressions' = suppressions
            \/ suppressions' = suppressions \union {LowerOf[a]}
            \/ suppressions' = suppressions \ {LowerOf[a]}
         /\ told' = told \/ told' = [told EXCEPT ![LowerOf[a]] = "nothing"]
         /\ outages' = outages + 1
  BY DEF PostUnsubscribe, RemoveSuppression, Outage
<1>3. /\ outages \in Nat /\ suppressions \subseteq Addresses /\ LowerOf[a] \in Addresses
      /\ LowerOf[LowerOf[a]] = LowerOf[a]
      /\ told \in [Addresses -> {"nothing", "unsubscribed", "removed"}]
  BY LowerAssumption DEF PipelineInv, TypeOK, HookTypes
<1>4. suppressions' \subseteq Addresses /\ outages' \in Nat
  BY <1>2, <1>3
<1>5. PipelineInv'
  BY <1>1, <1>4, PipelineKept
<1>6. IDsBelong' /\ TerminalTaken' /\ NoticesOk' /\ EventsBelong'
  BY <1>1 DEF IDsBelong, TerminalTaken, NoticesOk, NoticeOk, EventsBelong, Taken, pipelineVars
<1>7. HookTypes'
  BY <1>1, <1>2, <1>3 DEF HookTypes
<1>8. ASSUME NEW h \in Notices PROVE Suppressing(h)'
  <2> DEFINE to == ToOf[hook[h].email]
  <2> SUFFICES ASSUME hook[h].outcome = "processed", hook[h].kind \in Terminal
               PROVE  \/ to \in suppressions'
                      \/ outages' > 0
                      \/ LowerOf[to] = to /\ told'[to] = "removed"
    BY <1>1 DEF Suppressing
  <2>1. NoticeOk(h) /\ Suppressing(h)
    BY DEF NoticesOk
  <2>2. hook[h].email \in Requests
    BY <2>1 DEF NoticeOk
  <2>3. to \in Addresses
    BY <2>2, AddressAssumption
  <2>4. \/ to \in suppressions
        \/ outages > 0
        \/ LowerOf[to] = to /\ told[to] = "removed"
    BY <2>1 DEF Suppressing
  <2> HIDE DEF to
  <2> QED BY <1>2, <1>3, <2>3, <2>4
<1> QED BY <1>5, <1>6, <1>7, <1>8

LEMMA FeedbackStep ==
  ASSUME FeedbackInv, FeedbackNext
  PROVE  FeedbackInv'
<1>1. CASE Next /\ UNCHANGED feedbackVars
  <2> USE DEF FeedbackInv
  <2>1. PipelineInv' /\ IDsBelong' /\ TerminalTaken'
    BY <1>1, PipelineStep, PipelineSteps
  <2>2. /\ \A r \in Requests : /\ Taken(r) => Taken(r)'
                               /\ Stored(emails, r) => Stored(emails, r)'
        /\ suppressions' = suppressions /\ outages' \in {outages, outages + 1}
    BY <1>1, PipelineSteps
  <2>3. UNCHANGED <<hook, events, told>> /\ outages \in Nat
    BY <1>1 DEF feedbackVars, PipelineInv, TypeOK
  <2>4. HookTypes' /\ EventsBelong'
    BY <2>3 DEF HookTypes, EventsBelong
  <2>5. ASSUME NEW h \in Notices PROVE NoticeOk(h)' /\ Suppressing(h)'
    <3>1. NoticeOk(h) /\ Suppressing(h)
      BY DEF NoticesOk
    <3>2. hook[h].pc \in {"store", "mark", "suppress"} => hook[h].email \in Requests
      BY <3>1 DEF NoticeOk
    <3>3. hook[h].pc # "idle" => hook[h].id[1] \in Requests /\ Taken(hook[h].id[1])
      BY <3>1 DEF NoticeOk
    <3>4. hook[h].pc # "idle" => Taken(hook[h].id[1])'
      <4>1. hook'[h] = hook[h]
        BY <2>3
      <4>2. ASSUME NEW e \in Requests, Taken(e) PROVE \E n \in Attempts : accepted'[e][n] > 0
        BY <2>2, <4>2 DEF Taken
      <4> QED BY <3>3, <4>1, <4>2 DEF Taken
    <3>5. hook[h].pc \in {"store", "mark", "suppress"} => Stored(emails, hook[h].email)'
      <4>1. hook[h].pc \in {"store", "mark", "suppress"} => Stored(emails, hook[h].email)
        BY <3>1 DEF NoticeOk
      <4>2. hook'[h] = hook[h]
        BY <2>3
      <4>3. hook[h].pc \in {"store", "mark", "suppress"} => Stored(emails', hook[h].email)
        BY <2>2, <3>2, <4>1
      <4> QED BY <4>2, <4>3
    <3>6. NoticeOk(h)'
      BY <2>3, <3>1, <3>4, <3>5 DEF NoticeOk
    <3>7. Suppressing(h)'
      BY <2>2, <2>3, <3>1 DEF Suppressing
    <3> QED BY <3>6, <3>7
  <2> QED BY <2>1, <2>4, <2>5 DEF NoticesOk
<1>2. CASE \E h \in Notices : ProcessResendWebhook(h)
  BY <1>2, ReceiveStep, LookUpStep, StoreEventStep, MarkTerminalStep, SuppressStep,
     HookCrashStep DEF ProcessResendWebhook
<1>3. CASE \E a \in Addresses : PostUnsubscribe(a) \/ RemoveSuppression(a)
  BY <1>3, AddressStep
<1> QED BY <1>1, <1>2, <1>3 DEF FeedbackNext

LEMMA FeedbackInitially == FeedbackInit => FeedbackInv
<1> SUFFICES ASSUME FeedbackInit PROVE FeedbackInv
  OBVIOUS
<1>1. PipelineInv
  BY InitType, InitOwnership, InitOrder, InitAcceptances DEF FeedbackInit, PipelineInv
<1>2. IDsBelong /\ TerminalTaken
  BY DEF FeedbackInit, Init, IDsBelong, TerminalTaken, AbsentRow, NoRun
<1>3. NewNotice \in HookRecords
  BY IDTypes DEF NewNotice, HookRecords, HookPcs, Kinds, Outcomes
<1>4. HookTypes /\ EventsBelong
  BY <1>3 DEF FeedbackInit, HookTypes, EventsBelong
<1>5. ASSUME NEW h \in Notices PROVE NoticeOk(h) /\ Suppressing(h)
  BY DEF FeedbackInit, NewNotice, NoticeOk, Suppressing
<1> QED BY <1>1, <1>2, <1>4, <1>5 DEF FeedbackInv, NoticesOk

THEOREM FeedbackHolds == FeedbackSpec => []FeedbackInv
<1>1. FeedbackInv /\ UNCHANGED allVars => FeedbackInv'
  <2> SUFFICES ASSUME FeedbackInv, UNCHANGED allVars PROVE FeedbackInv'
    OBVIOUS
  <2> USE DEF FeedbackInv
  <2>1. UNCHANGED <<pipelineVars, emails, suppressions, outages, hook, events, told>>
    BY DEF allVars, vars, feedbackVars, pipelineVars
  <2>2. suppressions' \subseteq Addresses /\ outages' \in Nat
    BY <2>1 DEF PipelineInv, TypeOK
  <2>3. PipelineInv'
    BY <2>1, <2>2, PipelineKept
  <2>4. IDsBelong' /\ TerminalTaken' /\ NoticesOk' /\ EventsBelong' /\ HookTypes'
    BY <2>1 DEF IDsBelong, TerminalTaken, NoticesOk, NoticeOk, EventsBelong, HookTypes,
                Taken, pipelineVars
  <2>5. \A h \in Notices : Suppressing(h)'
    BY <2>1 DEF Suppressing
  <2> QED BY <2>3, <2>4, <2>5
<1> QED BY <1>1, FeedbackInitially, FeedbackStep, PTL DEF FeedbackSpec

-----------------------------------------------------------------------------
(* The theorems *)

\* Every variable of the pipeline and of the feedback on it keeps its type.
THEOREM FeedbackTypes == FeedbackSpec => []FeedbackTypeOK
<1>1. FeedbackInv => FeedbackTypeOK
  BY DEF FeedbackInv, PipelineInv, HookTypes, HookRecords, FeedbackTypeOK
<1> QED BY <1>1, FeedbackHolds, PTL

\* Every event that StoreEvent records is recorded with the email whose message
\* it is about, however attempts overwrite resend_email_id.
THEOREM EventsAreOwn == FeedbackSpec => []EventsBelong
<1>1. FeedbackInv => EventsBelong
  BY DEF FeedbackInv
<1> QED BY <1>1, FeedbackHolds, PTL

\* A bounce or complaint that was processed keeps its recipient out, unless the
\* database failed or an operator removed the address.
THEOREM ProcessedOut == FeedbackSpec => []ProcessedSuppresses
<1>1. FeedbackInv => ProcessedSuppresses
  BY DEF FeedbackInv, Suppressing, ProcessedSuppresses, Terminal
<1> QED BY <1>1, FeedbackHolds, PTL

\* The status of a bounced email is replaced by late writes only: those its
\* request and its sending attempt still had to make, or after an incident.
THEOREM TerminalLost == FeedbackSpec => TerminalLostOnlyToLateWrites
<1> DEFINE Late(r) ==
      \/ \E h \in Notices :
           /\ hook[h].pc = "mark" /\ hook[h].email = r
           /\ hook[h].kind \in {"email.bounced", "email.complained"}
      \/ emails'[r].status = "queued" /\ api[r].pc = "markQueued"
      \/ emails'[r].status = "failed" /\ api[r].pc = "markFailed"
      \/ emails'[r].status = "sent" /\ \E n \in Attempts : run[r][n].pc = "MarkSent"
      \/ \E n \in Attempts : faults[r][n] > 0
<1>1. ASSUME FeedbackInv, Next, NEW r \in Requests,
             emails[r].status \in {"bounced", "complaint"},
             emails'[r].status # emails[r].status
      PROVE  Late(r)
  <2>1. TypeOK /\ OwnershipInv /\ Order /\ Acceptances /\ Stored(emails, r) /\ Taken(r)
    BY <1>1 DEF FeedbackInv, PipelineInv, TerminalTaken, Stored
  <2> SUFFICES ASSUME \A n \in Attempts : ~(faults[r][n] > 0) PROVE Late(r)
    OBVIOUS
  <2>2. \A n \in Attempts : Live(r, n) => run[r][n].pc \in AfterAccept
    BY <2>1, TakenIsLast
  <2>3. \A n \in Attempts : ByAttempt(r, n) =>
          emails'[r].status = "sent" /\ run[r][n].pc = "MarkSent"
    BY <1>1, <2>2 DEF ByAttempt, AfterAccept
  <2> QED BY <1>1, <2>1, <2>3, RowWrites DEF ByRequest
<1>2. ASSUME FeedbackInv, NEW r \in Requests, emails'[r].status # emails[r].status,
             NEW h \in Notices, ProcessResendWebhook(h)
      PROVE  Late(r)
  <2>1. /\ hook[h].pc = "mark"
        /\ emails' = UpdateStatus(emails, hook[h].email, StatusOf(hook[h].kind))
    BY <1>2 DEF ProcessResendWebhook, Receive, LookUp, StoreEvent, MarkTerminal, Suppress,
                HookCrash, Attempted
  <2>2. NoticeOk(h) /\ emails \in [Requests -> Rows]
    BY <1>2 DEF FeedbackInv, NoticesOk, PipelineInv, TypeOK
  <2>3. hook[h].email \in Requests /\ hook[h].kind \in Terminal
    BY <2>1, <2>2 DEF NoticeOk
  <2>4. StatusOf(hook[h].kind) \in Statuses
    BY DEF StatusOf, Statuses
  <2>5. hook[h].email = r
    BY <1>2, <2>1, <2>2, <2>3, <2>4, StatementEffects
  <2> QED BY <2>1, <2>3, <2>5 DEF Terminal
<1>3. ASSUME NEW a \in Addresses, PostUnsubscribe(a) \/ RemoveSuppression(a)
      PROVE  emails' = emails
  BY <1>3 DEF PostUnsubscribe, RemoveSuppression
<1>4. FeedbackInv /\ FeedbackNext =>
        \A r \in Requests :
          emails[r].status \in {"bounced", "complaint"} /\ emails'[r].status # emails[r].status
            => Late(r)
  BY <1>1, <1>2, <1>3 DEF FeedbackNext
<1>5. FeedbackInv /\ [FeedbackNext]_allVars =>
        [\A r \in Requests :
          emails[r].status \in {"bounced", "complaint"} /\ emails'[r].status # emails[r].status
            => Late(r)]_allVars
  BY <1>4
<1> QED BY <1>5, FeedbackHolds, PTL DEF FeedbackSpec, TerminalLostOnlyToLateWrites

-----------------------------------------------------------------------------
(* Events that find no row *)

\* With nothing failing, an event to look up is about the one message that an
\* attempt has had taken.
LookUpInv ==
  Calm =>
    /\ Undisturbed
    /\ \A r \in Requests : CalmID(r)
    /\ \A h \in Notices : hook[h].pc = "lookup" =>
         \E r \in Requests, n \in Attempts :
           hook[h].id = <<r, n, 1>> /\ accepted[r][n] > 0

LEMMA LookUpPipeline ==
  ASSUME FeedbackInv, LookUpInv, Next, UNCHANGED feedbackVars
  PROVE  LookUpInv'
<1> SUFFICES ASSUME Calm'
             PROVE  /\ Undisturbed'
                    /\ \A r \in Requests : CalmID(r)'
                    /\ \A h \in Notices : hook'[h].pc = "lookup" =>
                         \E r \in Requests, n \in Attempts :
                           hook'[h].id = <<r, n, 1>> /\ accepted'[r][n] > 0
  BY DEF LookUpInv
<1>1. TypeOK /\ OwnershipInv /\ Order /\ Acceptances
  BY DEF FeedbackInv, PipelineInv
<1>2. Calm
  BY <1>1, CalmBefore
<1>3. Undisturbed /\ \A r \in Requests : CalmID(r)
  BY <1>2 DEF LookUpInv
<1>4. Undisturbed' /\ \A r \in Requests : CalmID(r)'
  BY <1>1, <1>3, UndisturbedStep, EveryCalmStep, CalmIDStep
<1>5. \A r \in Requests, n \in Attempts : accepted[r][n] > 0 => accepted'[r][n] > 0
  BY <1>1, SentOnlyAfterAccept DEF OwnershipInv
<1>6. hook' = hook
  BY DEF feedbackVars
<1> QED BY <1>2, <1>4, <1>5, <1>6 DEF LookUpInv

\* Outside the pipeline nothing happens to ids and attempts.
LEMMA IDsKept ==
  ASSUME FeedbackInv, UNCHANGED pipelineVars,
         \/ emails' = emails
         \/ \E e \in Requests, s \in Statuses : emails' = UpdateStatus(emails, e, s)
  PROVE  /\ Undisturbed => Undisturbed'
         /\ \A r \in Requests : CalmID(r) => CalmID(r)'
<1>1. \A r \in Requests : emails'[r].resendID = emails[r].resendID
  <2>1. emails \in [Requests -> Rows]
    BY DEF FeedbackInv, PipelineInv, TypeOK
  <2>2. ASSUME NEW e \in Requests, NEW s \in Statuses, emails' = UpdateStatus(emails, e, s),
               NEW r \in Requests
        PROVE  emails'[r].resendID = emails[r].resendID
    BY <2>1, <2>2 DEF UpdateStatus, Rows
  <2> QED BY <2>2
<1> QED BY <1>1 DEF Undisturbed, CalmID, At, Over, pipelineVars

LEMMA LookUpHook ==
  ASSUME FeedbackInv, LookUpInv, NEW h \in Notices, ProcessResendWebhook(h)
  PROVE  LookUpInv'
<1> SUFFICES ASSUME Calm' PROVE LookUpInv'
  BY DEF LookUpInv
<1>1. /\ TypeOK /\ Order /\ Acceptances /\ UNCHANGED pipelineVars
      /\ hook \in [Notices -> HookRecords]
  BY DEF FeedbackInv, PipelineInv, HookTypes, ProcessResendWebhook, Receive, LookUp,
         StoreEvent, MarkTerminal, Suppress, HookCrash
<1>2. Calm
  <2>1. outages' = outages \/ outages' = outages + 1
    BY DEF ProcessResendWebhook, Receive, LookUp, StoreEvent, MarkTerminal, Suppress,
           HookCrash, Attempted, Outage
  <2>2. outages \in Nat
    BY <1>1 DEF TypeOK
  <2> QED BY <1>1, <2>1, <2>2 DEF Calm, pipelineVars
<1>3. \/ emails' = emails
      \/ \E e \in Requests, s \in Statuses : emails' = UpdateStatus(emails, e, s)
  <2>1. hook[h].pc = "mark" => hook[h].email \in Requests
    BY DEF FeedbackInv, NoticesOk, NoticeOk
  <2>2. StatusOf(hook[h].kind) \in Statuses
    BY DEF StatusOf, Statuses
  <2> QED BY <2>1, <2>2 DEF ProcessResendWebhook, Receive, LookUp, StoreEvent, MarkTerminal,
                            Suppress, HookCrash, Attempted
<1>4. Undisturbed' /\ \A r \in Requests : CalmID(r)'
  BY <1>1, <1>2, <1>3, IDsKept DEF LookUpInv
<1>5. ASSUME NEW g \in Notices, hook'[g].pc = "lookup"
      PROVE  \E r \in Requests, n \in Attempts :
               hook'[g].id = <<r, n, 1>> /\ accepted'[r][n] > 0
  <2>1. accepted' = accepted
    BY <1>1 DEF pipelineVars
  <2>2. CASE hook'[g] = hook[g]
    BY <1>2, <1>5, <2>1, <2>2 DEF LookUpInv
  <2>3. CASE hook'[g] # hook[g]
    <3>1. g = h
      BY <1>1, <2>3 DEF ProcessResendWebhook, Receive, LookUp, StoreEvent, MarkTerminal,
                        Suppress, HookCrash, HookTo, Answer
    <3>2. Receive(h)
      <4>1. hook[h] \in HookRecords
        BY <1>1
      <4>2. \A pc \in HookPcs : HookTo(h, pc) => hook'[h].pc = pc
        BY <1>1, <4>1 DEF HookTo, HookRecords
      <4>3. \A o \in Outcomes : Answer(h, o) => hook'[h].pc = "done"
        BY <1>1, <4>1 DEF Answer, HookRecords
      <4>4. ASSUME NEW e, hook' = [hook EXCEPT ![h] = [hook[h] EXCEPT !.pc = "store", !.email = e]]
            PROVE  hook'[h].pc = "store"
        BY <1>1, <4>1, <4>4 DEF HookRecords
      <4>5. LookUp(h) => hook'[h].pc \in {"store", "done"}
        BY <4>3, <4>4 DEF LookUp, Outcomes
      <4> QED BY <1>5, <3>1, <4>2, <4>3, <4>5
              DEF ProcessResendWebhook, StoreEvent, MarkTerminal, Suppress, HookCrash, HookPcs,
                  Outcomes
    <3>3. PICK r \in Requests, n \in Attempts, kind \in Kinds : \E i \in 1..accepted[r][n] :
            hook' = [hook EXCEPT ![h] =
                       [hook[h] EXCEPT !.pc = "lookup", !.kind = kind, !.id = <<r, n, i>>]]
      BY <3>2 DEF Receive
    <3>4. PICK i \in 1..accepted[r][n] :
            hook' = [hook EXCEPT ![h] =
                       [hook[h] EXCEPT !.pc = "lookup", !.kind = kind, !.id = <<r, n, i>>]]
      BY <3>3
    <3>5. accepted[r][n] \in Nat /\ accepted[r][n] <= 1
      <4>1. accepted[r][n] \in Nat
        BY <1>1 DEF TypeOK
      <4>2. Undisturbed
        BY <1>2 DEF LookUpInv
      <4> QED BY <1>1, <4>1, <4>2, TakenOnce
    <3>6. i = 1 /\ accepted[r][n] > 0
      BY <3>5
    <3>7. hook'[h].id = <<r, n, 1>>
      <4> DEFINE new == [hook[h] EXCEPT !.pc = "lookup", !.kind = kind, !.id = <<r, n, 1>>]
      <4>1. new.id = <<r, n, 1>>
        BY <1>1 DEF HookRecords
      <4>2. hook' = [hook EXCEPT ![h] = new]
        BY <3>4, <3>6
      <4> HIDE DEF new
      <4> QED BY <1>1, <4>1, <4>2
    <3> QED BY <2>1, <3>1, <3>6, <3>7
  <2> QED BY <2>2, <2>3
<1> QED BY <1>4, <1>5 DEF LookUpInv

LEMMA LookUpAddress ==
  ASSUME FeedbackInv, LookUpInv, NEW a \in Addresses,
         PostUnsubscribe(a) \/ RemoveSuppression(a)
  PROVE  LookUpInv'
<1>1. UNCHANGED <<pipelineVars, emails, hook>>
  BY DEF PostUnsubscribe, RemoveSuppression
<1>2. Calm' => Calm
  <2>1. outages' = outages \/ outages' = outages + 1
    BY DEF PostUnsubscribe, RemoveSuppression, Outage
  <2>2. outages \in Nat
    BY DEF FeedbackInv, PipelineInv, TypeOK
  <2> QED BY <1>1, <2>1, <2>2 DEF Calm, pipelineVars
<1>3. /\ Undisturbed => Undisturbed'
      /\ \A r \in Requests : CalmID(r) => CalmID(r)'
  BY <1>1, IDsKept
<1> QED BY <1>1, <1>2, <1>3 DEF LookUpInv, pipelineVars

\* With Resend, an event that finds no row although nothing fails came while
\* ProcessEmail held the id of its message and had not stored it.
LEMMA IgnoredStep ==
  ASSUME FeedbackInv, LookUpInv, ReturnsID, FeedbackNext, Calm',
         NEW h \in Notices, hook[h].pc = "lookup", hook'[h].outcome = "unknown"
  PROVE  LET id == hook[h].id
         IN  run[id[1]][id[2]].pc = "StoreID" /\ run[id[1]][id[2]].id = id
<1>1. /\ TypeOK /\ OwnershipInv /\ Order /\ Acceptances /\ hook \in [Notices -> HookRecords]
      /\ outages \in Nat /\ emails \in [Requests -> Rows]
  BY DEF FeedbackInv, PipelineInv, HookTypes, TypeOK
<1>2. hook'[h] # hook[h]
  BY DEF FeedbackInv, NoticesOk, NoticeOk
<1>3. PICK g \in Notices : ProcessResendWebhook(g)
  BY <1>2 DEF FeedbackNext, feedbackVars, PostUnsubscribe, RemoveSuppression
<1>4. LookUp(h)
  <2>1. g = h
    BY <1>1, <1>2, <1>3 DEF ProcessResendWebhook, Receive, LookUp, StoreEvent, MarkTerminal,
                            Suppress, HookCrash, HookTo, Answer
  <2>2. ~HookCrash(h)
    <3> SUFFICES ASSUME HookTo(h, "crashed") PROVE FALSE
      BY DEF HookCrash
    <3> DEFINE new == [hook[h] EXCEPT !.pc = "crashed"]
    <3>1. hook[h].outcome = "none" /\ hook[h] \in HookRecords
      BY <1>1 DEF FeedbackInv, NoticesOk, NoticeOk
    <3>2. new.outcome = "none"
      BY <3>1 DEF HookRecords
    <3>3. hook'[h] = new
      BY <1>1 DEF HookTo
    <3> HIDE DEF new
    <3> QED BY <3>2, <3>3
  <2> QED BY <1>3, <2>1, <2>2 DEF ProcessResendWebhook, Receive, StoreEvent, MarkTerminal,
                                  Suppress
<1>5. Calm /\ ~Outage
  <2>1. UNCHANGED pipelineVars /\ (outages' = outages \/ outages' = outages + 1)
    BY <1>4 DEF LookUp, Outage
  <2> QED BY <1>1, <2>1 DEF Calm, Outage, pipelineVars
<1>6. GetByResendEmailID(emails, hook[h].id) = {}
  <2>1. ASSUME NEW e \in Requests,
               hook' = [hook EXCEPT ![h] = [hook[h] EXCEPT !.pc = "store", !.email = e]]
        PROVE  FALSE
    <3>1. hook[h].outcome = "none" /\ hook[h] \in HookRecords
      BY <1>1 DEF FeedbackInv, NoticesOk, NoticeOk
    <3> DEFINE new == [hook[h] EXCEPT !.pc = "store", !.email = e]
    <3>2. new.outcome = "none"
      BY <3>1 DEF HookRecords
    <3>3. hook'[h] = new
      BY <1>1, <2>1
    <3> HIDE DEF new
    <3> QED BY <3>2, <3>3
  <2> QED BY <1>1, <1>4, <1>5, <2>1 DEF LookUp, GetByResendEmailID
<1>7. PICK r \in Requests, n \in Attempts : hook[h].id = <<r, n, 1>> /\ accepted[r][n] > 0
  BY <1>5 DEF LookUpInv
<1>8. /\ accepted[r][n] \in Nat /\ n = task[r].retried
      /\ \/ task[r].state = "completed"
         \/ Live(r, n) /\ run[r][n].pc \in AfterAccept
  <2>1. accepted[r][n] \in Nat /\ Undisturbed
    BY <1>1, <1>5 DEF TypeOK, LookUpInv
  <2> QED BY <1>1, <1>7, <2>1, TakenOnce
<1>9. CalmID(r) /\ (Live(r, n) => task[r].state = "active")
  BY <1>1, <1>5 DEF LookUpInv, Order, LiveIsNewest
<1>10. emails[r].resendID # <<r, n, 1>>
  <2>1. <<r, n, 1>> # NoID
    BY DEF NoID
  <2>2. DOMAIN emails = Requests
    BY <1>1
  <2> QED BY <1>6, <1>7, <2>1, <2>2 DEF GetByResendEmailID
<1>11. run[r][n].pc = "StoreID" /\ run[r][n].id = <<r, n, 1>>
  BY <1>8, <1>9, <1>10 DEF CalmID, At, Over, AfterAccept
<1> QED BY <1>7, <1>11

THEOREM IgnoredInTheWindow == ReturnsID => (FeedbackSpec => IgnoredOnlyInTheWindow)
<1> SUFFICES ASSUME ReturnsID PROVE FeedbackSpec => IgnoredOnlyInTheWindow
  OBVIOUS
<1> DEFINE Window ==
      \A h \in Notices :
        hook[h].pc = "lookup" /\ hook'[h].outcome = "unknown" /\ Calm' =>
          LET id == hook[h].id
          IN  run[id[1]][id[2]].pc = "StoreID" /\ run[id[1]][id[2]].id = id
<1>1. FeedbackInit => LookUpInv
  <2> SUFFICES ASSUME FeedbackInit PROVE LookUpInv
    OBVIOUS
  <2>1. Undisturbed /\ \A h \in Notices : hook[h].pc = "idle"
    BY DEF FeedbackInit, Init, Undisturbed, NewRequest, NoRun, NewNotice
  <2>2. \A r \in Requests : task[r].state = "none"
    BY DEF FeedbackInit, Init, NoTask
  <2>3. \A r \in Requests : CalmID(r)
    BY <2>2 DEF CalmID, At, Over
  <2> QED BY <2>1, <2>3 DEF LookUpInv
<1>2. FeedbackInv /\ LookUpInv /\ [FeedbackNext]_allVars => LookUpInv'
  <2>1. ASSUME FeedbackInv, LookUpInv, FeedbackNext PROVE LookUpInv'
    BY <2>1, LookUpPipeline, LookUpHook, LookUpAddress DEF FeedbackNext
  <2>2. ASSUME LookUpInv, UNCHANGED allVars PROVE LookUpInv'
    BY <2>2 DEF allVars, vars, feedbackVars, LookUpInv, Calm, Undisturbed, CalmID, At, Over
  <2> QED BY <2>1, <2>2
<1>3. FeedbackInv /\ LookUpInv /\ [FeedbackNext]_allVars => [Window]_allVars
  BY IgnoredStep
<1> QED BY <1>1, <1>2, <1>3, FeedbackHolds, PTL DEF FeedbackSpec, IgnoredOnlyInTheWindow

-----------------------------------------------------------------------------
(* What the pipeline promises, among webhooks, recipients and operators *)

\* What rows are worth: their retry_count, "sent" and sent_at.
RowsInv == CountsOk /\ SentTaken /\ SentMeansAccepted

\* What TLC checks of the pipeline by itself, whatever else happens to its
\* tables: what Send answers, what is left behind, when the provider takes an
\* email twice, when one is given up, and what sent_at and retry_count say.
PipelinePromises ==
  /\ OneTaskPerEmail /\ AnswersAreBacked /\ StrandedOnlyByFailure
  /\ DuplicateOnlyAfterIncident /\ AbandonedOnlyAfterEveryAttempt
  /\ SentMeansAccepted /\ RetryCountExplained

LEMMA PromisesFollow ==
  ASSUME PipelineInv, RowsInv PROVE PipelinePromises
<1>1. RetryCountExplained
  BY DEF RowsInv, CountsOk, CountOk, RetryCountExplained
<1> QED BY <1>1, OwnersPromises, AttemptsPromises DEF PipelineInv, RowsInv, PipelinePromises

LEMMA RowsInitially == Init => RowsInv
  BY MaxRetriesAssumption
  DEF Init, RowsInv, CountsOk, CountOk, SentTaken, SentMeansAccepted, AbsentRow, NoTask

LEMMA RowsStep ==
  ASSUME PipelineInv, PipelineInv', RowsInv, Next PROVE RowsInv'
<1>1. CountsOk'
  BY CountsStep DEF PipelineInv, RowsInv
<1>2. SentTaken'
  BY SentTakenStep DEF PipelineInv, RowsInv
<1>3. SentMeansAccepted'
  BY SentOnlyAfterAccept DEF PipelineInv, OwnershipInv, RowsInv, SentMeansAccepted, Taken
<1> QED BY <1>1, <1>2, <1>3 DEF RowsInv

\* A bounce or complaint is no report of a delivery or of an attempt.
LEMMA RowsBeside ==
  ASSUME PipelineInv, RowsInv, UNCHANGED pipelineVars,
         \/ emails' = emails
         \/ \E e \in Requests, s \in {"bounced", "complaint"} :
              emails' = UpdateStatus(emails, e, s)
  PROVE  RowsInv'
<1>1. emails \in [Requests -> Rows]
  BY DEF PipelineInv, TypeOK
<1>2. \A r \in Requests :
        /\ emails'[r].retryCount = emails[r].retryCount
        /\ emails'[r].sentAt = emails[r].sentAt
        /\ emails'[r].status = "sent" => emails[r].status = "sent"
  <2>1. ASSUME NEW e \in Requests, NEW s \in {"bounced", "complaint"},
               emails' = UpdateStatus(emails, e, s), NEW r \in Requests
        PROVE  /\ emails'[r].retryCount = emails[r].retryCount
               /\ emails'[r].sentAt = emails[r].sentAt
               /\ emails'[r].status = "sent" => emails[r].status = "sent"
    BY <1>1, <2>1 DEF UpdateStatus, Rows
  <2> QED BY <2>1
<1>3. CountsOk'
  BY <1>2 DEF RowsInv, CountsOk, CountOk, Uncounted, Live, pipelineVars
<1>4. SentTaken' /\ SentMeansAccepted'
  BY <1>2 DEF RowsInv, SentTaken, SentMeansAccepted, Taken, pipelineVars
<1> QED BY <1>3, <1>4 DEF RowsInv

\* What a webhook request does to the rows.
LEMMA HookWrites ==
  ASSUME FeedbackInv, NEW h \in Notices, ProcessResendWebhook(h)
  PROVE  /\ UNCHANGED pipelineVars
         /\ \/ emails' = emails
            \/ \E e \in Requests, s \in {"bounced", "complaint"} :
                 emails' = UpdateStatus(emails, e, s)
<1>1. hook[h].pc = "mark" => hook[h].email \in Requests
  BY DEF FeedbackInv, NoticesOk, NoticeOk
<1>2. StatusOf(hook[h].kind) \in {"bounced", "complaint"}
  BY DEF StatusOf
<1> QED BY <1>1, <1>2 DEF ProcessResendWebhook, Receive, LookUp, StoreEvent, MarkTerminal,
                          Suppress, HookCrash, Attempted

\* Whatever webhooks, recipients and operators write, and whenever, the
\* pipeline keeps every one of its promises.
THEOREM PromisesKept == FeedbackSpec => []PipelinePromises
<1>1. FeedbackInit => RowsInv
  BY RowsInitially DEF FeedbackInit
<1>2. FeedbackInv /\ FeedbackInv' /\ RowsInv /\ [FeedbackNext]_allVars => RowsInv'
  <2> SUFFICES ASSUME FeedbackInv, FeedbackInv', RowsInv, [FeedbackNext]_allVars
               PROVE  RowsInv'
    OBVIOUS
  <2>1. PipelineInv /\ PipelineInv'
    BY DEF FeedbackInv
  <2>2. CASE Next /\ UNCHANGED feedbackVars
    BY <2>1, <2>2, RowsStep
  <2>3. CASE \E h \in Notices : ProcessResendWebhook(h)
    BY <2>1, <2>3, HookWrites, RowsBeside
  <2>4. CASE \E a \in Addresses : PostUnsubscribe(a) \/ RemoveSuppression(a)
    BY <2>1, <2>4, RowsBeside DEF PostUnsubscribe, RemoveSuppression
  <2>5. CASE UNCHANGED allVars
    BY <2>1, <2>5, RowsBeside DEF allVars, vars, pipelineVars
  <2> QED BY <2>2, <2>3, <2>4, <2>5 DEF FeedbackNext
<1>3. FeedbackInv /\ RowsInv => PipelinePromises
  BY PromisesFollow DEF FeedbackInv
<1> QED BY <1>1, <1>2, <1>3, FeedbackHolds, PTL DEF FeedbackSpec

\* The pipeline still implements Delivery among them: what they do to its
\* tables can hold no attempt up, cause none and undo none.
THEOREM FeedbackDelivers == FeedbackSpec => ImplementsDelivery
<1>1. FeedbackInit => D!DeliveryInit
  BY InitDelivers DEF FeedbackInit
<1>2. FeedbackInv /\ [FeedbackNext]_allVars => [D!DeliveryNext]_(D!dvars)
  <2> SUFFICES ASSUME FeedbackInv, [FeedbackNext]_allVars PROVE [D!DeliveryNext]_(D!dvars)
    OBVIOUS
  <2>1. CASE Next /\ UNCHANGED feedbackVars
    BY <2>1, StepDelivers DEF FeedbackInv, PipelineInv
  <2>2. CASE ~(Next /\ UNCHANGED feedbackVars)
    <3>1. UNCHANGED <<task, run, accepted>>
      BY <2>2, HookWrites
      DEF FeedbackNext, PostUnsubscribe, RemoveSuppression, allVars, vars, pipelineVars
    <3> QED BY <3>1, OutsideUnseen
  <2> QED BY <2>1, <2>2
<1> QED BY <1>1, <1>2, FeedbackHolds, PTL DEF FeedbackSpec, ImplementsDelivery, D!DeliverySpec

-----------------------------------------------------------------------------
(* What "You will no longer receive emails from WASBOT" is worth *)

\* Whoever was told so last is on the suppression list, as it was looked up.
OptOutInv == \A a \in Addresses : told[a] = "unsubscribed" => a \in suppressions

LEMMA OptOutStep ==
  ASSUME FeedbackInv, OptOutInv, [FeedbackNext]_allVars PROVE OptOutInv'
<1>1. /\ PipelineInv /\ IDsBelong /\ TerminalTaken
      /\ told \in [Addresses -> {"nothing", "unsubscribed", "removed"}]
  BY DEF FeedbackInv, HookTypes
<1>2. CASE Next /\ UNCHANGED feedbackVars
  BY <1>1, <1>2, PipelineSteps DEF OptOutInv, feedbackVars
<1>3. CASE \E h \in Notices : ProcessResendWebhook(h)
  <2>1. told' = told /\ suppressions \subseteq suppressions'
    BY <1>3 DEF ProcessResendWebhook, Receive, LookUp, StoreEvent, MarkTerminal, Suppress,
                HookCrash
  <2> QED BY <2>1 DEF OptOutInv
<1>4. CASE \E a \in Addresses : PostUnsubscribe(a) \/ RemoveSuppression(a)
  BY <1>1, <1>4, LowerAssumption DEF OptOutInv, PostUnsubscribe, RemoveSuppression
<1>5. CASE UNCHANGED allVars
  BY <1>5 DEF OptOutInv, allVars, vars, feedbackVars
<1> QED BY <1>2, <1>3, <1>4, <1>5 DEF FeedbackNext

\* A request gets past the check only if its recipient is not suppressed or the
\* list could not be read.
LEMMA PastTheCheck ==
  ASSUME FeedbackInv, FeedbackNext, NEW r \in Requests,
         api[r].pc = "idle", api'[r].pc = "create"
  PROVE  ToOf[r] \notin suppressions \/ outages' # outages
<1>1. api \in [Requests -> Answered] /\ outages \in Nat
  BY DEF FeedbackInv, PipelineInv, TypeOK
<1>2. PICK s \in Requests : CheckSuppressed(s) \/ ApiStep(s) \/ ApiCrash(s)
  <2>1. api' # api
    OBVIOUS
  <2>2. Next
    BY <2>1, HookWrites DEF FeedbackNext, PostUnsubscribe, RemoveSuppression, pipelineVars
  <2>3. \A s \in Requests : ~AsynqStep(s)
    BY <2>1 DEF AsynqStep, Dequeue, Recover, apiVars
  <2>4. \A s \in Requests, n \in Attempts :
          ~Timeout(s, n) /\ ~WorkerCrash(s, n) /\ ~Shutdown(s, n)
    BY <2>1 DEF Timeout, WorkerCrash, Shutdown, apiVars
  <2>5. \A s \in Requests, n \in Attempts : ~ProcessEmail(s, n)
    BY <2>1 DEF ProcessEmail, GetByID, MarkSending, Send, IncrementRetryCount, MarkFailure,
                StoreProviderID, MarkAsSent, Return, apiVars
  <2> QED BY <2>2, <2>3, <2>4, <2>5 DEF Next
<1>3. s = r
  BY <1>1, <1>2 DEF CheckSuppressed, ApiStep, RejectContent, CreateOrGet, Enqueue, MarkFailed,
                    MarkQueued, ApiCrash, Respond, Goto
<1>4. CheckSuppressed(r)
  BY <1>1, <1>2, <1>3 DEF ApiStep, RejectContent, CreateOrGet, Enqueue, MarkFailed,
                          MarkQueued, ApiCrash, Respond
<1>5. ~Respond(r, "suppressed")
  <2> SUFFICES ASSUME Respond(r, "suppressed") PROVE FALSE
    OBVIOUS
  <2> DEFINE new == [api[r] EXCEPT !.pc = "done", !.answer = "suppressed"]
  <2>1. new.pc = "done"
    BY <1>1 DEF Answered
  <2>2. api'[r] = new
    BY <1>1 DEF Respond
  <2> HIDE DEF new
  <2> QED BY <2>1, <2>2
<1> QED BY <1>1, <1>4, <1>5 DEF CheckSuppressed, Outage

\* Where every request writes its recipient in lower case the promise holds:
\* the case of the address is all that breaks it (PostUnsubscribe lower-cases,
\* Send does not).
THEOREM OptOutHolds ==
  (\A r \in Requests : LowerOf[ToOf[r]] = ToOf[r]) => (FeedbackSpec => OptedOutIsNotMailed)
<1> SUFFICES ASSUME \A r \in Requests : LowerOf[ToOf[r]] = ToOf[r]
             PROVE  FeedbackSpec => OptedOutIsNotMailed
  OBVIOUS
<1> DEFINE Kept ==
      \A r \in Requests :
        told[LowerOf[ToOf[r]]] = "unsubscribed" /\ api[r].pc = "idle" /\ api'[r].pc = "create"
          => outages' # outages
<1>1. FeedbackInit => OptOutInv
  BY DEF FeedbackInit, OptOutInv
<1>2. FeedbackInv /\ OptOutInv /\ [FeedbackNext]_allVars => OptOutInv'
  BY OptOutStep
<1>3. FeedbackInv /\ OptOutInv /\ [FeedbackNext]_allVars => [Kept]_allVars
  <2>1. ASSUME FeedbackInv, OptOutInv, FeedbackNext, NEW r \in Requests,
               told[LowerOf[ToOf[r]]] = "unsubscribed",
               api[r].pc = "idle", api'[r].pc = "create"
        PROVE  outages' # outages
    <3>1. ToOf[r] \in suppressions
      BY <2>1, AddressAssumption DEF OptOutInv
    <3> QED BY <2>1, <3>1, PastTheCheck
  <2>2. FeedbackInv /\ OptOutInv /\ FeedbackNext => Kept
    BY <2>1
  <2> HIDE DEF Kept
  <2> QED BY <2>2
<1> QED BY <1>1, <1>2, <1>3, FeedbackHolds, PTL DEF FeedbackSpec, OptedOutIsNotMailed
=============================================================================
