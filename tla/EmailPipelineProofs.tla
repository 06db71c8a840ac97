-------------------------- MODULE EmailPipelineProofs -------------------------
(* Proofs about EmailPipeline, for any requests, keys, number of retries and   *)
(* failures.                                                                   *)
EXTENDS EmailPipelineProps, TLAPS


-----------------------------------------------------------------------------
(* Types *)

LEMMA IDTypes ==
  /\ NoID \in IDs
  /\ \A r \in Requests, n \in Attempts, i \in Nat : <<r, n, i>> \in IDs
  BY DEF IDs

LEMMA InitType == Init => TypeOK
  BY MaxRetriesAssumption, IDTypes
  DEF Init, TypeOK, NewRequest, NoTask, NoRun, AbsentRow, ApiPcs, Answers,
      TaskStates, RunPcs, Rows, Answered, Tasks, Runs, Attempts

\* Each statement of the repository keeps the table's type.
LEMMA StatementTypes ==
  ASSUME NEW t \in [Requests -> Rows], NEW e \in Requests
  PROVE  /\ Create(t, e) \in [Requests -> Rows]
         /\ \A s \in Statuses : UpdateStatus(t, e, s) \in [Requests -> Rows]
         /\ IncrementRetry(t, e) \in [Requests -> Rows]
         /\ MarkSent(t, e) \in [Requests -> Rows]
         /\ \A id \in IDs : UpdateResendEmailID(t, e, id) \in [Requests -> Rows]
<1> USE DEF Rows, Statuses
<1>1. Create(t, e) \in [Requests -> Rows]
  BY IDTypes DEF Create, AbsentRow
<1>2. \A s \in Statuses : UpdateStatus(t, e, s) \in [Requests -> Rows]
  BY DEF UpdateStatus
<1>3. IncrementRetry(t, e) \in [Requests -> Rows]
  <2>1. t[e].retryCount + 1 \in Nat
    OBVIOUS
  <2>2. [t[e] EXCEPT !.retryCount = t[e].retryCount + 1] \in Rows
    BY <2>1
  <2> HIDE DEF Rows
  <2>3. IncrementRetry(t, e) = [t EXCEPT ![e] = [t[e] EXCEPT !.retryCount = t[e].retryCount + 1]]
    BY DEF IncrementRetry
  <2> QED BY <2>2, <2>3
<1>4. MarkSent(t, e) \in [Requests -> Rows]
  BY DEF MarkSent
<1>5. \A id \in IDs : UpdateResendEmailID(t, e, id) \in [Requests -> Rows]
  BY DEF UpdateResendEmailID
<1> QED BY <1>1, <1>2, <1>3, <1>4, <1>5

\* An update of one entry of a function of functions.
LEMMA Update2 ==
  ASSUME NEW R, NEW A, NEW T, NEW f \in [R -> [A -> T]], NEW r \in R, NEW n \in A,
         NEW x \in T, NEW g, g = [f EXCEPT ![r][n] = x]
  PROVE  /\ g \in [R -> [A -> T]]
         /\ g[r][n] = x
         /\ \A s \in R, m \in A : s # r \/ m # n => g[s][m] = f[s][m]
  OBVIOUS

\* What a step can do to the execution of one attempt.
LEMMA RunTypes ==
  ASSUME NEW x \in Runs
  PROVE  /\ \A pc \in RunPcs : [x EXCEPT !.pc = pc] \in Runs
         /\ \A pc \in RunPcs, c \in Nat : [x EXCEPT !.pc = pc, !.retryCount = c] \in Runs
         /\ \A pc \in RunPcs, id \in IDs : [x EXCEPT !.pc = pc, !.id = id] \in Runs
         /\ [x EXCEPT !.ctx = "ended"] \in Runs
  BY DEF Runs

LEMMA SetRunType ==
  ASSUME TypeOK, NEW r \in Requests, NEW n \in Attempts, NEW new \in Runs,
         SetRun(r, n, new)
  PROVE  /\ run' \in [Requests -> [Attempts -> Runs]]
         /\ run'[r][n] = new
         /\ \A s \in Requests, m \in Attempts : s # r \/ m # n => run'[s][m] = run[s][m]
  BY Update2 DEF SetRun, TypeOK

LEMMA StepType ==
  ASSUME TypeOK, NEW r \in Requests, NEW n \in Attempts, NEW pc \in RunPcs,
         Step(r, n, pc)
  PROVE  /\ run' \in [Requests -> [Attempts -> Runs]]
         /\ run'[r][n] = [run[r][n] EXCEPT !.pc = pc]
         /\ \A s \in Requests, m \in Attempts : s # r \/ m # n => run'[s][m] = run[s][m]
<1>1. run[r][n] \in Runs
  BY DEF TypeOK
<1>2. [run[r][n] EXCEPT !.pc = pc] \in Runs
  BY <1>1, RunTypes
<1>3. SetRun(r, n, [run[r][n] EXCEPT !.pc = pc])
  BY DEF Step
<1> QED BY <1>2, <1>3, SetRunType

LEMMA IncidentType ==
  ASSUME TypeOK, NEW r \in Requests, NEW n \in Attempts, Incident(r, n)
  PROVE  /\ incidents' \in Nat
         /\ faults' \in [Requests -> [Attempts -> Nat]]
         /\ faults'[r][n] = faults[r][n] + 1
         /\ \A s \in Requests, m \in Attempts : s # r \/ m # n => faults'[s][m] = faults[s][m]
<1>1. faults[r][n] + 1 \in Nat
  BY DEF TypeOK
<1>2. faults' = [faults EXCEPT ![r][n] = faults[r][n] + 1]
  BY DEF Incident
<1> QED BY <1>1, <1>2, Update2 DEF Incident, TypeOK

\* What asynq does with a failed attempt's task.
LEMMA RetryType ==
  ASSUME TypeOK, NEW r \in Requests, RetryOrArchive(r)
  PROVE  task' \in [Requests -> Tasks]
<1>1. task[r] \in Tasks /\ task \in [Requests -> Tasks]
  BY DEF TypeOK
<1>2. CASE task[r].retried >= MaxRetries
  <2>1. [task[r] EXCEPT !.state = "archived"] \in Tasks
    BY <1>1 DEF Tasks, TaskStates
  <2> QED BY <1>1, <1>2, <2>1 DEF RetryOrArchive
<1>3. CASE ~(task[r].retried >= MaxRetries)
  <2>1. task[r].retried + 1 \in Attempts
    BY <1>1, <1>3, MaxRetriesAssumption DEF Tasks, Attempts
  <2>2. [task[r] EXCEPT !.state = "pending", !.retried = task[r].retried + 1] \in Tasks
    BY <1>1, <2>1 DEF Tasks, TaskStates
  <2>3. task' = [task EXCEPT ![r] =
                   [task[r] EXCEPT !.state = "pending", !.retried = task[r].retried + 1]]
    BY <1>3 DEF RetryOrArchive
  <2> QED BY <1>1, <2>2, <2>3
<1> QED BY <1>2, <1>3

LEMMA ApiType ==
  ASSUME TypeOK, NEW r \in Requests,
         CheckSuppressed(r) \/ ApiStep(r) \/ ApiCrash(r)
  PROVE  TypeOK'
<1>1. /\ \A pc \in ApiPcs : Goto(r, pc) => api' \in [Requests -> Answered]
      /\ \A answer \in Answers : Respond(r, answer) => api' \in [Requests -> Answered]
  <2>1. api \in [Requests -> Answered] /\ api[r] \in Answered
    BY DEF TypeOK
  <2>2. \A pc \in ApiPcs : [api[r] EXCEPT !.pc = pc] \in Answered
    BY <2>1 DEF Answered
  <2>3. \A answer \in Answers :
          [api[r] EXCEPT !.pc = "done", !.answer = answer] \in Answered
    BY <2>1 DEF Answered, ApiPcs
  <2> QED BY <2>1, <2>2, <2>3 DEF Goto, Respond
<1>2. \A after \in [Requests -> Rows] :
        Attempted(after) => emails' \in [Requests -> Rows] /\ outages' \in Nat
  BY DEF Attempted, Outage, TypeOK
<1>3. Outage => outages' \in Nat
  BY DEF Outage, TypeOK
<1>4. CASE CheckSuppressed(r)
  BY <1>1, <1>3, <1>4 DEF CheckSuppressed, TypeOK, workVars, ApiPcs, Answers
<1>5. CASE RejectContent(r)
  BY <1>1, <1>5 DEF RejectContent, TypeOK, workVars, Answers
<1>6. CASE CreateOrGet(r)
  <2>1. api' \in [Requests -> Answered]
    <3>1. \A e \in Requests :
            [pc |-> "done", email |-> e, answer |-> "duplicate"] \in Answered
      BY DEF Answered, ApiPcs, Answers
    <3> QED BY <1>1, <1>6, <3>1 DEF CreateOrGet, Conflicts, TypeOK, ApiPcs, Answers
  <2>2. emails' \in [Requests -> Rows]
    <3>1. emails' = emails \/ emails' = Create(emails, r)
      BY <1>6 DEF CreateOrGet
    <3>2. emails \in [Requests -> Rows]
      BY DEF TypeOK
    <3>3. Create(emails, r) \in [Requests -> Rows]
      BY <3>2, StatementTypes
    <3> QED BY <3>1, <3>2, <3>3
  <2>3. outages' \in Nat
    BY <1>3, <1>6 DEF CreateOrGet, TypeOK
  <2> QED BY <1>6, <2>1, <2>2, <2>3 DEF CreateOrGet, TypeOK, workVars
<1>7. CASE Enqueue(r)
  <2>1. task' \in [Requests -> Tasks]
    <3>1. [state |-> "pending", email |-> api[r].email, retried |-> 0] \in Tasks
      BY MaxRetriesAssumption DEF TypeOK, Answered, Tasks, TaskStates, Attempts
    <3>2. task' = task \/ AddTask(r)
      BY <1>7 DEF Enqueue
    <3> QED BY <3>1, <3>2 DEF AddTask, TypeOK
  <2>2. api' \in [Requests -> Answered] /\ outages' \in Nat
    BY <1>1, <1>3, <1>7 DEF Enqueue, TypeOK, ApiPcs
  <2> QED BY <1>7, <2>1, <2>2 DEF Enqueue, TypeOK
<1>8. CASE MarkFailed(r) \/ MarkQueued(r)
  <2>1. api[r].email \in Requests
    BY DEF TypeOK, Answered
  <2>2. emails' \in [Requests -> Rows] /\ outages' \in Nat
    BY <1>2, <1>8, <2>1, StatementTypes DEF MarkFailed, MarkQueued, TypeOK, Statuses
  <2>3. api' \in [Requests -> Answered]
    BY <1>1, <1>8 DEF MarkFailed, MarkQueued, Answers
  <2> QED BY <1>8, <2>2, <2>3 DEF MarkFailed, MarkQueued, TypeOK, workVars
<1>9. CASE ApiCrash(r)
  BY <1>1, <1>9 DEF ApiCrash, TypeOK, workVars, ApiPcs
<1> QED BY <1>4, <1>5, <1>6, <1>7, <1>8, <1>9 DEF ApiStep

LEMMA AsynqType ==
  ASSUME TypeOK, NEW r \in Requests, NEW n \in Attempts,
         AsynqStep(r) \/ Timeout(r, n) \/ WorkerCrash(r, n) \/ Shutdown(r, n)
  PROVE  TypeOK'
<1>1. \A st \in TaskStates :
        [task EXCEPT ![r] = [@ EXCEPT !.state = st]] \in [Requests -> Tasks]
  BY DEF TypeOK, Tasks
<1>2. NoRun \in Runs /\ [NoRun EXCEPT !.pc = "GetByID"] \in Runs
  BY IDTypes DEF NoRun, Runs, RunPcs, Running, BeforeSend
<1>3. run[r][n] \in Runs /\ task[r].retried \in Attempts
  BY DEF TypeOK, Tasks
<1>4. CASE Dequeue(r)
  BY <1>1, <1>2, <1>3, <1>4, SetRunType DEF Dequeue, TypeOK, apiVars, TaskStates
<1>5. CASE Recover(r)
  BY <1>5, RetryType DEF Recover, TypeOK, apiVars
<1>6. CASE Timeout(r, n)
  <2>1. [run[r][n] EXCEPT !.ctx = "ended"] \in Runs
    BY <1>3, RunTypes
  <2>2. run' \in [Requests -> [Attempts -> Runs]]
    BY <1>6, <2>1, SetRunType DEF Timeout
  <2> QED BY <1>6, <2>2, RetryType, IncidentType DEF Timeout, TypeOK, apiVars
<1>7. CASE WorkerCrash(r, n)
  BY <1>7, StepType, IncidentType DEF WorkerCrash, TypeOK, apiVars, RunPcs
<1>8. CASE Shutdown(r, n)
  BY <1>1, <1>2, <1>8, SetRunType, IncidentType DEF Shutdown, TypeOK, apiVars, TaskStates
<1> QED BY <1>4, <1>5, <1>6, <1>7, <1>8 DEF AsynqStep

LEMMA HandlerType ==
  ASSUME TypeOK, NEW r \in Requests, NEW n \in Attempts, ProcessEmail(r, n)
  PROVE  TypeOK'
<1>1. run[r][n] \in Runs /\ task[r] \in Tasks /\ task[r].email \in Requests
  BY DEF TypeOK, Tasks
<1>2. \A after \in [Requests -> Rows] :
        AttemptedBy(r, n, after) => emails' \in [Requests -> Rows] /\ outages' \in Nat
  BY DEF AttemptedBy, Attempted, Outage, TypeOK
<1>3. emails \in [Requests -> Rows]
  BY DEF TypeOK
<1>4. CASE GetByID(r, n)
  <2>1. emails[task[r].email].retryCount \in Nat
    BY <1>1, <1>3 DEF Rows
  <2>2. [run[r][n] EXCEPT !.pc = "MarkSending",
                          !.retryCount = emails[task[r].email].retryCount] \in Runs
    BY <1>1, <2>1, RunTypes DEF RunPcs, Running, BeforeSend
  <2>3. run' \in [Requests -> [Attempts -> Runs]]
    BY <1>4, <2>2, SetRunType, StepType DEF GetByID, RunPcs, Running, AfterError
  <2>4. outages' \in Nat
    BY <1>4 DEF GetByID, Outage, TypeOK
  <2> QED BY <1>4, <2>3, <2>4 DEF GetByID, TypeOK, apiVars
<1>5. CASE MarkSending(r, n)
  <2>1. UpdateStatus(emails, task[r].email, "sending") \in [Requests -> Rows]
    BY <1>1, <1>3, StatementTypes DEF Statuses
  <2> QED BY <1>2, <1>5, <2>1, StepType
          DEF MarkSending, TypeOK, apiVars, RunPcs, Running, BeforeSend
<1>6. CASE Send(r, n)
  <2>1. accepted[r][n] + 1 \in Nat
    BY DEF TypeOK
  <2>2. ProviderID(r, n) \in IDs
    BY <2>1, IDTypes DEF ProviderID
  <2>3. \A pc \in {"StoreID", "MarkSent"} :
          [run[r][n] EXCEPT !.pc = pc, !.id = ProviderID(r, n)] \in Runs
    BY <1>1, <2>2, RunTypes DEF RunPcs, Running, AfterAccept
  <2>4. run' \in [Requests -> [Attempts -> Runs]]
    BY <1>6, <2>3, SetRunType, StepType DEF Send, RunPcs, Running, AfterError
  <2>5. accepted' \in [Requests -> [Attempts -> Nat]]
    <3>1. accepted' = accepted \/ accepted' = [accepted EXCEPT ![r][n] = accepted[r][n] + 1]
      BY <1>6 DEF Send
    <3>2. accepted \in [Requests -> [Attempts -> Nat]]
      BY DEF TypeOK
    <3>3. [accepted EXCEPT ![r][n] = accepted[r][n] + 1] \in [Requests -> [Attempts -> Nat]]
      BY <2>1, <3>2, Update2
    <3> QED BY <3>1, <3>2, <3>3
  <2>6. faults' \in [Requests -> [Attempts -> Nat]] /\ incidents' \in Nat
    BY <1>6, IncidentType DEF Send, TypeOK
  <2> QED BY <1>6, <2>4, <2>5, <2>6 DEF Send, TypeOK, apiVars
<1>7. CASE IncrementRetryCount(r, n)
  <2>1. IncrementRetry(emails, task[r].email) \in [Requests -> Rows]
    BY <1>1, <1>3, StatementTypes
  <2>2. run[r][n].retryCount + 1 \in Nat
    BY <1>1 DEF Runs
  <2>3. [run[r][n] EXCEPT !.pc = "MarkFailure",
                          !.retryCount = run[r][n].retryCount + 1] \in Runs
    BY <1>1, <2>2, RunTypes DEF RunPcs, Running, AfterError
  <2>4. run' \in [Requests -> [Attempts -> Runs]]
    BY <1>7, <2>3, SetRunType DEF IncrementRetryCount
  <2> QED BY <1>2, <1>7, <2>1, <2>4 DEF IncrementRetryCount, TypeOK, apiVars
<1>8. CASE MarkFailure(r, n)
  <2>1. \A s \in {"failed", "queued"} :
          UpdateStatus(emails, task[r].email, s) \in [Requests -> Rows]
    BY <1>1, <1>3, StatementTypes DEF Statuses
  <2>2. emails' \in [Requests -> Rows] /\ outages' \in Nat
    BY <1>2, <1>8, <2>1 DEF MarkFailure
  <2> QED BY <1>8, <2>2, StepType
          DEF MarkFailure, TypeOK, apiVars, RunPcs, Running, AfterError
<1>9. CASE StoreProviderID(r, n)
  <2>1. UpdateResendEmailID(emails, task[r].email, run[r][n].id) \in [Requests -> Rows]
    BY <1>1, <1>3, StatementTypes DEF Runs
  <2> QED BY <1>2, <1>9, <2>1, StepType
          DEF StoreProviderID, TypeOK, apiVars, RunPcs, Running, AfterAccept
<1>10. CASE MarkAsSent(r, n)
  <2>1. MarkSent(emails, task[r].email) \in [Requests -> Rows]
    BY <1>1, <1>3, StatementTypes
  <2> QED BY <1>2, <1>10, <2>1, StepType
          DEF MarkAsSent, TypeOK, apiVars, RunPcs, Running, AfterAccept
<1>11. CASE Return(r, n)
  <2>1. Complete(r) => task' \in [Requests -> Tasks]
    <3>1. [task[r] EXCEPT !.state = "completed"] \in Tasks
      BY <1>1 DEF Tasks, TaskStates
    <3> QED BY <3>1 DEF Complete, TypeOK
  <2>2. task' \in [Requests -> Tasks]
    BY <1>11, <2>1, RetryType DEF Return, TypeOK
  <2> QED BY <1>11, <2>2, StepType DEF Return, TypeOK, apiVars, RunPcs
<1> QED BY <1>4, <1>5, <1>6, <1>7, <1>8, <1>9, <1>10, <1>11 DEF ProcessEmail

\* Every variable of the pipeline keeps its type.
THEOREM TypeCorrect == Spec => []TypeOK
<1>1. TypeOK /\ [Next]_vars => TypeOK'
  <2>1. ASSUME TypeOK, Next PROVE TypeOK'
    BY <2>1, ApiType, AsynqType, HandlerType, MaxRetriesAssumption DEF Next, Attempts
  <2>2. ASSUME TypeOK, UNCHANGED vars PROVE TypeOK'
    BY <2>2 DEF TypeOK, vars
  <2> QED BY <2>1, <2>2
<1> QED BY InitType, <1>1, PTL DEF Spec

-----------------------------------------------------------------------------
(* The order of a task's attempts *)

Order == AttemptsInOrder /\ LiveIsNewest

LEMMA InitOrder == Init => Order
  BY MaxRetriesAssumption
  DEF Init, Order, AttemptsInOrder, LiveIsNewest, Live, NoTask, NoRun, Running,
      BeforeSend, AfterAccept, AfterError, Attempts

\* The API gives a request its first task and does nothing else to the queue.
LEMMA ApiOrder ==
  ASSUME TypeOK, StoredAndQueued, Order, NEW r \in Requests,
         CheckSuppressed(r) \/ ApiStep(r) \/ ApiCrash(r)
  PROVE  Order'
<1>1. run' = run
  BY DEF CheckSuppressed, ApiStep, RejectContent, CreateOrGet, Enqueue, MarkFailed,
         MarkQueued, ApiCrash, workVars
<1>2. CASE task' = task
  BY <1>1, <1>2 DEF Order, AttemptsInOrder, LiveIsNewest, Live
<1>3. CASE task' # task
  <2>1. Enqueue(r)
    BY <1>3 DEF CheckSuppressed, ApiStep, RejectContent, CreateOrGet, MarkFailed,
                MarkQueued, ApiCrash, workVars
  <2>2. task[r].state = "none"
    BY <2>1 DEF Enqueue, StoredAndQueued, Queued
  <2>3. task' = [task EXCEPT ![r] =
                   [state |-> "pending", email |-> api[r].email, retried |-> 0]]
    BY <1>3, <2>1 DEF Enqueue, AddTask
  <2>4. /\ task'[r].state = "pending" /\ task'[r].retried = 0
        /\ \A s \in Requests : s # r => task'[s] = task[s]
    BY <2>3 DEF TypeOK
  <2>5. task[r].retried = 0
    BY <2>2 DEF Order, AttemptsInOrder
  <2>6. AttemptsInOrder'
    BY <1>1, <2>2, <2>4, <2>5 DEF Order, AttemptsInOrder
  <2>7. LiveIsNewest'
    BY <1>1, <2>2, <2>4, <2>5 DEF Order, LiveIsNewest, Live
  <2> QED BY <2>6, <2>7 DEF Order
<1> QED BY <1>2, <1>3

\* What asynq does with a failed attempt's task, spelled out.
LEMMA RetryEffect ==
  ASSUME TypeOK, NEW r \in Requests, RetryOrArchive(r)
  PROVE  /\ \A s \in Requests : s # r => task'[s] = task[s]
         /\ task'[r].email = task[r].email
         /\ \/ /\ task[r].retried = MaxRetries
               /\ task'[r].state = "archived" /\ task'[r].retried = MaxRetries
            \/ /\ task[r].retried < MaxRetries
               /\ task'[r].state = "pending" /\ task'[r].retried = task[r].retried + 1
<1>1. task[r] \in Tasks /\ task \in [Requests -> Tasks]
  BY DEF TypeOK
<1>2. task[r].retried \in Attempts
  BY <1>1 DEF Tasks
<1>3. CASE task[r].retried >= MaxRetries
  <2>1. task' = [task EXCEPT ![r] = [task[r] EXCEPT !.state = "archived"]]
    BY <1>3 DEF RetryOrArchive
  <2> QED BY <1>1, <1>2, <1>3, <2>1, MaxRetriesAssumption DEF Tasks, Attempts
<1>4. CASE ~(task[r].retried >= MaxRetries)
  <2>1. task' = [task EXCEPT ![r] =
                   [task[r] EXCEPT !.state = "pending", !.retried = task[r].retried + 1]]
    BY <1>4 DEF RetryOrArchive
  <2> QED BY <1>1, <1>2, <1>4, <2>1, MaxRetriesAssumption DEF Tasks, Attempts
<1> QED BY <1>3, <1>4

\* Setting the state of one task.
LEMMA TaskEffect ==
  ASSUME TypeOK, NEW r \in Requests, NEW st \in TaskStates,
         task' = [task EXCEPT ![r] = [@ EXCEPT !.state = st]]
  PROVE  /\ \A s \in Requests : s # r => task'[s] = task[s]
         /\ task'[r].state = st /\ task'[r].email = task[r].email
         /\ task'[r].retried = task[r].retried
  BY DEF TypeOK, Tasks

\* The newest attempt stops being live, and its task goes on accordingly.
LEMMA EndNewest ==
  ASSUME TypeOK, Order, NEW r \in Requests, NEW n \in Attempts, NEW new \in Runs,
         task[r].state = "active", task[r].retried = n,
         SetRun(r, n, new), new.pc # "idle",
         new.pc \in Running => new.ctx = "ended",
         RetryOrArchive(r) \/ Complete(r)
  PROVE  Order'
<1>1. /\ run'[r][n] = new
      /\ \A s \in Requests, m \in Attempts : s # r \/ m # n => run'[s][m] = run[s][m]
  BY SetRunType
<1>2. /\ \A s \in Requests : s # r => task'[s] = task[s]
      /\ \/ /\ n = MaxRetries /\ task'[r].state = "archived" /\ task'[r].retried = n
         \/ /\ n < MaxRetries /\ task'[r].state = "pending" /\ task'[r].retried = n + 1
         \/ task'[r].state = "completed" /\ task'[r].retried = n
  BY RetryEffect, TaskEffect DEF Complete, TaskStates
<1>3. AttemptsInOrder'
  BY <1>1, <1>2, MaxRetriesAssumption DEF Order, AttemptsInOrder, Attempts
<1>4. ASSUME NEW s \in Requests, NEW m \in Attempts, Live(s, m)'
      PROVE  task'[s].state = "active" /\ task'[s].retried = m
  <2>1. s # r
    BY <1>1, <1>4 DEF Order, LiveIsNewest, Live
  <2> QED BY <1>1, <1>2, <1>4, <2>1 DEF Order, LiveIsNewest, Live
<1>5. \A s \in Requests :
        /\ task'[s].state = "active" =>
             Live(s, task[s].retried)' \/ run'[s][task'[s].retried].pc = "lost"
        /\ task'[s].state = "archived" => task'[s].retried = MaxRetries
  <2>1. \A s \in Requests : task[s].retried \in Attempts
    BY DEF TypeOK, Tasks
  <2> QED BY <1>1, <1>2, <2>1 DEF Order, LiveIsNewest, Live
<1> QED BY <1>3, <1>4, <1>5 DEF Order, LiveIsNewest

\* An execution goes on, or stops for ever, with its task as it is.
LEMMA GoOn ==
  ASSUME TypeOK, Order, NEW r \in Requests, NEW n \in Attempts, NEW new \in Runs,
         task' = task, SetRun(r, n, new),
         run[r][n].pc \in Running, new.ctx = run[r][n].ctx,
         \/ new.pc \in Running
         \/ new.pc = "lost"
         \/ new.pc = "returned" /\ new.ctx = "ended"
  PROVE  Order'
<1>1. /\ run'[r][n] = new
      /\ \A s \in Requests, m \in Attempts : s # r \/ m # n => run'[s][m] = run[s][m]
  BY SetRunType
<1>2. new.pc # "idle" /\ run[r][n].pc # "idle"
  BY DEF Running, BeforeSend, AfterAccept, AfterError
<1>3. AttemptsInOrder'
  BY <1>1, <1>2 DEF Order, AttemptsInOrder
<1>4. \A s \in Requests, m \in Attempts : Live(s, m)' => Live(s, m)
  BY <1>1 DEF Live
<1>5. \A s \in Requests : task[s].state = "active" =>
        Live(s, task[s].retried)' \/ run'[s][task[s].retried].pc = "lost"
  <2>1. \A s \in Requests : task[s].retried \in Attempts
    BY DEF TypeOK, Tasks
  <2>2. run[r][n].pc # "lost"
    BY DEF Running, BeforeSend, AfterAccept, AfterError
  <2> QED BY <1>1, <2>1, <2>2 DEF Order, LiveIsNewest, Live, Running, BeforeSend,
             AfterAccept, AfterError
<1> QED BY <1>3, <1>4, <1>5 DEF Order, LiveIsNewest, Live

LEMMA AsynqOrder ==
  ASSUME TypeOK, Order, NEW r \in Requests, NEW n \in Attempts,
         AsynqStep(r) \/ Timeout(r, n) \/ WorkerCrash(r, n) \/ Shutdown(r, n)
  PROVE  Order'
<1>1. run[r][n] \in Runs /\ task[r].retried \in Attempts
  BY DEF TypeOK, Tasks
<1>2. NoRun \in Runs /\ [NoRun EXCEPT !.pc = "GetByID"] \in Runs
  BY IDTypes DEF NoRun, Runs, RunPcs, Running, BeforeSend
<1>3. Live(r, n) => task[r].state = "active" /\ task[r].retried = n
  BY DEF Order, LiveIsNewest
<1>4. CASE Dequeue(r)
  <2>0. PICK m \in Attempts : m = task[r].retried
    BY <1>1
  <2>1. /\ run'[r][m].pc = "GetByID" /\ run'[r][m].ctx = "live"
        /\ \A s \in Requests, i \in Attempts : s # r \/ i # m => run'[s][i] = run[s][i]
    <3>1. SetRun(r, m, [NoRun EXCEPT !.pc = "GetByID"])
      BY <1>4, <2>0 DEF Dequeue
    <3>2. /\ [NoRun EXCEPT !.pc = "GetByID"].pc = "GetByID"
          /\ [NoRun EXCEPT !.pc = "GetByID"].ctx = "live"
      BY DEF NoRun
    <3> DEFINE new == [NoRun EXCEPT !.pc = "GetByID"]
    <3>3. /\ run'[r][m] = new
          /\ \A s \in Requests, i \in Attempts : s # r \/ i # m => run'[s][i] = run[s][i]
      <4>1. new \in Runs /\ SetRun(r, m, new)
        BY <1>2, <3>1
      <4> HIDE DEF new
      <4> QED BY <4>1, SetRunType
    <3> QED BY <3>2, <3>3
  <2>2. /\ \A s \in Requests : s # r => task'[s] = task[s]
        /\ task'[r].state = "active" /\ task'[r].retried = m
    BY <1>4, <2>0, TaskEffect DEF Dequeue, TaskStates
  <2>3. task[r].state = "pending"
    BY <1>4 DEF Dequeue
  <2>4. AttemptsInOrder'
    <3> SUFFICES ASSUME NEW s \in Requests
                 PROVE  /\ task'[s].state = "none" => task'[s].retried = 0
                        /\ \A i \in Attempts :
                             run'[s][i].pc = "idle" <=>
                               \/ i > task'[s].retried
                               \/ i = task'[s].retried /\ task'[s].state \in {"none", "pending"}
      BY DEF AttemptsInOrder
    <3>1. CASE s # r
      BY <2>1, <2>2, <3>1 DEF Order, AttemptsInOrder
    <3>2. CASE s = r
      <4>1. \A i \in Attempts : i # m => (run[r][i].pc = "idle" <=> i > m)
        BY <2>0 DEF Order, AttemptsInOrder
      <4>2. "GetByID" # "idle" /\ ~(m > m)
        BY MaxRetriesAssumption DEF Attempts
      <4> QED BY <2>1, <2>2, <3>2, <4>1, <4>2
    <3> QED BY <3>1, <3>2
  <2>5. ASSUME NEW s \in Requests, NEW i \in Attempts, Live(s, i)'
        PROVE  task'[s].state = "active" /\ task'[s].retried = i
    BY <2>0, <2>1, <2>2, <2>3, <2>5 DEF Order, LiveIsNewest, Live
  <2>6. \A s \in Requests :
          /\ task'[s].state = "active" =>
               Live(s, task[s].retried)' \/ run'[s][task'[s].retried].pc = "lost"
          /\ task'[s].state = "archived" => task'[s].retried = MaxRetries
    <3>1. \A s \in Requests : task[s].retried \in Attempts
      BY DEF TypeOK, Tasks
    <3> QED BY <2>1, <2>2, <2>3, <3>1 DEF Order, LiveIsNewest, Live, Running, BeforeSend
  <2> QED BY <2>4, <2>5, <2>6 DEF Order, LiveIsNewest
<1>5. CASE Recover(r)
  <2> DEFINE m == task[r].retried
  <2>1. run' = run /\ run[r][m].pc = "lost" /\ RetryOrArchive(r) /\ task[r].state = "active"
    BY <1>5 DEF Recover
  <2>2. run[r][m] \in Runs /\ SetRun(r, m, run[r][m])
    BY <1>1, <2>1 DEF TypeOK, SetRun
  <2>3. run[r][m].pc \notin Running
    BY <2>1 DEF Running, BeforeSend, AfterAccept, AfterError
  <2> QED BY <1>1, <2>1, <2>2, <2>3, EndNewest
<1>6. CASE Timeout(r, n)
  <2> DEFINE new == [run[r][n] EXCEPT !.ctx = "ended"]
  <2>1. new \in Runs /\ new.ctx = "ended" /\ new.pc = run[r][n].pc
    BY <1>1, RunTypes DEF Runs
  <2>2. new.pc # "idle"
    BY <1>6, <2>1 DEF Timeout, Live, Running, BeforeSend, AfterAccept, AfterError
  <2>3. SetRun(r, n, new) /\ RetryOrArchive(r) /\ Live(r, n)
    BY <1>6 DEF Timeout
  <2> QED BY <1>3, <2>1, <2>2, <2>3, EndNewest
<1>7. CASE WorkerCrash(r, n)
  <2> DEFINE new == [run[r][n] EXCEPT !.pc = "lost"]
  <2>1. new \in Runs /\ new.pc = "lost" /\ new.ctx = run[r][n].ctx
    BY <1>1, RunTypes DEF Runs, RunPcs
  <2>2. SetRun(r, n, new) /\ task' = task /\ run[r][n].pc \in Running
    BY <1>7 DEF WorkerCrash, Step
  <2> QED BY <2>1, <2>2, GoOn
<1>8. CASE Shutdown(r, n)
  <2>1. /\ run'[r][n] = NoRun
        /\ \A s \in Requests, i \in Attempts : s # r \/ i # n => run'[s][i] = run[s][i]
    BY <1>2, <1>8, SetRunType DEF Shutdown
  <2>2. /\ \A s \in Requests : s # r => task'[s] = task[s]
        /\ task'[r].state = "pending" /\ task'[r].retried = n
    BY <1>3, <1>8, TaskEffect DEF Shutdown, TaskStates
  <2>3. NoRun.pc = "idle" /\ "idle" \notin Running /\ task[r].state = "active"
    BY <1>3, <1>8 DEF NoRun, Shutdown, Running, BeforeSend, AfterAccept, AfterError
  <2>4. AttemptsInOrder'
    BY <1>3, <1>8, <2>1, <2>2, <2>3 DEF Shutdown, Order, AttemptsInOrder
  <2>5. ASSUME NEW s \in Requests, NEW i \in Attempts, Live(s, i)'
        PROVE  task'[s].state = "active" /\ task'[s].retried = i
    <3>1. s # r
      BY <1>3, <1>8, <2>1, <2>3, <2>5 DEF Shutdown, Order, LiveIsNewest, Live
    <3> QED BY <2>1, <2>2, <2>5, <3>1 DEF Order, LiveIsNewest, Live
  <2>6. \A s \in Requests :
          /\ task'[s].state = "active" =>
               Live(s, task[s].retried)' \/ run'[s][task'[s].retried].pc = "lost"
          /\ task'[s].state = "archived" => task'[s].retried = MaxRetries
    <3>1. \A s \in Requests : task[s].retried \in Attempts
      BY DEF TypeOK, Tasks
    <3> QED BY <2>1, <2>2, <3>1 DEF Order, LiveIsNewest, Live
  <2> QED BY <2>4, <2>5, <2>6 DEF Order, LiveIsNewest
<1> QED BY <1>4, <1>5, <1>6, <1>7, <1>8 DEF AsynqStep

\* How a step of ProcessEmail before its return moves attempt n to pc, and
\* what the provider and the incidents have to do with it.
Moves(r, n, pc) ==
  \/ /\ run[r][n].pc \in {"GetByID", "MarkSending"}
     /\ pc \in BeforeSend \union {"ReturnErr"}
     /\ UNCHANGED <<accepted, faults>>
  \/ /\ run[r][n].pc = "Send" /\ pc \in AfterAccept
     /\ accepted' = [accepted EXCEPT ![r][n] = accepted[r][n] + 1]
     /\ UNCHANGED faults
  \/ /\ run[r][n].pc = "Send" /\ pc = "IncrementRetry"
     /\ accepted' = [accepted EXCEPT ![r][n] = accepted[r][n] + 1]
     /\ Incident(r, n)
  \/ /\ run[r][n].pc = "Send" /\ pc = "IncrementRetry"
     /\ UNCHANGED <<accepted, faults>>
  \/ /\ run[r][n].pc \in AfterError /\ pc \in AfterError
     /\ UNCHANGED <<accepted, faults>>
  \/ /\ run[r][n].pc \in AfterAccept /\ pc \in AfterAccept
     /\ UNCHANGED <<accepted, faults>>

LEMMA HandlerEffect ==
  ASSUME TypeOK, NEW r \in Requests, NEW n \in Attempts,
         ProcessEmail(r, n), ~Return(r, n)
  PROVE  /\ task' = task
         /\ run[r][n].pc \in Running
         /\ \E new \in Runs :
              /\ SetRun(r, n, new)
              /\ new.ctx = run[r][n].ctx
              /\ new.pc \in Running
              /\ Moves(r, n, new.pc)
<1> USE DEF Running, BeforeSend, AfterAccept, AfterError, RunPcs
<1>1. run[r][n] \in Runs
  BY DEF TypeOK
<1>2. \A pc \in Running : Step(r, n, pc) =>
        \E new \in Runs :
          SetRun(r, n, new) /\ new.ctx = run[r][n].ctx /\ new.pc = pc
  <2>1. \A pc \in Running :
          /\ [run[r][n] EXCEPT !.pc = pc] \in Runs
          /\ [run[r][n] EXCEPT !.pc = pc].ctx = run[r][n].ctx
          /\ [run[r][n] EXCEPT !.pc = pc].pc = pc
    BY <1>1 DEF Runs
  <2> QED BY <2>1 DEF Step
<1>3. CASE GetByID(r, n)
  <2>1. task[r].email \in Requests
    BY DEF TypeOK, Tasks
  <2>2. emails[task[r].email].retryCount \in Nat
    BY <2>1 DEF TypeOK, Rows
  <2> DEFINE new == [run[r][n] EXCEPT !.pc = "MarkSending",
                       !.retryCount = emails[task[r].email].retryCount]
  <2>3. new \in Runs /\ new.ctx = run[r][n].ctx /\ new.pc = "MarkSending"
    BY <1>1, <2>2 DEF Runs
  <2>4. SetRun(r, n, new) \/ Step(r, n, "ReturnErr")
    BY <1>3 DEF GetByID
  <2>5. task' = task /\ run[r][n].pc = "GetByID" /\ UNCHANGED <<accepted, faults>>
    BY <1>3 DEF GetByID
  <2> HIDE DEF new
  <2> QED BY <1>2, <2>3, <2>4, <2>5 DEF Moves
<1>4. CASE Send(r, n)
  <2>1. ProviderID(r, n) \in IDs
    BY IDTypes DEF ProviderID, TypeOK
  <2> DEFINE new == [run[r][n] EXCEPT !.pc = IF ReturnsID THEN "StoreID" ELSE "MarkSent",
                                      !.id = ProviderID(r, n)]
  <2>2. new \in Runs /\ new.ctx = run[r][n].ctx /\ new.pc \in {"StoreID", "MarkSent"}
    BY <1>1, <2>1 DEF Runs
  <2>3. \/ /\ SetRun(r, n, new) /\ UNCHANGED faults
           /\ accepted' = [accepted EXCEPT ![r][n] = accepted[r][n] + 1]
        \/ /\ Step(r, n, "IncrementRetry") /\ Incident(r, n)
           /\ accepted' = [accepted EXCEPT ![r][n] = accepted[r][n] + 1]
        \/ Step(r, n, "IncrementRetry") /\ UNCHANGED <<accepted, faults>>
    BY <1>4 DEF Send
  <2>4. task' = task /\ run[r][n].pc = "Send"
    BY <1>4 DEF Send
  <2> HIDE DEF new
  <2> QED BY <1>2, <2>2, <2>3, <2>4 DEF Moves
<1>5. CASE IncrementRetryCount(r, n)
  <2>1. run[r][n].retryCount + 1 \in Nat
    BY <1>1 DEF Runs
  <2> DEFINE new == [run[r][n] EXCEPT !.pc = "MarkFailure",
                                      !.retryCount = run[r][n].retryCount + 1]
  <2>2. new \in Runs /\ new.ctx = run[r][n].ctx /\ new.pc = "MarkFailure"
    BY <1>1, <2>1 DEF Runs
  <2>3. /\ task' = task /\ run[r][n].pc = "IncrementRetry" /\ SetRun(r, n, new)
        /\ UNCHANGED <<accepted, faults>>
    BY <1>5 DEF IncrementRetryCount
  <2> HIDE DEF new
  <2> QED BY <2>2, <2>3 DEF Moves
<1>6. CASE \/ MarkSending(r, n) \/ MarkFailure(r, n)
           \/ StoreProviderID(r, n) \/ MarkAsSent(r, n)
  <2>1. task' = task /\ UNCHANGED <<accepted, faults>>
    BY <1>6 DEF MarkSending, MarkFailure, StoreProviderID, MarkAsSent
  <2>2. \/ run[r][n].pc = "MarkSending" /\ Step(r, n, "Send")
        \/ run[r][n].pc = "MarkFailure" /\ Step(r, n, "ReturnErr")
        \/ run[r][n].pc = "StoreID" /\ Step(r, n, "MarkSent")
        \/ run[r][n].pc = "MarkSent" /\ Step(r, n, "ReturnOk")
    BY <1>6 DEF MarkSending, MarkFailure, StoreProviderID, MarkAsSent
  <2> QED BY <1>2, <2>1, <2>2 DEF Moves
<1> QED BY <1>3, <1>4, <1>5, <1>6 DEF ProcessEmail

LEMMA HandlerOrder ==
  ASSUME TypeOK, Order, NEW r \in Requests, NEW n \in Attempts, ProcessEmail(r, n)
  PROVE  Order'
<1>1. CASE ~Return(r, n)
  BY <1>1, HandlerEffect, GoOn
<1>2. CASE Return(r, n)
  <2> DEFINE new == [run[r][n] EXCEPT !.pc = "returned"]
  <2>1. run[r][n] \in Runs
    BY DEF TypeOK
  <2>2. new \in Runs /\ new.pc = "returned" /\ new.ctx = run[r][n].ctx
    BY <2>1 DEF Runs, RunPcs
  <2>3. new.pc \notin Running /\ SetRun(r, n, new)
    BY <1>2, <2>2 DEF Return, Step, Running, BeforeSend, AfterAccept, AfterError
  <2>4. run[r][n].pc \in Running
    BY <1>2 DEF Return, Running, AfterAccept, AfterError
  <2>5. CASE run[r][n].ctx = "ended"
    BY <1>2, <2>2, <2>3, <2>4, <2>5, GoOn DEF Return
  <2>6. CASE run[r][n].ctx # "ended"
    <3>1. Live(r, n)
      BY <2>1, <2>4, <2>6 DEF Live, Runs
    <3>2. task[r].state = "active" /\ task[r].retried = n
      BY <3>1 DEF Order, LiveIsNewest
    <3>3. RetryOrArchive(r) \/ Complete(r)
      BY <1>2, <2>6 DEF Return
    <3> QED BY <2>2, <2>3, <3>2, <3>3, EndNewest
  <2> QED BY <2>5, <2>6
<1> QED BY <1>1, <1>2

-----------------------------------------------------------------------------
(* Who owns a row and its task *)

\* The statements that update a stored row neither store nor remove one.
LEMMA UpdatesKeepRows ==
  ASSUME NEW t \in [Requests -> Rows], NEW e \in Requests, Stored(t, e), NEW u,
         \/ \E s \in Statuses : u = UpdateStatus(t, e, s)
         \/ u = IncrementRetry(t, e)
         \/ u = MarkSent(t, e)
         \/ \E id \in IDs : u = UpdateResendEmailID(t, e, id)
  PROVE  \A d \in Requests : Stored(u, d) <=> Stored(t, d)
<1>1. CASE \E s \in Statuses : u = UpdateStatus(t, e, s)
  BY <1>1 DEF UpdateStatus, Stored, Statuses, Rows
<1>2. CASE u = IncrementRetry(t, e)
  BY <1>2 DEF IncrementRetry, Stored, Rows
<1>3. CASE u = MarkSent(t, e)
  BY <1>3 DEF MarkSent, Stored, Rows
<1>4. CASE \E id \in IDs : u = UpdateResendEmailID(t, e, id)
  BY <1>4 DEF UpdateResendEmailID, Stored, Rows
<1> QED BY <1>1, <1>2, <1>3, <1>4

\* Outside the API no step stores a row or enqueues a task.
LEMMA WorkKeepsRows ==
  ASSUME TypeOK, StoredAndQueued, Order, Owned, NEW r \in Requests, NEW n \in Attempts,
         \/ AsynqStep(r) \/ Timeout(r, n) \/ WorkerCrash(r, n) \/ Shutdown(r, n)
         \/ ProcessEmail(r, n)
  PROVE  /\ api' = api
         /\ \A s \in Requests :
              /\ task'[s].email = task[s].email
              /\ task'[s].state = "none" <=> task[s].state = "none"
              /\ Stored(emails', s) <=> Stored(emails, s)
<1>1. api' = api
  BY DEF AsynqStep, Dequeue, Recover, Timeout, WorkerCrash, Shutdown, ProcessEmail,
         GetByID, MarkSending, Send, IncrementRetryCount, MarkFailure,
         StoreProviderID, MarkAsSent, Return, apiVars
<1>2. \A s \in Requests :
        /\ task'[s].email = task[s].email
        /\ task'[s].state = "none" <=> task[s].state = "none"
  <2>1. CASE task' = task
    BY <2>1
  <2>2. Live(r, n) => task[r].state = "active"
    BY DEF Order, LiveIsNewest
  <2>3. CASE Dequeue(r) \/ Shutdown(r, n)
    BY <2>2, <2>3, TaskEffect DEF Dequeue, Shutdown, TaskStates
  <2>4. CASE Recover(r) \/ Timeout(r, n)
    BY <2>2, <2>4, RetryEffect DEF Recover, Timeout
  <2>5. CASE Return(r, n)
    <3>1. run[r][n] \in Runs
      BY DEF TypeOK
    <3>2. task' = task \/ (Live(r, n) /\ (Complete(r) \/ RetryOrArchive(r)))
      BY <2>5, <3>1 DEF Return, Live, Running, AfterAccept, AfterError
    <3> QED BY <2>2, <3>2, RetryEffect, TaskEffect DEF Complete, TaskStates
  <2>6. CASE WorkerCrash(r, n)
    BY <2>1, <2>6 DEF WorkerCrash
  <2>7. CASE ProcessEmail(r, n) /\ ~Return(r, n)
    BY <2>1, <2>7, HandlerEffect
  <2> QED BY <2>3, <2>4, <2>5, <2>6, <2>7 DEF AsynqStep
<1>3. \A s \in Requests : Stored(emails', s) <=> Stored(emails, s)
  <2>1. CASE emails' = emails
    BY <2>1
  <2>2. CASE emails' # emails
    <3> DEFINE e == task[r].email
    <3>1. ProcessEmail(r, n) /\ ~Return(r, n)
      BY <2>2 DEF AsynqStep, Dequeue, Recover, Timeout, WorkerCrash, Shutdown, Return,
                  ProcessEmail
    <3>2. \/ \E st \in Statuses : emails' = UpdateStatus(emails, e, st)
          \/ emails' = IncrementRetry(emails, e)
          \/ emails' = MarkSent(emails, e)
          \/ \E id \in IDs : emails' = UpdateResendEmailID(emails, e, id)
      <4>1. run[r][n].id \in IDs
        BY DEF TypeOK, Runs
      <4>2. \A after : AttemptedBy(r, n, after) => emails' = after
        BY <2>2 DEF AttemptedBy, Attempted
      <4> QED BY <2>2, <3>1, <4>1, <4>2
              DEF ProcessEmail, GetByID, MarkSending, Send, IncrementRetryCount,
                  MarkFailure, StoreProviderID, MarkAsSent, Statuses
    <3>3. e \in Requests /\ Stored(emails, e)
      <4>1. run[r][n].pc # "idle"
        BY <3>1, HandlerEffect DEF Running, BeforeSend, AfterAccept, AfterError
      <4>2. task[r].state # "none"
        BY <4>1, MaxRetriesAssumption DEF Order, AttemptsInOrder, Attempts
      <4> QED BY <4>2 DEF StoredAndQueued, Queued, Owned
    <3>4. emails \in [Requests -> Rows]
      BY DEF TypeOK
    <3> QED BY <3>2, <3>3, <3>4, UpdatesKeepRows
  <2> QED BY <2>1, <2>2
<1> QED BY <1>1, <1>2, <1>3

LEMMA InitOwnership == Init => OwnershipInv
  BY DEF Init, OwnershipInv, Owned, StoredAndQueued, KeysUnique, AnswersAreBacked,
         StrandedOnlyByFailure, NewRequest, NoTask, Stored, Queued, AbsentRow

LEMMA WorkOwnership ==
  ASSUME TypeOK, OwnershipInv, Order, NEW r \in Requests, NEW n \in Attempts,
         \/ AsynqStep(r) \/ Timeout(r, n) \/ WorkerCrash(r, n) \/ Shutdown(r, n)
         \/ ProcessEmail(r, n)
  PROVE  OwnershipInv'
<1>1. /\ api' = api
      /\ \A s \in Requests :
           /\ task'[s].email = task[s].email
           /\ Queued(s)' <=> Queued(s)
           /\ Stored(emails', s) <=> Stored(emails, s)
  BY WorkKeepsRows DEF OwnershipInv, Queued
<1>2. \A s \in Requests : api[s].email \in Requests
  BY DEF TypeOK, Answered
<1>3. Owned' /\ StoredAndQueued'
  BY <1>1 DEF OwnershipInv, Owned, StoredAndQueued
<1>4. KeysUnique'
  BY <1>1 DEF OwnershipInv, KeysUnique
<1>5. AnswersAreBacked'
  BY <1>1, <1>2 DEF OwnershipInv, AnswersAreBacked
<1>6. StrandedOnlyByFailure'
  BY <1>1 DEF OwnershipInv, StrandedOnlyByFailure
<1> QED BY <1>3, <1>4, <1>5, <1>6 DEF OwnershipInv

\* The effects of the API's updates of a request.
LEMMA ApiEffect ==
  ASSUME TypeOK, NEW r \in Requests
  PROVE  /\ \A pc \in ApiPcs : Goto(r, pc) =>
              /\ api'[r].pc = pc /\ api'[r].email = api[r].email
              /\ api'[r].answer = api[r].answer
              /\ \A s \in Requests : s # r => api'[s] = api[s]
         /\ \A answer \in Answers : Respond(r, answer) =>
              /\ api'[r].pc = "done" /\ api'[r].email = api[r].email
              /\ api'[r].answer = answer
              /\ \A s \in Requests : s # r => api'[s] = api[s]
<1>1. api \in [Requests -> Answered] /\ api[r] \in Answered
  BY DEF TypeOK
<1>2. ASSUME NEW pc \in ApiPcs, Goto(r, pc)
      PROVE  /\ api'[r].pc = pc /\ api'[r].email = api[r].email
             /\ api'[r].answer = api[r].answer
             /\ \A s \in Requests : s # r => api'[s] = api[s]
  BY <1>1, <1>2 DEF Goto, Answered
<1>3. ASSUME NEW answer \in Answers, Respond(r, answer)
      PROVE  /\ api'[r].pc = "done" /\ api'[r].email = api[r].email
             /\ api'[r].answer = answer
             /\ \A s \in Requests : s # r => api'[s] = api[s]
  BY <1>1, <1>3 DEF Respond, Answered
<1> QED BY <1>2, <1>3

\* Storing a new row.
LEMMA CreateEffect ==
  ASSUME TypeOK, NEW r \in Requests, emails' = Create(emails, r)
  PROVE  /\ Stored(emails', r)
         /\ \A s \in Requests : s # r => (Stored(emails', s) <=> Stored(emails, s))
<1>1. [AbsentRow EXCEPT !.status = "pending"].status = "pending"
  BY DEF AbsentRow
<1>2. emails \in [Requests -> Rows]
  BY DEF TypeOK
<1> QED BY <1>1, <1>2 DEF Create, Stored

\* The invariant, but for the unique keys, as it concerns one request.
RequestInv(r) ==
  /\ task[r].email = r
  /\ api[r].answer # "duplicate" => api[r].email = r
  /\ api[r].pc \in {"idle", "create"} => ~Stored(emails, r) /\ ~Queued(r)
  /\ api[r].pc \in {"enqueue", "markFailed", "markQueued"} => Stored(emails, r)
  /\ api[r].pc = "enqueue" => ~Queued(r)
  /\ api[r].pc = "markQueued" => Queued(r)
  /\ Queued(r) => Stored(emails, r)
  /\ api[r].pc # "done" => api[r].answer = "none"
  /\ api[r].answer = "queued" =>
       api[r].email = r /\ Stored(emails, r) /\ Queued(r) /\ task[r].email = r
  /\ api[r].answer = "duplicate" =>
       /\ api[r].email # r /\ KeyOf[api[r].email] = KeyOf[r]
       /\ Stored(emails, api[r].email) /\ ~Stored(emails, r)
  /\ api[r].answer = "suppressed" => ~Stored(emails, r) /\ ~Queued(r)
  /\ Stored(emails, r) /\ ~Queued(r) =>
       \/ api[r].pc \in {"enqueue", "markFailed", "crashed"}
       \/ api[r].answer = "error"

LEMMA OwnershipByRequest ==
  OwnershipInv <=> KeysUnique /\ \A r \in Requests : RequestInv(r)
  BY DEF OwnershipInv, Owned, StoredAndQueued, AnswersAreBacked, StrandedOnlyByFailure,
         RequestInv

\* A step of one request that takes no key from another keeps the invariant.
LEMMA OneRequest ==
  ASSUME TypeOK, OwnershipInv, NEW r \in Requests,
         \A s \in Requests : s # r =>
           /\ api'[s] = api[s] /\ task'[s] = task[s]
           /\ Stored(emails', s) <=> Stored(emails, s),
         Stored(emails, r) => Stored(emails', r),
         Stored(emails', r) => Stored(emails, r) \/ Conflicts(r) = {},
         RequestInv(r)'
  PROVE  OwnershipInv'
<1>1. KeysUnique'
  <2>1. \A s \in Requests :
          Stored(emails, s) /\ KeyOf[s] = KeyOf[r] /\ Conflicts(r) = {} => KeyOf[r] = NoKey
    BY DEF Conflicts
  <2> QED BY <2>1 DEF OwnershipInv, KeysUnique
<1>2. ASSUME NEW s \in Requests, s # r PROVE RequestInv(s)'
  <2>1. RequestInv(s)
    BY OwnershipByRequest
  <2>2. api[s].email \in Requests
    BY DEF TypeOK, Answered
  <2> QED BY <1>2, <2>1, <2>2 DEF RequestInv, Queued
<1>3. \A s \in Requests : RequestInv(s)'
  BY <1>2
<1> QED BY <1>1, <1>3 DEF OwnershipInv, Owned, StoredAndQueued, AnswersAreBacked,
           StrandedOnlyByFailure, RequestInv

LEMMA ApiOwnership ==
  ASSUME TypeOK, OwnershipInv, NEW r \in Requests,
         CheckSuppressed(r) \/ ApiStep(r) \/ ApiCrash(r)
  PROVE  OwnershipInv'
<1> USE DEF ApiPcs, Answers
<1>1. RequestInv(r)
  BY OwnershipByRequest
<1>2. CASE CheckSuppressed(r) \/ RejectContent(r) \/ ApiCrash(r)
  <2>1. emails' = emails /\ task' = task
    BY <1>2 DEF CheckSuppressed, RejectContent, ApiCrash, workVars
  <2>2. /\ \A s \in Requests : s # r => api'[s] = api[s]
        /\ api'[r].email = api[r].email
        /\ \/ /\ api[r].pc = "idle"
              /\ \/ api'[r].pc = "done" /\ api'[r].answer = "suppressed"
                 \/ api'[r].pc = "create" /\ api'[r].answer = api[r].answer
           \/ api[r].pc = "create" /\ api'[r].pc = "done" /\ api'[r].answer = "error"
           \/ /\ api[r].pc \in {"create", "enqueue", "markFailed", "markQueued"}
              /\ api'[r].pc = "crashed" /\ api'[r].answer = api[r].answer
    BY <1>2, ApiEffect DEF CheckSuppressed, RejectContent, ApiCrash
  <2>3. RequestInv(r)'
    BY <1>1, <2>1, <2>2 DEF RequestInv, Queued
  <2> QED BY <2>1, <2>2, <2>3, OneRequest
<1>3. CASE CreateOrGet(r)
  <2>1. task' = task /\ api[r].pc = "create"
    BY <1>3 DEF CreateOrGet, workVars
  <2>2. CASE \E e \in Conflicts(r) :
               /\ api' = [api EXCEPT ![r] =
                            [pc |-> "done", email |-> e, answer |-> "duplicate"]]
               /\ emails' = emails
    <3>1. PICK e \in Conflicts(r) :
            /\ api' = [api EXCEPT ![r] =
                         [pc |-> "done", email |-> e, answer |-> "duplicate"]]
            /\ emails' = emails
      BY <2>2
    <3>2. e \in Requests /\ Stored(emails, e) /\ KeyOf[e] = KeyOf[r]
      BY DEF Conflicts
    <3>3. /\ api'[r].pc = "done" /\ api'[r].email = e /\ api'[r].answer = "duplicate"
          /\ \A s \in Requests : s # r => api'[s] = api[s]
      BY <3>1 DEF TypeOK
    <3>4. e # r
      BY <1>1, <2>1, <3>2 DEF RequestInv
    <3>5. RequestInv(r)'
      BY <1>1, <2>1, <3>1, <3>2, <3>3, <3>4 DEF RequestInv, Queued
    <3> QED BY <2>1, <3>1, <3>3, <3>5, OneRequest
  <2>3. CASE /\ emails' = emails \/ (emails' = Create(emails, r) /\ Conflicts(r) = {})
             /\ \/ Respond(r, "error")
                \/ Goto(r, "enqueue") /\ emails' = Create(emails, r)
    <3>1. /\ \A s \in Requests : s # r => (Stored(emails', s) <=> Stored(emails, s))
          /\ emails' = Create(emails, r) => Stored(emails', r)
          /\ Stored(emails', r) => Stored(emails, r) \/ Conflicts(r) = {}
          /\ Stored(emails, r) => Stored(emails', r)
      BY <2>3, CreateEffect
    <3>2. /\ \A s \in Requests : s # r => api'[s] = api[s]
          /\ api'[r].email = api[r].email
          /\ \/ api'[r].pc = "done" /\ api'[r].answer = "error"
             \/ /\ api'[r].pc = "enqueue" /\ api'[r].answer = api[r].answer
                /\ Stored(emails', r)
      BY <2>3, <3>1, ApiEffect
    <3>3. RequestInv(r)'
      BY <1>1, <2>1, <3>1, <3>2 DEF RequestInv, Queued
    <3> QED BY <2>1, <3>1, <3>2, <3>3, OneRequest
  <2> QED BY <1>3, <2>2, <2>3 DEF CreateOrGet
<1>4. CASE Enqueue(r)
  <2>1. emails' = emails /\ api[r].pc = "enqueue"
    BY <1>4 DEF Enqueue
  <2>2. /\ \A s \in Requests : s # r => api'[s] = api[s]
        /\ api'[r].email = api[r].email /\ api'[r].answer = api[r].answer
        /\ \/ api'[r].pc = "markQueued" /\ AddTask(r)
           \/ api'[r].pc = "markFailed" /\ (AddTask(r) \/ task' = task)
    BY <1>4, ApiEffect DEF Enqueue
  <2>3. AddTask(r) => /\ \A s \in Requests : s # r => task'[s] = task[s]
                      /\ task'[r].email = api[r].email /\ task'[r].state = "pending"
    BY DEF AddTask, TypeOK
  <2>4. api[r].email = r
    BY <1>1, <2>1 DEF RequestInv
  <2>5. RequestInv(r)'
    BY <1>1, <2>1, <2>2, <2>3, <2>4 DEF RequestInv, Queued
  <2> QED BY <2>1, <2>2, <2>3, <2>5, OneRequest
<1>5. CASE MarkFailed(r) \/ MarkQueued(r)
  <2>1. task' = task /\ api[r].pc \in {"markFailed", "markQueued"}
    BY <1>5 DEF MarkFailed, MarkQueued, workVars
  <2>2. /\ \A s \in Requests : s # r => api'[s] = api[s]
        /\ api'[r].email = api[r].email /\ api'[r].pc = "done"
        /\ \/ api[r].pc = "markFailed" /\ api'[r].answer = "error"
           \/ api[r].pc = "markQueued" /\ api'[r].answer = "queued"
    BY <1>5, ApiEffect DEF MarkFailed, MarkQueued
  <2>3. \A s \in Requests : Stored(emails', s) <=> Stored(emails, s)
    <3>1. \/ emails' = emails
          \/ \E st \in Statuses : emails' = UpdateStatus(emails, api[r].email, st)
      BY <1>5 DEF MarkFailed, MarkQueued, Attempted, Statuses
    <3>2. api[r].email = r /\ Stored(emails, r)
      BY <1>1, <2>1 DEF RequestInv
    <3>3. emails \in [Requests -> Rows]
      BY DEF TypeOK
    <3> QED BY <3>1, <3>2, <3>3, UpdatesKeepRows
  <2>4. RequestInv(r)'
    BY <1>1, <2>1, <2>2, <2>3 DEF RequestInv, Queued
  <2> QED BY <2>1, <2>2, <2>3, <2>4, OneRequest
<1> QED BY <1>2, <1>3, <1>4, <1>5 DEF ApiStep

-----------------------------------------------------------------------------
(* The theorems about the ownership of rows and the order of attempts *)

\* Requests own their rows and tasks, and attempts come in their order.
THEOREM Ownership == Spec => [](OwnershipInv /\ Order)
<1>1. TypeOK /\ OwnershipInv /\ Order /\ [Next]_vars => OwnershipInv' /\ Order'
  <2>1. ASSUME TypeOK, OwnershipInv, Order, Next PROVE OwnershipInv' /\ Order'
    <3>1. 0 \in Attempts
      BY MaxRetriesAssumption DEF Attempts
    <3> QED
      BY <2>1, <3>1, ApiOwnership, WorkOwnership, ApiOrder, AsynqOrder, HandlerOrder
      DEF Next, OwnershipInv
  <2>2. ASSUME OwnershipInv, Order, UNCHANGED vars PROVE OwnershipInv' /\ Order'
    BY <2>2 DEF vars, OwnershipInv, Owned, StoredAndQueued, KeysUnique, AnswersAreBacked,
                StrandedOnlyByFailure, Queued, Order, AttemptsInOrder, LiveIsNewest, Live
  <2> QED BY <2>1, <2>2
<1> QED BY InitOwnership, InitOrder, TypeCorrect, <1>1, PTL DEF Spec

\* What follows for a request from the invariant about rows and tasks.
LEMMA OwnersPromises ==
  OwnershipInv => OneTaskPerEmail /\ AnswersAreBacked /\ StrandedOnlyByFailure
  BY DEF OwnershipInv, Owned, StoredAndQueued, KeysUnique, OneTaskPerEmail

\* However requests with one idempotency_id interleave, crash or fail, one of
\* them at most puts a task in the queue, and no two tasks carry one email.
THEOREM OneTask == Spec => []OneTaskPerEmail
  BY Ownership, OwnersPromises, PTL

\* What Send answered is true of the store and the queue.
THEOREM BackedAnswers == Spec => []AnswersAreBacked
  BY Ownership, OwnersPromises, PTL

\* A row without a task was left behind by a crash or by an error that was
\* answered (the steps of Send between the INSERT and enqueue).
THEOREM StrandedExplained == Spec => []StrandedOnlyByFailure
  BY Ownership, OwnersPromises, PTL

\* Why DuplicateIsQueued can fail: the request that stored the row of a
\* duplicate crashed or answered an error, and left the row without a task.
THEOREM DuplicateMissed ==
  Spec => [](\A r \in Requests :
               api[r].answer = "duplicate" /\ ~Queued(api[r].email) =>
                 \/ api[api[r].email].pc \in {"enqueue", "markFailed", "crashed"}
                 \/ api[api[r].email].answer = "error")
<1> DEFINE Missed ==
      \A r \in Requests :
        api[r].answer = "duplicate" /\ ~Queued(api[r].email) =>
          \/ api[api[r].email].pc \in {"enqueue", "markFailed", "crashed"}
          \/ api[api[r].email].answer = "error"
<1>1. TypeOK /\ OwnershipInv => Missed
  BY DEF TypeOK, Answered, OwnershipInv, AnswersAreBacked, StrandedOnlyByFailure
<1> QED BY TypeCorrect, Ownership, <1>1, PTL

-----------------------------------------------------------------------------
(* What the provider took, and why *)

\* The invariant as it concerns one attempt.
AttemptOk(r, n) ==
  /\ accepted[r][n] <= faults[r][n] + 1
  /\ \/ Excused(r, n)
     \/ /\ n = task[r].retried
        /\ task[r].state = "completed" \/ (Live(r, n) /\ run[r][n].pc \in AfterAccept)
  /\ run[r][n].ctx = "ended" /\ run[r][n].pc \in BeforeSend
       => accepted[r][n] < faults[r][n]
  /\ run[r][n].pc \in AfterAccept => accepted[r][n] > 0

Acceptances == \A r \in Requests, n \in Attempts : AttemptOk(r, n)

LEMMA InitAcceptances == Init => Acceptances
  BY DEF Init, Acceptances, AttemptOk, Excused, NoRun, BeforeSend, AfterAccept

\* A step of one attempt, that leaves the task alone unless it is the newest.
LEMMA OneAttempt ==
  ASSUME TypeOK, Acceptances, NEW r \in Requests, NEW n \in Attempts,
         \A s \in Requests, m \in Attempts : s # r \/ m # n =>
           /\ run'[s][m] = run[s][m]
           /\ accepted'[s][m] = accepted[s][m] /\ faults'[s][m] = faults[s][m],
         \A s \in Requests : s # r => task'[s] = task[s],
         task' = task \/ task[r].retried = n,
         AttemptOk(r, n)'
  PROVE  Acceptances'
<1>1. ASSUME NEW s \in Requests, NEW m \in Attempts, s # r \/ m # n
      PROVE  AttemptOk(s, m)'
  <2>1. AttemptOk(s, m)
    BY DEF Acceptances
  <2>2. CASE task'[s] = task[s]
    BY <1>1, <2>1, <2>2 DEF AttemptOk, Excused, Live
  <2>3. CASE task'[s] # task[s]
    <3>1. s = r /\ task[r].retried = n
      BY <2>3
    <3>2. Excused(s, m)
      BY <1>1, <2>1, <3>1 DEF AttemptOk
    <3> QED BY <1>1, <2>1, <3>2 DEF AttemptOk, Excused
  <2> QED BY <2>2, <2>3
<1> QED BY <1>1 DEF Acceptances

LEMMA ApiAcceptances ==
  ASSUME TypeOK, StoredAndQueued, Order, Acceptances, NEW r \in Requests,
         CheckSuppressed(r) \/ ApiStep(r) \/ ApiCrash(r)
  PROVE  Acceptances'
<1>1. UNCHANGED <<run, accepted, faults>>
  BY DEF CheckSuppressed, ApiStep, RejectContent, CreateOrGet, Enqueue, MarkFailed,
         MarkQueued, ApiCrash, workVars
<1>2. \A s \in Requests : task'[s] = task[s] \/ task[s].state = "none"
  <2>1. task' # task => Enqueue(r) /\ AddTask(r)
    BY DEF CheckSuppressed, ApiStep, RejectContent, CreateOrGet, Enqueue, MarkFailed,
           MarkQueued, ApiCrash, workVars
  <2>2. Enqueue(r) => task[r].state = "none"
    BY DEF Enqueue, StoredAndQueued, Queued
  <2>3. AddTask(r) => \A s \in Requests : s # r => task'[s] = task[s]
    BY DEF AddTask, TypeOK
  <2> QED BY <2>1, <2>2, <2>3
<1>3. ASSUME NEW s \in Requests, NEW n \in Attempts PROVE AttemptOk(s, n)'
  <2>1. AttemptOk(s, n)
    BY DEF Acceptances
  <2>2. CASE task'[s] = task[s]
    BY <1>1, <2>1, <2>2 DEF AttemptOk, Excused, Live
  <2>3. CASE task[s].state = "none"
    <3>1. ~Live(s, n)
      BY <2>3 DEF Order, LiveIsNewest
    <3> QED BY <1>1, <2>1, <2>3, <3>1 DEF AttemptOk, Excused
  <2> QED BY <1>2, <2>2, <2>3
<1> QED BY <1>3 DEF Acceptances

LEMMA AsynqAcceptances ==
  ASSUME TypeOK, Order, Acceptances, NEW r \in Requests, NEW n \in Attempts,
         AsynqStep(r) \/ Timeout(r, n) \/ WorkerCrash(r, n) \/ Shutdown(r, n)
  PROVE  Acceptances'
<1> USE DEF AttemptOk, Excused, Live
<1>1. run[r][n] \in Runs /\ task[r].retried \in Attempts
  BY DEF TypeOK, Tasks
<1>2. \A m \in Attempts : accepted[r][m] \in Nat /\ faults[r][m] \in Nat /\ AttemptOk(r, m)
  BY DEF TypeOK, Acceptances
<1>3. Live(r, n) => task[r].state = "active" /\ task[r].retried = n
  BY DEF Order, LiveIsNewest
<1>4. NoRun \in Runs /\ [NoRun EXCEPT !.pc = "GetByID"] \in Runs
  BY IDTypes DEF NoRun, Runs, RunPcs, Running, BeforeSend
<1>5. CASE Dequeue(r)
  <2>1. PICK m \in Attempts : m = task[r].retried
    BY <1>1
  <2>2. /\ run'[r][m].pc = "GetByID" /\ run'[r][m].ctx = "live"
        /\ \A s \in Requests, i \in Attempts : s # r \/ i # m => run'[s][i] = run[s][i]
    <3>1. SetRun(r, m, [NoRun EXCEPT !.pc = "GetByID"])
      BY <1>5, <2>1 DEF Dequeue
    <3>2. /\ [NoRun EXCEPT !.pc = "GetByID"].pc = "GetByID"
          /\ [NoRun EXCEPT !.pc = "GetByID"].ctx = "live"
      BY DEF NoRun
    <3> DEFINE new == [NoRun EXCEPT !.pc = "GetByID"]
    <3>3. /\ run'[r][m] = new
          /\ \A s \in Requests, i \in Attempts : s # r \/ i # m => run'[s][i] = run[s][i]
      <4>1. new \in Runs /\ SetRun(r, m, new)
        BY <1>4, <3>1
      <4> HIDE DEF new
      <4> QED BY <4>1, SetRunType
    <3> QED BY <3>2, <3>3
  <2>3. \A s \in Requests : s # r => task'[s] = task[s]
    BY <1>5, TaskEffect DEF Dequeue, TaskStates
  <2>4. UNCHANGED <<accepted, faults>> /\ task[r].state = "pending"
    BY <1>5 DEF Dequeue
  <2>5. Excused(r, m)
    <3>1. ~Live(r, m)
      BY <2>4 DEF Order, LiveIsNewest
    <3> QED BY <1>2, <2>4, <3>1
  <2>6. AttemptOk(r, m)'
    BY <1>2, <2>2, <2>4, <2>5 DEF AfterAccept
  <2> HIDE DEF AttemptOk
  <2> QED BY <2>1, <2>2, <2>3, <2>4, <2>6, OneAttempt
<1>6. CASE Recover(r)
  <2>1. PICK m \in Attempts : m = task[r].retried
    BY <1>1
  <2>2. UNCHANGED <<run, accepted, faults>> /\ run[r][m].pc = "lost" /\ task[r].state = "active"
    BY <1>6, <2>1 DEF Recover
  <2>3. \A s \in Requests : s # r => task'[s] = task[s]
    BY <1>6, RetryEffect DEF Recover
  <2>4. AttemptOk(r, m)'
    BY <1>2, <2>2 DEF Running, BeforeSend, AfterAccept, AfterError
  <2> HIDE DEF AttemptOk
  <2> QED BY <2>1, <2>2, <2>3, <2>4, OneAttempt
<1>7. CASE Timeout(r, n)
  <2> DEFINE new == [run[r][n] EXCEPT !.ctx = "ended"]
  <2>1. new \in Runs /\ new.ctx = "ended" /\ new.pc = run[r][n].pc
    BY <1>1, RunTypes DEF Runs
  <2>2. /\ run'[r][n] = new
        /\ \A s \in Requests, m \in Attempts : s # r \/ m # n => run'[s][m] = run[s][m]
    <3>1. SetRun(r, n, new)
      BY <1>7 DEF Timeout
    <3> HIDE DEF new
    <3> QED BY <2>1, <3>1, SetRunType
  <2>3. /\ faults'[r][n] = faults[r][n] + 1
        /\ \A s \in Requests, m \in Attempts : s # r \/ m # n => faults'[s][m] = faults[s][m]
    BY <1>7, IncidentType DEF Timeout
  <2>4. accepted' = accepted /\ Live(r, n)
    BY <1>7 DEF Timeout
  <2>5. \A s \in Requests : s # r => task'[s] = task[s]
    BY <1>7, RetryEffect DEF Timeout
  <2>6. AttemptOk(r, n)'
    BY <1>2, <1>3, <2>1, <2>2, <2>3, <2>4 DEF BeforeSend, AfterAccept
  <2> HIDE DEF AttemptOk, new, Live
  <2> QED BY <1>3, <2>2, <2>3, <2>4, <2>5, <2>6, OneAttempt
<1>8. CASE WorkerCrash(r, n)
  <2>1. /\ run'[r][n] = [run[r][n] EXCEPT !.pc = "lost"]
        /\ \A s \in Requests, m \in Attempts : s # r \/ m # n => run'[s][m] = run[s][m]
    BY <1>8, StepType DEF WorkerCrash, RunPcs
  <2>2. run'[r][n].pc = "lost"
    BY <1>1, <2>1 DEF Runs
  <2>3. /\ faults'[r][n] = faults[r][n] + 1
        /\ \A s \in Requests, m \in Attempts : s # r \/ m # n => faults'[s][m] = faults[s][m]
    BY <1>8, IncidentType DEF WorkerCrash
  <2>4. accepted' = accepted /\ task' = task
    BY <1>8 DEF WorkerCrash
  <2>5. AttemptOk(r, n)'
    BY <1>2, <2>2, <2>3, <2>4 DEF BeforeSend, AfterAccept
  <2> HIDE DEF AttemptOk
  <2> QED BY <2>1, <2>3, <2>4, <2>5, OneAttempt
<1>9. CASE Shutdown(r, n)
  <2>1. /\ run'[r][n] = NoRun
        /\ \A s \in Requests, m \in Attempts : s # r \/ m # n => run'[s][m] = run[s][m]
    BY <1>4, <1>9, SetRunType DEF Shutdown
  <2>2. /\ faults'[r][n] = faults[r][n] + 1
        /\ \A s \in Requests, m \in Attempts : s # r \/ m # n => faults'[s][m] = faults[s][m]
    BY <1>9, IncidentType DEF Shutdown
  <2>3. accepted' = accepted /\ Live(r, n)
    BY <1>9 DEF Shutdown
  <2>4. \A s \in Requests : s # r => task'[s] = task[s]
    BY <1>9, TaskEffect DEF Shutdown, TaskStates
  <2>5. AttemptOk(r, n)'
    BY <1>2, <2>1, <2>2, <2>3 DEF NoRun, BeforeSend, AfterAccept
  <2> HIDE DEF AttemptOk, Live
  <2> QED BY <1>3, <2>1, <2>2, <2>3, <2>4, <2>5, OneAttempt
<1> QED BY <1>5, <1>6, <1>7, <1>8, <1>9 DEF AsynqStep

\* What the moves of a handler do to the counts of one attempt.
LEMMA MoveCounts ==
  ASSUME TypeOK, NEW r \in Requests, NEW n \in Attempts, NEW pc, Moves(r, n, pc)
  PROVE  /\ \A s \in Requests, m \in Attempts : s # r \/ m # n =>
              accepted'[s][m] = accepted[s][m] /\ faults'[s][m] = faults[s][m]
         /\ \/ /\ accepted'[r][n] = accepted[r][n] /\ faults'[r][n] = faults[r][n]
               /\ pc \in AfterAccept => run[r][n].pc \in AfterAccept
               /\ pc \in BeforeSend => run[r][n].pc \in BeforeSend
               /\ run[r][n].pc \in AfterAccept => pc \in AfterAccept
            \/ /\ run[r][n].pc = "Send" /\ accepted'[r][n] = accepted[r][n] + 1
               /\ \/ pc \in AfterAccept /\ faults'[r][n] = faults[r][n]
                  \/ pc = "IncrementRetry" /\ faults'[r][n] = faults[r][n] + 1
<1> USE DEF BeforeSend, AfterAccept, AfterError
<1>1. accepted \in [Requests -> [Attempts -> Nat]] /\ accepted[r][n] + 1 \in Nat
  BY DEF TypeOK
<1>2. CASE UNCHANGED <<accepted, faults>>
  <2>1. accepted' # [accepted EXCEPT ![r][n] = accepted[r][n] + 1]
    BY <1>1, <1>2
  <2> QED BY <1>2, <2>1 DEF Moves
<1>3. CASE accepted' = [accepted EXCEPT ![r][n] = accepted[r][n] + 1]
  <2>1. /\ accepted'[r][n] = accepted[r][n] + 1
        /\ \A s \in Requests, m \in Attempts : s # r \/ m # n => accepted'[s][m] = accepted[s][m]
    BY <1>1, <1>3, Update2
  <2>2. accepted' # accepted
    BY <1>1, <2>1
  <2>3. /\ run[r][n].pc = "Send"
        /\ \/ pc \in AfterAccept /\ UNCHANGED faults
           \/ pc = "IncrementRetry" /\ Incident(r, n)
    BY <2>2 DEF Moves
  <2> QED BY <2>1, <2>3, IncidentType
<1> QED BY <1>2, <1>3 DEF Moves

LEMMA HandlerAcceptances ==
  ASSUME TypeOK, Order, Acceptances, NEW r \in Requests, NEW n \in Attempts,
         ProcessEmail(r, n)
  PROVE  Acceptances'
<1>1. /\ run[r][n] \in Runs
      /\ accepted[r][n] \in Nat /\ faults[r][n] \in Nat /\ AttemptOk(r, n)
  BY DEF TypeOK, Acceptances
<1>2. Live(r, n) => task[r].state = "active" /\ task[r].retried = n
  BY DEF Order, LiveIsNewest
<1>3. CASE ~Return(r, n)
  <2>1. task' = task /\ run[r][n].pc \in Running
    BY <1>3, HandlerEffect
  <2>2. PICK new \in Runs :
          SetRun(r, n, new) /\ new.ctx = run[r][n].ctx /\ new.pc \in Running
          /\ Moves(r, n, new.pc)
    BY <1>3, HandlerEffect
  <2>3. /\ run'[r][n] = new
        /\ \A s \in Requests, m \in Attempts : s # r \/ m # n => run'[s][m] = run[s][m]
    BY <2>2, SetRunType
  <2>4. Live(r, n)' <=> Live(r, n)
    BY <2>1, <2>2, <2>3 DEF Live
  <2>5. run[r][n].ctx \in {"live", "ended"}
    BY <1>1 DEF Runs
  <2>6. AttemptOk(r, n)'
    BY <1>1, <1>2, <2>1, <2>2, <2>3, <2>4, <2>5, MoveCounts
    DEF AttemptOk, Excused, Live, BeforeSend, AfterAccept
  <2> QED BY <2>1, <2>2, <2>3, <2>6, MoveCounts, OneAttempt
<1>4. CASE Return(r, n)
  <2>1. /\ run'[r][n] = [run[r][n] EXCEPT !.pc = "returned"]
        /\ \A s \in Requests, m \in Attempts : s # r \/ m # n => run'[s][m] = run[s][m]
    BY <1>4, StepType DEF Return, RunPcs
  <2>2. run'[r][n].pc = "returned" /\ UNCHANGED <<accepted, faults>>
    BY <1>1, <1>4, <2>1 DEF Return, Runs
  <2>3. CASE run[r][n].ctx = "ended"
    <3>1. task' = task /\ ~Live(r, n)
      BY <1>4, <2>3 DEF Return, Live
    <3>2. AttemptOk(r, n)'
      BY <1>1, <2>2, <3>1 DEF AttemptOk, Excused, BeforeSend, AfterAccept
    <3> QED BY <2>1, <2>2, <3>1, <3>2, OneAttempt
  <2>4. CASE run[r][n].ctx # "ended"
    <3>1. Live(r, n)
      BY <1>1, <1>4, <2>4 DEF Return, Live, Runs, Running, AfterAccept, AfterError
    <3>2. /\ \A s \in Requests : s # r => task'[s] = task[s]
          /\ \/ /\ run[r][n].pc = "ReturnOk"
                /\ task'[r].state = "completed" /\ task'[r].retried = task[r].retried
             \/ run[r][n].pc = "ReturnErr"
      <4>1. \/ run[r][n].pc = "ReturnOk" /\ Complete(r)
            \/ run[r][n].pc = "ReturnErr" /\ RetryOrArchive(r)
        BY <1>4, <2>4 DEF Return
      <4>2. Complete(r) => /\ \A s \in Requests : s # r => task'[s] = task[s]
                           /\ task'[r].state = "completed" /\ task'[r].retried = task[r].retried
        BY TaskEffect DEF Complete, TaskStates
      <4>3. RetryOrArchive(r) => \A s \in Requests : s # r => task'[s] = task[s]
        BY RetryEffect
      <4> QED BY <4>1, <4>2, <4>3
    <3>3. AttemptOk(r, n)'
      BY <1>1, <1>2, <2>2, <3>1, <3>2 DEF AttemptOk, Excused, BeforeSend, AfterAccept
    <3> QED BY <1>2, <2>1, <2>2, <3>1, <3>2, <3>3, OneAttempt
  <2> QED BY <2>3, <2>4
<1> QED BY <1>3, <1>4

-----------------------------------------------------------------------------
(* The theorems about duplicates and abandoned emails *)

\* Every message the provider took beyond the first has an incident behind it.
THEOREM AcceptancesAccounted == Spec => []Acceptances
<1>1. TypeOK /\ OwnershipInv /\ Order /\ Acceptances /\ [Next]_vars => Acceptances'
  <2>1. ASSUME TypeOK, OwnershipInv, Order, Acceptances, Next PROVE Acceptances'
    <3>1. 0 \in Attempts
      BY MaxRetriesAssumption DEF Attempts
    <3> QED BY <2>1, <3>1, ApiAcceptances, AsynqAcceptances, HandlerAcceptances
            DEF Next, OwnershipInv
  <2>2. ASSUME Acceptances, UNCHANGED vars PROVE Acceptances'
    BY <2>2 DEF vars, Acceptances, AttemptOk, Excused, Live
  <2> QED BY <2>1, <2>2
<1> QED BY InitAcceptances, TypeCorrect, Ownership, <1>1, PTL DEF Spec

\* What follows for an email from the invariants about its attempts.
LEMMA AttemptsPromises ==
  ASSUME TypeOK, Order, Acceptances
  PROVE  DuplicateOnlyAfterIncident /\ AbandonedOnlyAfterEveryAttempt
<1>1. ASSUME NEW r \in Requests, NEW n \in Attempts
      PROVE  AttemptOk(r, n) /\ accepted[r][n] \in Nat /\ faults[r][n] \in Nat
  BY DEF Acceptances, TypeOK
<1>2. ASSUME NEW r \in Requests, NEW n \in Attempts
      PROVE  /\ accepted[r][n] <= faults[r][n] + 1
             /\ \A m \in Attempts :
                  m > n /\ run[r][m].pc # "idle" /\ accepted[r][n] > 0 => faults[r][n] > 0
  <2>1. ASSUME NEW m \in Attempts, m > n, run[r][m].pc # "idle" PROVE Excused(r, n)
    <3>1. m <= task[r].retried /\ task[r].retried \in Attempts
      BY <2>1 DEF Order, AttemptsInOrder, TypeOK, Tasks, Attempts
    <3>2. n # task[r].retried
      BY <2>1, <3>1 DEF Attempts
    <3> QED BY <1>1, <3>2 DEF AttemptOk
  <2> QED BY <1>1, <2>1 DEF AttemptOk, Excused
<1>3. ASSUME NEW r \in Requests, task[r].state = "archived", NEW n \in Attempts
      PROVE  run[r][n].pc # "idle" /\ (accepted[r][n] > 0 => faults[r][n] > 0)
  <2>1. task[r].retried = MaxRetries /\ ~Live(r, n)
    BY <1>3 DEF Order, LiveIsNewest
  <2>2. ~(n > MaxRetries)
    BY MaxRetriesAssumption DEF Attempts
  <2>3. run[r][n].pc # "idle"
    BY <1>3, <2>1, <2>2 DEF Order, AttemptsInOrder
  <2> QED BY <1>1, <1>3, <2>1, <2>3 DEF AttemptOk, Excused
<1> QED BY <1>2, <1>3 DEF DuplicateOnlyAfterIncident, AbandonedOnlyAfterEveryAttempt

\* The provider takes an email twice only if an incident hit the earlier
\* attempt, however the attempts' steps interleave.
THEOREM DuplicatesExplained == Spec => []DuplicateOnlyAfterIncident
  BY TypeCorrect, Ownership, AcceptancesAccounted, AttemptsPromises, PTL

\* An email is given up only after MaxRetries + 1 attempts, each of which was
\* refused, failed or was hit by an incident.
THEOREM AbandonedLate == Spec => []AbandonedOnlyAfterEveryAttempt
  BY TypeCorrect, Ownership, AcceptancesAccounted, AttemptsPromises, PTL

-----------------------------------------------------------------------------
(* What was marked as sent *)

\* No statement but MarkSent sets sent_at.
LEMMA SentAtKept ==
  ASSUME NEW t \in [Requests -> Rows], NEW e \in Requests, NEW u,
         \/ u = t
         \/ u = Create(t, e)
         \/ \E s \in Statuses : u = UpdateStatus(t, e, s)
         \/ u = IncrementRetry(t, e)
         \/ \E id \in IDs : u = UpdateResendEmailID(t, e, id)
  PROVE  \A d \in Requests : u[d].sentAt => t[d].sentAt
<1>1. CASE u = Create(t, e)
  BY <1>1 DEF Create, AbsentRow, Rows
<1>2. CASE \E s \in Statuses : u = UpdateStatus(t, e, s)
  BY <1>2 DEF UpdateStatus, Rows
<1>3. CASE u = IncrementRetry(t, e)
  BY <1>3 DEF IncrementRetry, Rows
<1>4. CASE \E id \in IDs : u = UpdateResendEmailID(t, e, id)
  BY <1>4 DEF UpdateResendEmailID, Rows
<1> QED BY <1>1, <1>2, <1>3, <1>4

\* The steps that mark an email as sent are those of an attempt that was told
\* of the message.
LEMMA SentOnlyAfterAccept ==
  ASSUME TypeOK, Owned, StoredAndQueued, Order, Acceptances, Next
  PROVE  /\ \A r \in Requests, n \in Attempts : accepted[r][n] > 0 => accepted'[r][n] > 0
         /\ \A r \in Requests :
              /\ emails'[r].sentAt => emails[r].sentAt \/ Taken(r)
              /\ task'[r].state = "completed" => task[r].state = "completed" \/ Taken(r)
<1>0. emails \in [Requests -> Rows] /\ task \in [Requests -> Tasks]
  BY DEF TypeOK
<1>1. PICK r \in Requests :
        \/ CheckSuppressed(r) \/ ApiStep(r) \/ ApiCrash(r) \/ AsynqStep(r)
        \/ \E n \in Attempts :
             \/ ProcessEmail(r, n) \/ Timeout(r, n) \/ WorkerCrash(r, n) \/ Shutdown(r, n)
  BY DEF Next
<1>2. CASE CheckSuppressed(r) \/ ApiStep(r) \/ ApiCrash(r)
  <2>1. accepted' = accepted
    BY <1>2 DEF CheckSuppressed, ApiStep, RejectContent, CreateOrGet, Enqueue, MarkFailed,
                MarkQueued, ApiCrash, workVars
  <2>2. task' = task \/ AddTask(r)
    BY <1>2 DEF CheckSuppressed, ApiStep, RejectContent, CreateOrGet, Enqueue, MarkFailed,
                MarkQueued, ApiCrash, workVars
  <2>3. \A s \in Requests : task'[s].state = "completed" => task[s].state = "completed"
    <3>1. AddTask(r) => task'[r].state = "pending" /\ \A s \in Requests : s # r => task'[s] = task[s]
      BY <1>0 DEF AddTask
    <3> QED BY <2>2, <3>1
  <2>4. api[r].email \in Requests
    BY DEF TypeOK, Answered
  <2>5. \/ emails' = emails
        \/ emails' = Create(emails, r)
        \/ \E st \in Statuses : emails' = UpdateStatus(emails, api[r].email, st)
    BY <1>2 DEF CheckSuppressed, ApiStep, RejectContent, CreateOrGet, Enqueue, MarkFailed,
                MarkQueued, ApiCrash, workVars, Attempted, Statuses
  <2>6. \A s \in Requests : emails'[s].sentAt => emails[s].sentAt
    BY <1>0, <2>4, <2>5, SentAtKept
  <2> QED BY <2>1, <2>3, <2>6
<1>3. CASE AsynqStep(r) \/ \E n \in Attempts :
             Timeout(r, n) \/ WorkerCrash(r, n) \/ Shutdown(r, n)
  <2>1. accepted' = accepted /\ emails' = emails
    BY <1>3 DEF AsynqStep, Dequeue, Recover, Timeout, WorkerCrash, Shutdown
  <2>2. \/ task' = task
        \/ RetryOrArchive(r)
        \/ \E st \in {"active", "pending"} :
             task' = [task EXCEPT ![r] = [@ EXCEPT !.state = st]]
    BY <1>3 DEF AsynqStep, Dequeue, Recover, Timeout, WorkerCrash, Shutdown
  <2>3. \A s \in Requests : task'[s].state = "completed" => task[s].state = "completed"
    <3>1. CASE RetryOrArchive(r)
      BY <3>1, RetryEffect
    <3>2. CASE \E st \in {"active", "pending"} :
                 task' = [task EXCEPT ![r] = [@ EXCEPT !.state = st]]
      BY <1>0, <3>2 DEF Tasks
    <3> QED BY <2>2, <3>1, <3>2
  <2> QED BY <2>1, <2>3
<1>4. ASSUME NEW n \in Attempts, ProcessEmail(r, n)
      PROVE  /\ \A s \in Requests, m \in Attempts : accepted[s][m] > 0 => accepted'[s][m] > 0
             /\ \A s \in Requests :
                  /\ emails'[s].sentAt => emails[s].sentAt \/ Taken(s)
                  /\ task'[s].state = "completed" => task[s].state = "completed" \/ Taken(s)
  <2>1. AttemptOk(r, n) /\ accepted[r][n] \in Nat /\ task[r].email = r
    BY DEF Acceptances, TypeOK, Owned
  <2>2. run[r][n].pc \in AfterAccept => Taken(r)
    BY <2>1 DEF AttemptOk, Taken
  <2>3. \A s \in Requests, m \in Attempts : accepted[s][m] > 0 => accepted'[s][m] > 0
    <3>1. CASE Return(r, n)
      BY <3>1 DEF Return
    <3>2. CASE ~Return(r, n)
      <4>1. PICK new \in Runs : Moves(r, n, new.pc)
        BY <1>4, <3>2, HandlerEffect
      <4>2. \A s \in Requests, m \in Attempts : accepted[s][m] \in Nat
        BY DEF TypeOK
      <4> QED BY <2>1, <4>1, <4>2, MoveCounts
    <3> QED BY <3>1, <3>2
  <2>4. \A s \in Requests : emails'[s].sentAt => emails[s].sentAt \/ Taken(s)
    <3>1. CASE MarkAsSent(r, n)
      <4>1. Taken(r)
        BY <2>2, <3>1 DEF MarkAsSent, AfterAccept
      <4>2. emails' = emails \/ emails' = MarkSent(emails, r)
        BY <2>1, <3>1 DEF MarkAsSent, AttemptedBy, Attempted
      <4>3. \A s \in Requests : s # r => emails'[s] = emails[s]
        BY <1>0, <4>2 DEF MarkSent
      <4> QED BY <4>1, <4>3
    <3>2. CASE ~MarkAsSent(r, n)
      <4>1. run[r][n].id \in IDs
        BY DEF TypeOK, Runs
      <4>2. \/ emails' = emails
            \/ \E st \in Statuses : emails' = UpdateStatus(emails, r, st)
            \/ emails' = IncrementRetry(emails, r)
            \/ \E id \in IDs : emails' = UpdateResendEmailID(emails, r, id)
        BY <1>4, <2>1, <3>2, <4>1
        DEF ProcessEmail, GetByID, MarkSending, Send, IncrementRetryCount, MarkFailure,
            StoreProviderID, Return, AttemptedBy, Attempted, Statuses
      <4> QED BY <1>0, <4>2, SentAtKept
    <3> QED BY <3>1, <3>2
  <2>5. \A s \in Requests :
          task'[s].state = "completed" => task[s].state = "completed" \/ Taken(s)
    <3>1. CASE Return(r, n)
      <4>1. \/ task' = task
            \/ run[r][n].pc = "ReturnOk" /\ Complete(r)
            \/ RetryOrArchive(r)
        BY <3>1 DEF Return
      <4>2. Complete(r) => \A s \in Requests : s # r => task'[s] = task[s]
        BY TaskEffect DEF Complete, TaskStates
      <4>3. RetryOrArchive(r) => \A s \in Requests :
              task'[s].state = "completed" => task[s].state = "completed"
        BY RetryEffect
      <4> QED BY <2>2, <4>1, <4>2, <4>3 DEF AfterAccept
    <3>2. CASE ~Return(r, n)
      BY <1>4, <3>2, HandlerEffect
    <3> QED BY <3>1, <3>2
  <2> QED BY <2>3, <2>4, <2>5
<1> QED BY <1>1, <1>2, <1>3, <1>4

\* A task completes, and its row gets sent_at, only when the provider has taken
\* the message.
THEOREM SentWasAccepted == Spec => []SentMeansAccepted
<1>1. Init => SentMeansAccepted
  BY DEF Init, SentMeansAccepted, NoTask, AbsentRow
<1>2. TypeOK /\ OwnershipInv /\ Order /\ Acceptances /\ SentMeansAccepted /\ [Next]_vars
        => SentMeansAccepted'
  <2>1. ASSUME TypeOK, OwnershipInv, Order, Acceptances, SentMeansAccepted, Next
        PROVE  SentMeansAccepted'
    BY <2>1, SentOnlyAfterAccept DEF OwnershipInv, SentMeansAccepted, Taken
  <2>2. ASSUME SentMeansAccepted, UNCHANGED vars PROVE SentMeansAccepted'
    BY <2>2 DEF vars, SentMeansAccepted, Taken
  <2> QED BY <2>1, <2>2
<1> QED BY <1>1, <1>2, TypeCorrect, Ownership, AcceptancesAccounted, PTL DEF Spec
=============================================================================
