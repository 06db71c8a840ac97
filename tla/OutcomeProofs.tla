---------------------------- MODULE OutcomeProofs ----------------------------
(* What comes of an email.  The pipeline implements Delivery: what the API,    *)
(* asynq and the workers do together, with all their failures, is a behaviour  *)
(* of the abstract promise.  And what the row of the email is worth as a       *)
(* report: who can take the status "sent" away, how far retry_count can be     *)
(* ahead of the attempts, and what the row says when nothing fails.            *)
EXTENDS EmailPipelineProofs

-----------------------------------------------------------------------------
(* Delivery *)

\* A step that concerns one request changes the mapped state in its place only.
LEMMA OneRequestMapped ==
  ASSUME TypeOK, NEW r \in Requests,
         \A s \in Requests : s # r => task'[s] = task[s],
         \A s \in Requests, n \in Attempts : s # r => run'[s][n] = run[s][n]
  PROVE  /\ phaseBar' = [phaseBar EXCEPT ![r] = phaseBar'[r]]
         /\ atBar' = [atBar EXCEPT ![r] = task'[r].retried]
         /\ openBar' = [openBar EXCEPT ![r] = {n \in Attempts : run'[r][n].pc \in BeforeSend}]
<1>1. \A s \in Requests : task[s].retried \in Attempts
  BY DEF TypeOK, Tasks
<1>2. \A s \in Requests : s # r => PhaseOf(s)' = PhaseOf(s)
  <2> SUFFICES ASSUME NEW s \in Requests, s # r PROVE PhaseOf(s)' = PhaseOf(s)
    OBVIOUS
  <2>1. task'[s] = task[s] /\ run'[s][task[s].retried] = run[s][task[s].retried]
    BY <1>1
  <2>2. Acknowledged(s)' = Acknowledged(s)
    BY <2>1 DEF Acknowledged
  <2> QED BY <2>1, <2>2 DEF PhaseOf
<1>3. \A s \in Requests : s # r => openBar'[s] = openBar[s]
  BY DEF openBar
<1>4. phaseBar' = [phaseBar EXCEPT ![r] = phaseBar'[r]]
  BY <1>2 DEF phaseBar
<1>5. atBar' = [atBar EXCEPT ![r] = task'[r].retried]
  BY DEF atBar
<1>6. openBar' = [openBar EXCEPT ![r] = {n \in Attempts : run'[r][n].pc \in BeforeSend}]
  BY <1>3 DEF openBar
<1> QED BY <1>4, <1>5, <1>6

\* What Delivery sees of one request, before and after a step.
LEMMA Mapped ==
  ASSUME NEW r \in Requests
  PROVE  /\ task[r].state = "none" => phaseBar[r] = "absent"
         /\ task[r].state = "pending" => phaseBar[r] = "waiting"
         /\ task[r].state = "active" /\ Acknowledged(r) => phaseBar[r] = "acknowledged"
         /\ task[r].state = "active" /\ ~Acknowledged(r) => phaseBar[r] = "trying"
         /\ atBar[r] = task[r].retried
         /\ openBar[r] = {n \in Attempts : run[r][n].pc \in BeforeSend}
<1>1. phaseBar[r] = PhaseOf(r)
  BY DEF phaseBar
<1>2. task[r].state = "none" => PhaseOf(r) = "absent"
  BY DEF PhaseOf
<1>3. task[r].state = "pending" => PhaseOf(r) = "waiting"
  BY DEF PhaseOf
<1>4. task[r].state = "active" =>
        PhaseOf(r) = IF Acknowledged(r) THEN "acknowledged" ELSE "trying"
  BY DEF PhaseOf
<1> QED BY <1>1, <1>2, <1>3, <1>4 DEF atBar, openBar

LEMMA MappedNext ==
  ASSUME NEW r \in Requests
  PROVE  /\ task'[r].state = "pending" => phaseBar'[r] = "waiting"
         /\ task'[r].state = "active" /\ Acknowledged(r)' => phaseBar'[r] = "acknowledged"
         /\ task'[r].state = "active" /\ ~Acknowledged(r)' => phaseBar'[r] = "trying"
         /\ task'[r].state = "completed" => phaseBar'[r] = "kept"
         /\ task'[r].state = "archived" => phaseBar'[r] = "abandoned"
<1>1. phaseBar'[r] = PhaseOf(r)'
  BY DEF phaseBar
<1>2. task'[r].state = "pending" => PhaseOf(r)' = "waiting"
  BY DEF PhaseOf
<1>3. task'[r].state = "active" =>
        PhaseOf(r)' = IF Acknowledged(r)' THEN "acknowledged" ELSE "trying"
  BY DEF PhaseOf
<1>4. task'[r].state = "completed" => PhaseOf(r)' = "kept"
  BY DEF PhaseOf
<1>5. task'[r].state = "archived" => PhaseOf(r)' = "abandoned"
  BY DEF PhaseOf
<1> QED BY <1>1, <1>2, <1>3, <1>4, <1>5

LEMMA InitDelivers == Init => D!DeliveryInit
<1> SUFFICES ASSUME Init PROVE D!DeliveryInit
  OBVIOUS
<1>1. phaseBar = [r \in Requests |-> "absent"] /\ atBar = [r \in Requests |-> 0]
  BY DEF Init, NoTask, phaseBar, PhaseOf, atBar
<1>2. openBar = [r \in Requests |-> {}]
  BY DEF Init, NoRun, openBar, BeforeSend
<1>3. accepted = [r \in Requests |-> [n \in D!Attempts |-> 0]]
  BY DEF Init, Attempts, D!Attempts
<1> QED BY <1>1, <1>2, <1>3 DEF D!DeliveryInit

-----------------------------------------------------------------------------
(* The API gives a request its task: the service takes the email over *)

LEMMA ApiDelivers ==
  ASSUME TypeOK, StoredAndQueued, Order, NEW r \in Requests,
         CheckSuppressed(r) \/ ApiStep(r) \/ ApiCrash(r)
  PROVE  [D!DeliveryNext]_(D!dvars)
<1>1. run' = run /\ accepted' = accepted
  BY DEF CheckSuppressed, ApiStep, RejectContent, CreateOrGet, Enqueue, MarkFailed,
         MarkQueued, ApiCrash, workVars
<1>2. CASE task' = task
  BY <1>1, <1>2 DEF D!dvars, phaseBar, PhaseOf, atBar, openBar, Acknowledged
<1>3. CASE task' # task
  <2>1. Enqueue(r) /\ AddTask(r)
    BY <1>3 DEF CheckSuppressed, ApiStep, RejectContent, CreateOrGet, Enqueue, MarkFailed,
                MarkQueued, ApiCrash, workVars
  <2>2. task[r].state = "none" /\ task[r].retried = 0
    BY <2>1 DEF Enqueue, StoredAndQueued, Queued, Order, AttemptsInOrder
  <2>3. /\ task'[r].state = "pending" /\ task'[r].retried = 0
        /\ \A s \in Requests : s # r => task'[s] = task[s]
    BY <2>1 DEF AddTask, TypeOK
  <2>4. phaseBar[r] = "absent" /\ phaseBar' = [phaseBar EXCEPT ![r] = "waiting"]
    BY <1>1, <2>2, <2>3, Mapped, MappedNext, OneRequestMapped
  <2>5. atBar' = atBar /\ openBar' = openBar
    BY <1>1, <2>2, <2>3 DEF atBar, openBar
  <2>6. D!TakeOver(r)
    BY <1>1, <2>4, <2>5 DEF D!TakeOver, D!Become
  <2> QED BY <2>6 DEF D!DeliveryNext
<1> QED BY <1>2, <1>3

-----------------------------------------------------------------------------
(* asynq: attempts begin, are given up and are made again *)

\* An active task is one under way, whether or not it has been acknowledged.
LEMMA UnderWay ==
  ASSUME NEW r \in Requests, task[r].state = "active"
  PROVE  phaseBar[r] \in {"trying", "acknowledged"}
  BY Mapped

\* An attempt that failed is followed by another one or was the last.
LEMMA FailureDelivers ==
  ASSUME TypeOK, NEW r \in Requests, task[r].state = "active", RetryOrArchive(r),
         \A s \in Requests, n \in Attempts : s # r => run'[s][n] = run[s][n],
         \A n \in Attempts : run'[r][n].pc \in BeforeSend <=> run[r][n].pc \in BeforeSend,
         accepted' = accepted
  PROVE  D!Again(r) \/ D!Abandon(r)
<1>1. /\ \A s \in Requests : s # r => task'[s] = task[s]
      /\ \/ /\ task[r].retried = MaxRetries
            /\ task'[r].state = "archived" /\ task'[r].retried = MaxRetries
         \/ /\ task[r].retried < MaxRetries
            /\ task'[r].state = "pending" /\ task'[r].retried = task[r].retried + 1
  BY RetryEffect
<1>2. atBar' = [atBar EXCEPT ![r] = task'[r].retried] /\ atBar[r] = task[r].retried
  BY <1>1, OneRequestMapped, Mapped
<1>3. phaseBar' = [phaseBar EXCEPT ![r] = phaseBar'[r]]
  BY <1>1, OneRequestMapped
<1>4. openBar' = openBar
  BY DEF openBar
<1>5. CASE task'[r].state = "archived"
  <2>1. phaseBar' = [phaseBar EXCEPT ![r] = "abandoned"]
    BY <1>3, <1>5, MappedNext
  <2>2. atBar' = atBar
    BY <1>1, <1>2, <1>5 DEF atBar
  <2> QED BY <1>1, <1>2, <1>4, <1>5, <2>1, <2>2, UnderWay DEF D!Abandon, D!Become
<1>6. CASE task'[r].state = "pending"
  <2>1. phaseBar' = [phaseBar EXCEPT ![r] = "waiting"]
    BY <1>3, <1>6, MappedNext
  <2>2. atBar' = [atBar EXCEPT ![r] = atBar[r] + 1] /\ atBar[r] < MaxRetries
    BY <1>1, <1>2, <1>6
  <2> QED BY <1>4, <2>1, <2>2, UnderWay DEF D!Again, D!Become
<1> QED BY <1>1, <1>5, <1>6

\* An attempt that goes on, or stops, without the provider taking a message: it
\* may miss its chance to deliver or forget that it has delivered.
LEMMA MoveDelivers ==
  ASSUME TypeOK, Order, NEW r \in Requests, NEW n \in Attempts,
         run[r][n].pc \in Running, task' = task, accepted' = accepted,
         \A s \in Requests, m \in Attempts : s # r \/ m # n => run'[s][m] = run[s][m],
         run'[r][n].pc \in BeforeSend => run[r][n].pc \in BeforeSend,
         run'[r][n].pc \in AfterAccept =>
           run[r][n].pc \in AfterAccept /\ run'[r][n].ctx = run[r][n].ctx
  PROVE  [D!DeliveryNext]_(D!dvars)
<1>1. task[r].retried \in Attempts /\ task'[r] = task[r]
  BY DEF TypeOK, Tasks
<1>2. atBar' = atBar
  BY DEF atBar
<1>3. openBar' = [openBar EXCEPT ![r] = {m \in Attempts : run'[r][m].pc \in BeforeSend}]
      /\ phaseBar' = [phaseBar EXCEPT ![r] = phaseBar'[r]]
  BY OneRequestMapped
<1>4. Acknowledged(r)' => Acknowledged(r)
  BY <1>1 DEF Acknowledged
<1>5. Acknowledged(r)' # Acknowledged(r) => run[r][n].pc \in AfterAccept /\ n = task[r].retried /\ Live(r, n)
  BY <1>1 DEF Acknowledged, Live, Running
<1>6. CASE Acknowledged(r) /\ ~Acknowledged(r)'
  <2>1. run[r][n].pc \in AfterAccept /\ Live(r, n)
    BY <1>5, <1>6, Zenon
  <2>2. task[r].state = "active"
    BY <2>1 DEF Order, LiveIsNewest
  <2>3. phaseBar[r] = "acknowledged" /\ phaseBar' = [phaseBar EXCEPT ![r] = "trying"]
    BY <1>1, <1>3, <1>6, <2>2, Mapped, MappedNext
  <2>4. openBar' = openBar
    BY <2>1 DEF openBar, BeforeSend, AfterAccept
  <2>5. D!Forget(r)
    BY <1>2, <2>3, <2>4 DEF D!Forget, D!Become
  <2> QED BY <2>5 DEF D!DeliveryNext
<1>7. CASE Acknowledged(r)' = Acknowledged(r)
  <2>1. phaseBar' = phaseBar
    <3>1. PhaseOf(r)' = PhaseOf(r)
      BY <1>1, <1>7 DEF PhaseOf
    <3> QED BY <1>3, <3>1 DEF phaseBar
  <2>2. CASE run'[r][n].pc \in BeforeSend <=> run[r][n].pc \in BeforeSend
    <3>1. openBar' = openBar
      BY <2>2 DEF openBar
    <3> QED BY <1>2, <2>1, <3>1 DEF D!dvars
  <2>3. CASE run[r][n].pc \in BeforeSend /\ run'[r][n].pc \notin BeforeSend
    <3>1. n \in openBar[r]
      BY <2>3, Mapped
    <3>2. {m \in Attempts : run'[r][m].pc \in BeforeSend} = openBar[r] \ {n}
      BY <2>3, Mapped
    <3>3. D!Miss(r, n)
      BY <1>2, <1>3, <2>1, <3>1, <3>2 DEF D!Miss, D!Close
    <3> QED BY <3>3 DEF D!DeliveryNext, D!Attempts, Attempts
  <2> QED BY <2>2, <2>3
<1> QED BY <1>4, <1>6, <1>7 DEF Acknowledged

LEMMA AsynqDelivers ==
  ASSUME TypeOK, Order, NEW r \in Requests, NEW n \in Attempts,
         AsynqStep(r) \/ Timeout(r, n) \/ WorkerCrash(r, n) \/ Shutdown(r, n)
  PROVE  [D!DeliveryNext]_(D!dvars)
<1>1. run[r][n] \in Runs /\ task[r].retried \in Attempts
  BY DEF TypeOK, Tasks
<1>2. NoRun \in Runs /\ [NoRun EXCEPT !.pc = "GetByID"] \in Runs
  BY IDTypes DEF NoRun, Runs, RunPcs, Running, BeforeSend
<1>3. Live(r, n) => task[r].state = "active" /\ task[r].retried = n
  BY DEF Order, LiveIsNewest
<1>4. CASE Dequeue(r)
  <2>0. PICK m \in Attempts : m = task[r].retried
    BY <1>1
  <2>1. /\ run'[r][m].pc = "GetByID"
        /\ \A s \in Requests, i \in Attempts : s # r \/ i # m => run'[s][i] = run[s][i]
    <3> DEFINE new == [NoRun EXCEPT !.pc = "GetByID"]
    <3>1. new \in Runs /\ SetRun(r, m, new) /\ new.pc = "GetByID"
      BY <1>2, <1>4, <2>0 DEF Dequeue, NoRun
    <3> HIDE DEF new
    <3> QED BY <3>1, SetRunType
  <2>2. /\ \A s \in Requests : s # r => task'[s] = task[s]
        /\ task'[r].state = "active" /\ task'[r].retried = m
    BY <1>4, <2>0, TaskEffect DEF Dequeue, TaskStates
  <2>3. phaseBar[r] = "waiting" /\ atBar[r] = m
    BY <1>4, <2>0, Mapped DEF Dequeue
  <2>4. ~Acknowledged(r)'
    BY <2>1, <2>2 DEF Acknowledged, AfterAccept
  <2>5. phaseBar' = [phaseBar EXCEPT ![r] = "trying"]
    BY <2>1, <2>2, <2>4, OneRequestMapped, MappedNext
  <2>6. atBar' = atBar
    BY <2>0, <2>2 DEF atBar
  <2>7. openBar' = [openBar EXCEPT ![r] = openBar[r] \union {atBar[r]}]
    <3>1. {i \in Attempts : run'[r][i].pc \in BeforeSend} = openBar[r] \union {m}
      BY <2>1, Mapped DEF BeforeSend
    <3> QED BY <2>1, <2>2, <2>3, <3>1, OneRequestMapped
  <2>8. accepted' = accepted
    BY <1>4 DEF Dequeue
  <2>9. D!Begin(r)
    BY <2>3, <2>5, <2>6, <2>7, <2>8 DEF D!Begin, D!Become
  <2> QED BY <2>9 DEF D!DeliveryNext
<1>5. CASE Recover(r)
  <2>1. D!Again(r) \/ D!Abandon(r)
    BY <1>5, FailureDelivers DEF Recover
  <2> QED BY <2>1 DEF D!DeliveryNext
<1>6. CASE Timeout(r, n)
  <2> DEFINE new == [run[r][n] EXCEPT !.ctx = "ended"]
  <2>1. new \in Runs /\ new.pc = run[r][n].pc /\ SetRun(r, n, new)
    BY <1>1, <1>6, RunTypes DEF Runs, Timeout
  <2> HIDE DEF new
  <2>2. \A s \in Requests, m \in Attempts :
          /\ s # r => run'[s][m] = run[s][m]
          /\ run'[s][m].pc = run[s][m].pc
    BY <2>1, SetRunType
  <2>3. task[r].state = "active" /\ RetryOrArchive(r) /\ accepted' = accepted
    BY <1>3, <1>6 DEF Timeout
  <2>4. D!Again(r) \/ D!Abandon(r)
    BY <2>2, <2>3, FailureDelivers
  <2> QED BY <2>4 DEF D!DeliveryNext
<1>7. CASE WorkerCrash(r, n)
  <2>1. /\ run'[r][n].pc = "lost"
        /\ \A s \in Requests, m \in Attempts : s # r \/ m # n => run'[s][m] = run[s][m]
    <3>1. /\ run'[r][n] = [run[r][n] EXCEPT !.pc = "lost"]
          /\ \A s \in Requests, m \in Attempts : s # r \/ m # n => run'[s][m] = run[s][m]
      BY <1>7, StepType DEF WorkerCrash, RunPcs
    <3> QED BY <1>1, <3>1 DEF Runs
  <2>2. task' = task /\ accepted' = accepted /\ run[r][n].pc \in Running
    BY <1>7 DEF WorkerCrash
  <2> QED BY <2>1, <2>2, MoveDelivers DEF AfterAccept, BeforeSend
<1>8. CASE Shutdown(r, n)
  <2>1. /\ run'[r][n] = NoRun
        /\ \A s \in Requests, m \in Attempts : s # r \/ m # n => run'[s][m] = run[s][m]
    BY <1>2, <1>8, SetRunType DEF Shutdown
  <2>2. /\ \A s \in Requests : s # r => task'[s] = task[s]
        /\ task'[r].state = "pending" /\ task'[r].retried = task[r].retried
    BY <1>8, TaskEffect DEF Shutdown, TaskStates
  <2>3. task[r].state = "active" /\ task[r].retried = n /\ accepted' = accepted
    BY <1>3, <1>8 DEF Shutdown
  <2>4. phaseBar' = [phaseBar EXCEPT ![r] = "waiting"]
    BY <2>1, <2>2, OneRequestMapped, MappedNext
  <2>5. atBar' = atBar
    BY <2>2 DEF atBar
  <2>6. openBar' = [openBar EXCEPT ![r] = openBar[r] \ {atBar[r]}]
    <3>1. atBar[r] = n
      BY <2>3, Mapped
    <3>2. {i \in Attempts : run'[r][i].pc \in BeforeSend} = openBar[r] \ {n}
      BY <2>1, Mapped DEF BeforeSend, NoRun
    <3> QED BY <2>1, <2>2, <3>1, <3>2, OneRequestMapped
  <2>7. D!Redo(r)
    BY <2>3, <2>4, <2>5, <2>6, UnderWay DEF D!Redo, D!Become, D!Close
  <2> QED BY <2>7 DEF D!DeliveryNext
<1> QED BY <1>4, <1>5, <1>6, <1>7, <1>8 DEF AsynqStep

-----------------------------------------------------------------------------
(* ProcessEmail: the message is delivered, or the attempt misses its chance *)

\* The provider takes the message; the newest attempt may hear of it.
LEMMA TakenDelivers ==
  ASSUME TypeOK, Order, NEW r \in Requests, NEW n \in Attempts, NEW new \in Runs,
         SetRun(r, n, new), task' = task, new.ctx = run[r][n].ctx,
         run[r][n].pc = "Send", new.pc \in AfterAccept \union {"IncrementRetry"},
         accepted' = [accepted EXCEPT ![r][n] = accepted[r][n] + 1]
  PROVE  D!Deliver(r, n)
<1>1. /\ run'[r][n] = new
      /\ \A s \in Requests, m \in Attempts : s # r \/ m # n => run'[s][m] = run[s][m]
  BY SetRunType
<1>2. task[r].retried \in Attempts /\ task'[r] = task[r]
  BY DEF TypeOK, Tasks
<1>3. atBar' = atBar
  BY DEF atBar
<1>4. n \in openBar[r] /\ openBar' = [openBar EXCEPT ![r] = openBar[r] \ {n}]
  <2>1. {m \in Attempts : run'[r][m].pc \in BeforeSend} = openBar[r] \ {n}
    BY <1>1, Mapped DEF BeforeSend, AfterAccept
  <2> QED BY <1>1, <2>1, Mapped, OneRequestMapped DEF BeforeSend
<1>5. phaseBar' = [phaseBar EXCEPT ![r] = phaseBar'[r]]
  BY <1>1, OneRequestMapped
<1>6. CASE Acknowledged(r)' = Acknowledged(r)
  <2>1. PhaseOf(r)' = PhaseOf(r)
    BY <1>2, <1>6 DEF PhaseOf
  <2>2. phaseBar' = phaseBar
    BY <1>5, <2>1 DEF phaseBar
  <2> QED BY <1>3, <1>4, <2>2 DEF D!Deliver, D!Close
<1>7. CASE Acknowledged(r)' # Acknowledged(r)
  <2>1. n = task[r].retried
    BY <1>1, <1>2, <1>7 DEF Acknowledged
  <2>2. ~Acknowledged(r)
    BY <2>1 DEF Acknowledged, AfterAccept
  <2>3. Acknowledged(r)'
    BY <1>7, <2>2 DEF Acknowledged
  <2>4. run[r][n].ctx = "live"
    BY <1>1, <1>2, <2>1, <2>3 DEF Acknowledged
  <2>5. Live(r, n)
    BY <2>4 DEF Live, Running, BeforeSend
  <2>6. task[r].state = "active"
    BY <2>5 DEF Order, LiveIsNewest
  <2>7. phaseBar[r] = "trying" /\ phaseBar' = [phaseBar EXCEPT ![r] = "acknowledged"]
    BY <1>2, <1>5, <2>2, <2>3, <2>6, Mapped, MappedNext
  <2>8. n = atBar[r]
    BY <2>1, Mapped
  <2> QED BY <1>3, <1>4, <2>7, <2>8 DEF D!Deliver, D!Close, D!Become
<1> QED BY <1>6, <1>7

LEMMA HandlerDelivers ==
  ASSUME TypeOK, Order, NEW r \in Requests, NEW n \in Attempts, ProcessEmail(r, n)
  PROVE  [D!DeliveryNext]_(D!dvars)
<1>1. run[r][n] \in Runs
  BY DEF TypeOK
<1>2. CASE ~Return(r, n)
  <2>1. task' = task /\ run[r][n].pc \in Running
    BY <1>2, HandlerEffect
  <2>2. PICK new \in Runs :
          SetRun(r, n, new) /\ new.ctx = run[r][n].ctx /\ Moves(r, n, new.pc)
    BY <1>2, HandlerEffect
  <2>3. /\ run'[r][n] = new
        /\ \A s \in Requests, m \in Attempts : s # r \/ m # n => run'[s][m] = run[s][m]
    BY <2>2, SetRunType
  <2>4. CASE accepted' = accepted
    <3>1. /\ new.pc \in BeforeSend => run[r][n].pc \in BeforeSend
          /\ new.pc \in AfterAccept => run[r][n].pc \in AfterAccept
      BY <2>2, <2>4, MoveCounts DEF TypeOK
    <3> QED BY <2>1, <2>2, <2>3, <2>4, <3>1, MoveDelivers
  <2>5. CASE accepted' # accepted
    <3>1. /\ run[r][n].pc = "Send" /\ new.pc \in AfterAccept \union {"IncrementRetry"}
          /\ accepted' = [accepted EXCEPT ![r][n] = accepted[r][n] + 1]
      BY <2>2, <2>5 DEF Moves
    <3>2. D!Deliver(r, n)
      BY <2>1, <2>2, <3>1, TakenDelivers
    <3> QED BY <3>2 DEF D!DeliveryNext, D!Attempts, Attempts
  <2> QED BY <2>4, <2>5
<1>3. CASE Return(r, n)
  <2>1. /\ run'[r][n] = [run[r][n] EXCEPT !.pc = "returned"]
        /\ \A s \in Requests, m \in Attempts : s # r \/ m # n => run'[s][m] = run[s][m]
    BY <1>3, StepType DEF Return, RunPcs
  <2>2. /\ run'[r][n].pc = "returned" /\ run[r][n].pc \in {"ReturnOk", "ReturnErr"}
        /\ accepted' = accepted
    BY <1>1, <1>3, <2>1 DEF Return, Runs
  <2>3. CASE run[r][n].ctx = "ended"
    <3>1. task' = task
      BY <1>3, <2>3 DEF Return
    <3> QED BY <2>1, <2>2, <3>1, MoveDelivers
            DEF BeforeSend, AfterAccept, AfterError, Running
  <2>4. CASE run[r][n].ctx # "ended"
    <3>1. Live(r, n)
      BY <1>1, <2>2, <2>4 DEF Live, Runs, Running, AfterAccept, AfterError
    <3>2. task[r].state = "active" /\ task[r].retried = n
      BY <3>1 DEF Order, LiveIsNewest
    <3>3. CASE run[r][n].pc = "ReturnErr"
      <4>1. RetryOrArchive(r)
        BY <1>3, <2>4, <3>3 DEF Return
      <4>2. \A m \in Attempts : run'[r][m].pc \in BeforeSend <=> run[r][m].pc \in BeforeSend
        BY <2>1, <2>2 DEF BeforeSend
      <4>3. D!Again(r) \/ D!Abandon(r)
        BY <2>1, <2>2, <3>2, <4>1, <4>2, FailureDelivers
      <4> QED BY <4>3 DEF D!DeliveryNext
    <3>4. CASE run[r][n].pc = "ReturnOk"
      <4>1. /\ \A s \in Requests : s # r => task'[s] = task[s]
            /\ task'[r].state = "completed" /\ task'[r].retried = task[r].retried
        BY <1>3, <2>4, <3>4, TaskEffect DEF Return, Complete, TaskStates
      <4>2. Acknowledged(r)
        BY <3>1, <3>2, <3>4 DEF Acknowledged, Live, AfterAccept
      <4>3. phaseBar[r] = "acknowledged" /\ phaseBar' = [phaseBar EXCEPT ![r] = "kept"]
        BY <2>1, <3>2, <4>1, <4>2, Mapped, MappedNext, OneRequestMapped
      <4>4. atBar' = atBar
        BY <4>1 DEF atBar
      <4>5. openBar' = openBar
        <5>1. \A s \in Requests, m \in Attempts :
                run'[s][m].pc \in BeforeSend <=> run[s][m].pc \in BeforeSend
          BY <2>1, <2>2 DEF BeforeSend
        <5> QED BY <5>1 DEF openBar
      <4>6. D!Keep(r)
        BY <2>2, <4>3, <4>4, <4>5 DEF D!Keep, D!Become
      <4> QED BY <4>6 DEF D!DeliveryNext
    <3> QED BY <2>2, <3>3, <3>4
  <2> QED BY <2>3, <2>4
<1> QED BY <1>2, <1>3

-----------------------------------------------------------------------------
LEMMA StepDelivers ==
  ASSUME TypeOK, OwnershipInv, Order, Next PROVE [D!DeliveryNext]_(D!dvars)
<1>1. 0 \in Attempts
  BY MaxRetriesAssumption DEF Attempts
<1> QED BY <1>1, ApiDelivers, AsynqDelivers, HandlerDelivers DEF Next, OwnershipInv

\* Nothing but tasks, attempts and what the provider took is seen of a state.
LEMMA OutsideUnseen ==
  ASSUME UNCHANGED <<task, run, accepted>> PROVE UNCHANGED D!dvars
  BY DEF D!dvars, phaseBar, PhaseOf, Acknowledged, atBar, openBar

\* Whatever the API, asynq and the workers do together, with lost replies,
\* timeouts, crashes and shutdowns, is one attempt after the other until one is
\* acknowledged or all are spent (email.go, the worker's Start, asynq).
THEOREM PipelineDelivers == Spec => ImplementsDelivery
<1>1. TypeOK /\ OwnershipInv /\ Order /\ [Next]_vars => [D!DeliveryNext]_(D!dvars)
  BY StepDelivers, OutsideUnseen DEF vars
<1> QED BY InitDelivers, TypeCorrect, Ownership, <1>1, PTL
        DEF Spec, ImplementsDelivery, D!DeliverySpec

-----------------------------------------------------------------------------
(* The row *)

\* What the statements do to the status and the retry_count of the rows.
LEMMA StatementEffects ==
  ASSUME NEW t \in [Requests -> Rows], NEW e \in Requests
  PROVE  /\ \A d \in Requests \ {e} :
              /\ Create(t, e)[d] = t[d] /\ IncrementRetry(t, e)[d] = t[d]
              /\ MarkSent(t, e)[d] = t[d]
              /\ \A s \in Statuses : UpdateStatus(t, e, s)[d] = t[d]
              /\ \A id \in IDs : UpdateResendEmailID(t, e, id)[d] = t[d]
         /\ Create(t, e)[e].status = "pending" /\ Create(t, e)[e].retryCount = 0
         /\ \A s \in Statuses : /\ UpdateStatus(t, e, s)[e].status = s
                                /\ UpdateStatus(t, e, s)[e].retryCount = t[e].retryCount
         /\ IncrementRetry(t, e)[e].status = t[e].status
         /\ IncrementRetry(t, e)[e].retryCount = t[e].retryCount + 1
         /\ MarkSent(t, e)[e].status = "sent"
         /\ MarkSent(t, e)[e].retryCount = t[e].retryCount
         /\ \A id \in IDs : /\ UpdateResendEmailID(t, e, id)[e].status = t[e].status
                            /\ UpdateResendEmailID(t, e, id)[e].retryCount = t[e].retryCount
<1>1. t[e] \in Rows
  OBVIOUS
<1>2. /\ Create(t, e)[e].status = "pending" /\ Create(t, e)[e].retryCount = 0
      /\ \A d \in Requests \ {e} : Create(t, e)[d] = t[d]
  BY DEF Create, AbsentRow
<1>3. \A s \in Statuses :
        /\ UpdateStatus(t, e, s)[e].status = s
        /\ UpdateStatus(t, e, s)[e].retryCount = t[e].retryCount
        /\ \A d \in Requests \ {e} : UpdateStatus(t, e, s)[d] = t[d]
  BY <1>1 DEF UpdateStatus, Rows
<1>4. /\ IncrementRetry(t, e)[e].status = t[e].status
      /\ IncrementRetry(t, e)[e].retryCount = t[e].retryCount + 1
      /\ \A d \in Requests \ {e} : IncrementRetry(t, e)[d] = t[d]
  BY <1>1 DEF IncrementRetry, Rows
<1>5. /\ MarkSent(t, e)[e].status = "sent"
      /\ MarkSent(t, e)[e].retryCount = t[e].retryCount
      /\ \A d \in Requests \ {e} : MarkSent(t, e)[d] = t[d]
  BY <1>1 DEF MarkSent, Rows
<1>6. \A id \in IDs :
        /\ UpdateResendEmailID(t, e, id)[e].status = t[e].status
        /\ UpdateResendEmailID(t, e, id)[e].retryCount = t[e].retryCount
        /\ \A d \in Requests \ {e} : UpdateResendEmailID(t, e, id)[d] = t[d]
  BY <1>1 DEF UpdateResendEmailID, Rows
<1> QED BY <1>2, <1>3, <1>4, <1>5, <1>6

-----------------------------------------------------------------------------
(* Who writes a row *)

\* What one step does to the row of request r.
ByRequest(r) ==
  \/ /\ api[r].pc = "create" /\ ~Stored(emails, r)
     /\ emails'[r].status = "pending" /\ emails'[r].retryCount = 0
  \/ /\ api[r].pc = "markQueued" /\ emails'[r].status = "queued"
     /\ emails'[r].retryCount = emails[r].retryCount
  \/ /\ api[r].pc = "markFailed" /\ emails'[r].status = "failed"
     /\ emails'[r].retryCount = emails[r].retryCount

ByAttempt(r, n) ==
  /\ Live(r, n)
  /\ \/ /\ run[r][n].pc = "MarkSent" /\ emails'[r].status = "sent"
        /\ emails'[r].retryCount = emails[r].retryCount
     \/ /\ run[r][n].pc \in {"MarkSending", "MarkFailure"}
        /\ emails'[r].status \in {"sending", "failed", "queued"}
        /\ emails'[r].retryCount = emails[r].retryCount
     \/ /\ run[r][n].pc = "IncrementRetry" /\ emails'[r].status = emails[r].status
        /\ emails'[r].retryCount = emails[r].retryCount + 1
     \/ /\ emails'[r].status = emails[r].status
        /\ emails'[r].retryCount = emails[r].retryCount

LEMMA ApiWrites ==
  ASSUME TypeOK, OwnershipInv, NEW r \in Requests,
         CheckSuppressed(r) \/ ApiStep(r) \/ ApiCrash(r)
  PROVE  /\ \A s \in Requests \ {r} : emails'[s] = emails[s]
         /\ emails' = emails \/ ByRequest(r)
<1>1. emails \in [Requests -> Rows] /\ RequestInv(r)
  BY OwnershipByRequest DEF TypeOK
<1>2. \/ emails' = emails
      \/ api[r].pc = "create" /\ emails' = Create(emails, r)
      \/ api[r].pc = "markQueued" /\ emails' = UpdateStatus(emails, api[r].email, "queued")
      \/ api[r].pc = "markFailed" /\ emails' = UpdateStatus(emails, api[r].email, "failed")
  BY DEF CheckSuppressed, ApiStep, RejectContent, CreateOrGet, Enqueue, MarkFailed,
         MarkQueued, ApiCrash, workVars, Attempted
<1>3. api[r].pc \in {"markQueued", "markFailed"} => api[r].email = r
  BY <1>1 DEF RequestInv
<1>4. api[r].pc = "create" => ~Stored(emails, r)
  BY <1>1 DEF RequestInv
<1> QED BY <1>1, <1>2, <1>3, <1>4, StatementEffects DEF ByRequest, Statuses

LEMMA AttemptWrites ==
  ASSUME TypeOK, OwnershipInv, NEW r \in Requests, NEW n \in Attempts, ProcessEmail(r, n)
  PROVE  /\ \A s \in Requests \ {r} : emails'[s] = emails[s]
         /\ emails' = emails \/ ByAttempt(r, n)
<1>1. emails \in [Requests -> Rows] /\ run[r][n] \in Runs /\ task[r].email = r
  BY DEF TypeOK, OwnershipInv, Owned
<1>2. CASE emails' = emails
  BY <1>2
<1>3. CASE emails' # emails
  <2>1. \A after : AttemptedBy(r, n, after) =>
                     emails' = after /\ run[r][n].ctx = "live"
    BY <1>3 DEF AttemptedBy, Attempted
  <2>2. /\ run[r][n].ctx = "live"
        /\ \/ run[r][n].pc = "MarkSent" /\ emails' = MarkSent(emails, r)
           \/ run[r][n].pc = "MarkSending" /\ emails' = UpdateStatus(emails, r, "sending")
           \/ /\ run[r][n].pc = "MarkFailure"
              /\ \E s \in {"failed", "queued"} : emails' = UpdateStatus(emails, r, s)
           \/ run[r][n].pc = "IncrementRetry" /\ emails' = IncrementRetry(emails, r)
           \/ /\ run[r][n].pc = "StoreID"
              /\ emails' = UpdateResendEmailID(emails, r, run[r][n].id)
    BY <1>1, <1>3, <2>1
    DEF ProcessEmail, GetByID, MarkSending, Send, IncrementRetryCount, MarkFailure,
        StoreProviderID, MarkAsSent, Return
  <2>3. Live(r, n)
    BY <2>2 DEF Live, Running, BeforeSend, AfterAccept, AfterError
  <2>4. run[r][n].id \in IDs
    BY <1>1 DEF Runs
  <2> QED BY <1>1, <2>2, <2>3, <2>4, StatementEffects DEF ByAttempt, Statuses
<1> QED BY <1>2, <1>3

\* A row is written by its own request and its own attempts only.
LEMMA RowWrites ==
  ASSUME TypeOK, OwnershipInv, Next
  PROVE  \A r \in Requests :
           emails'[r] = emails[r] \/ ByRequest(r) \/ \E n \in Attempts : ByAttempt(r, n)
<1>1. PICK r \in Requests :
        \/ CheckSuppressed(r) \/ ApiStep(r) \/ ApiCrash(r) \/ AsynqStep(r)
        \/ \E n \in Attempts :
             \/ ProcessEmail(r, n) \/ Timeout(r, n) \/ WorkerCrash(r, n) \/ Shutdown(r, n)
  BY DEF Next
<1>2. AsynqStep(r) => emails' = emails
  BY DEF AsynqStep, Dequeue, Recover
<1>3. \A n \in Attempts :
        Timeout(r, n) \/ WorkerCrash(r, n) \/ Shutdown(r, n) => emails' = emails
  BY DEF Timeout, WorkerCrash, Shutdown
<1> QED BY <1>1, <1>2, <1>3, ApiWrites, AttemptWrites

-----------------------------------------------------------------------------
(* The status "sent" *)

SentTaken == \A r \in Requests : emails[r].status = "sent" => Taken(r)

\* Once the provider has taken an email that no incident has hit, no attempt
\* of it is before its send or after an error.
LEMMA TakenIsLast ==
  ASSUME TypeOK, Order, Acceptances, NEW r \in Requests, Taken(r),
         \A n \in Attempts : ~(faults[r][n] > 0),
         NEW m \in Attempts, Live(r, m)
  PROVE  run[r][m].pc \in AfterAccept
<1>1. PICK n \in Attempts : accepted[r][n] > 0
  BY DEF Taken
<1>2. AttemptOk(r, n) /\ accepted[r][n] \in Nat /\ faults[r][n] \in Nat
  BY DEF Acceptances, TypeOK
<1>3. ~Excused(r, n)
  BY <1>1, <1>2 DEF Excused
<1>4. task[r].state = "active" /\ m = task[r].retried
  BY DEF Order, LiveIsNewest
<1> QED BY <1>2, <1>3, <1>4 DEF AttemptOk

LEMMA SentTakenStep ==
  ASSUME TypeOK, OwnershipInv, Order, Acceptances, SentTaken, Next
  PROVE  SentTaken'
<1> SUFFICES ASSUME NEW r \in Requests, emails'[r].status = "sent" PROVE Taken(r)'
  BY DEF SentTaken
<1>1. \A n \in Attempts : accepted[r][n] > 0 => accepted'[r][n] > 0
  BY SentOnlyAfterAccept DEF OwnershipInv
<1>2. CASE emails[r].status = "sent"
  BY <1>1, <1>2 DEF SentTaken, Taken
<1>3. CASE emails[r].status # "sent"
  <2>1. PICK n \in Attempts : run[r][n].pc = "MarkSent"
    BY <1>3, RowWrites DEF ByRequest, ByAttempt
  <2>2. accepted[r][n] > 0
    BY <2>1 DEF Acceptances, AttemptOk, AfterAccept
  <2> QED BY <1>1, <2>2 DEF Taken
<1> QED BY <1>2, <1>3

\* The status "sent" is written only once the provider has taken the message.
THEOREM SentStatusTaken == Spec => []SentTaken
<1>1. Init => SentTaken
  BY DEF Init, SentTaken, AbsentRow
<1>2. SentTaken /\ UNCHANGED vars => SentTaken'
  BY DEF vars, SentTaken, Taken
<1> QED BY <1>1, <1>2, SentTakenStep, TypeCorrect, Ownership, AcceptancesAccounted, PTL
        DEF Spec

\* A row loses the status "sent" only to the API's own late write (email.go:183)
\* or to another attempt of a task that an incident has hit.
THEOREM SentLost == Spec => SentLostOnlyToLateWrites
<1> DEFINE Lost(r) ==
      emails[r].status = "sent" /\ emails'[r].status # "sent" =>
         \/ emails'[r].status = "queued" /\ api[r].pc = "markQueued"
         \/ emails'[r].status = "failed" /\ api[r].pc = "markFailed"
         \/ \E n \in Attempts : faults[r][n] > 0
<1>1. TypeOK /\ OwnershipInv /\ Order /\ Acceptances /\ SentTaken /\ [Next]_vars
        => [\A r \in Requests : Lost(r)]_vars
  <2> SUFFICES ASSUME TypeOK, OwnershipInv, Order, Acceptances, SentTaken, Next,
                      NEW r \in Requests, emails[r].status = "sent",
                      emails'[r].status # "sent",
                      \A n \in Attempts : ~(faults[r][n] > 0)
               PROVE  \/ emails'[r].status = "queued" /\ api[r].pc = "markQueued"
                      \/ emails'[r].status = "failed" /\ api[r].pc = "markFailed"
    OBVIOUS
  <2>1. Stored(emails, r) /\ Taken(r)
    BY DEF Stored, SentTaken
  <2>2. \A n \in Attempts : Live(r, n) => run[r][n].pc \in AfterAccept
    BY <2>1, TakenIsLast
  <2>3. ~\E n \in Attempts : ByAttempt(r, n)
    BY <2>2 DEF ByAttempt, AfterAccept
  <2> QED BY <2>1, <2>3, RowWrites DEF ByRequest
<1> QED BY <1>1, TypeCorrect, Ownership, AcceptancesAccounted, SentStatusTaken, PTL
        DEF Spec, SentLostOnlyToLateWrites

-----------------------------------------------------------------------------
(* How far retry_count can be ahead of the attempts *)

\* The newest attempt of r's task has not added to retry_count yet.
Uncounted(r) ==
  \/ task[r].state \in {"none", "pending"}
  \/ \E n \in Attempts :
       Live(r, n) /\ run[r][n].pc \in BeforeSend \union {"IncrementRetry"}

CountOk(r) ==
  /\ emails[r].retryCount <= task[r].retried + 1 + incidents
  /\ Uncounted(r) => emails[r].retryCount <= task[r].retried + incidents

CountsOk == \A r \in Requests : CountOk(r)

LEMMA CountTypes ==
  ASSUME TypeOK, NEW r \in Requests
  PROVE  emails[r].retryCount \in Nat /\ task[r].retried \in Nat /\ incidents \in Nat
<1>1. emails[r] \in Rows /\ task[r] \in Tasks /\ incidents \in Nat
  BY DEF TypeOK
<1> QED BY <1>1, MaxRetriesAssumption DEF Rows, Tasks, Attempts

\* A step that neither writes retry_count nor makes a new attempt of the task
\* keeps the bound, and so does one that puts the row or another attempt there.
LEMMA CountKept ==
  ASSUME TypeOK, TypeOK', NEW r \in Requests, CountOk(r),
         \/ emails'[r].retryCount = emails[r].retryCount
         \/ emails'[r].retryCount = 0,
         \/ task'[r].retried = task[r].retried /\ (Uncounted(r)' => Uncounted(r))
         \/ task'[r].retried = task[r].retried + 1
         \/ task'[r].retried = task[r].retried /\ incidents' = incidents + 1,
         incidents' >= incidents
  PROVE  CountOk(r)'
<1>1. emails[r].retryCount \in Nat /\ task[r].retried \in Nat /\ incidents \in Nat
  BY CountTypes
<1>2. emails'[r] \in Rows /\ task'[r] \in Tasks /\ incidents' \in Nat
  BY DEF TypeOK
<1>3. emails'[r].retryCount \in Nat /\ task'[r].retried \in Nat
  BY <1>2, MaxRetriesAssumption DEF Rows, Tasks, Attempts
<1> QED BY <1>1, <1>2, <1>3 DEF CountOk

LEMMA ApiCounts ==
  ASSUME TypeOK, TypeOK', OwnershipInv, Order, CountsOk, NEW r \in Requests,
         CheckSuppressed(r) \/ ApiStep(r) \/ ApiCrash(r)
  PROVE  CountsOk'
<1> SUFFICES ASSUME NEW s \in Requests PROVE CountOk(s)'
  BY DEF CountsOk
<1>0. UNCHANGED <<run, incidents>>
  BY DEF CheckSuppressed, ApiStep, RejectContent, CreateOrGet, Enqueue, MarkFailed,
         MarkQueued, ApiCrash, workVars
<1>1. task' # task => Enqueue(r) /\ AddTask(r)
  BY DEF CheckSuppressed, ApiStep, RejectContent, CreateOrGet, Enqueue, MarkFailed,
         MarkQueued, ApiCrash, workVars
<1>2. Enqueue(r) => task[r].state = "none"
  BY DEF Enqueue, OwnershipInv, StoredAndQueued, Queued
<1>3. \/ emails'[s].retryCount = emails[s].retryCount
      \/ emails'[s].retryCount = 0
  BY ApiWrites DEF ByRequest
<1>4. CASE task'[s] = task[s]
  <2>1. Uncounted(s)' => Uncounted(s)
    BY <1>0, <1>4 DEF Uncounted, Live
  <2>2. incidents' >= incidents /\ CountOk(s)
    BY <1>0, CountTypes DEF CountsOk
  <2> QED BY <1>3, <1>4, <2>1, <2>2, CountKept
<1>5. CASE task'[s] # task[s]
  <2>1. s = r /\ task[s].state = "none" /\ task'[s].retried = 0
    BY <1>1, <1>2, <1>5 DEF AddTask, TypeOK
  <2>2. Uncounted(s)
    BY <2>1 DEF Uncounted
  <2>3. /\ emails'[s].retryCount <= emails[s].retryCount
        /\ emails[s].retryCount <= incidents + task[s].retried
        /\ emails[s].retryCount \in Nat /\ emails'[s].retryCount \in Nat
        /\ incidents \in Nat /\ task[s].retried \in Nat
    BY <1>3, <2>2, CountTypes DEF CountsOk, CountOk
  <2>4. task[s].retried = 0 /\ incidents' = incidents
    BY <1>0, <2>1 DEF Order, AttemptsInOrder
  <2> QED BY <2>1, <2>3, <2>4 DEF CountOk
<1> QED BY <1>4, <1>5

\* What asynq, a timeout, a crash or a shutdown does to the attempts of a task.
LEMMA AsynqCounts ==
  ASSUME TypeOK, TypeOK', Order, Order', CountsOk, NEW r \in Requests, NEW n \in Attempts,
         AsynqStep(r) \/ Timeout(r, n) \/ WorkerCrash(r, n) \/ Shutdown(r, n)
  PROVE  CountsOk'
<1> SUFFICES ASSUME NEW s \in Requests PROVE CountOk(s)'
  BY DEF CountsOk
<1>1. /\ emails' = emails /\ incidents \in Nat /\ CountOk(s)
      /\ incidents' = incidents \/ incidents' = incidents + 1
  BY DEF AsynqStep, Dequeue, Recover, Timeout, WorkerCrash, Shutdown, Incident, TypeOK,
         CountsOk
<1>2. CASE s # r
  <2>1. task'[s] = task[s]
    BY <1>2, RetryEffect, TaskEffect
    DEF AsynqStep, Dequeue, Recover, Timeout, WorkerCrash, Shutdown, TaskStates
  <2>2. \A m \in Attempts : run'[s][m] = run[s][m]
    BY <1>2 DEF AsynqStep, Dequeue, Recover, Timeout, WorkerCrash, Shutdown, SetRun, Step,
                TypeOK
  <2> QED BY <1>1, <2>1, <2>2, CountKept DEF Uncounted, Live
<1>3. CASE s = r /\ (Recover(r) \/ Timeout(r, n))
  <2>1. RetryOrArchive(r) /\ \A m \in Attempts : Live(r, m) => task[r].state = "active"
    BY <1>3 DEF Recover, Timeout, Order, LiveIsNewest
  <2>2. task[r].retried = MaxRetries => task'[r].state \notin {"none", "pending", "active"}
    BY <2>1, RetryEffect, MaxRetriesAssumption
  <2>3. task'[r].state = "archived" => ~Uncounted(r)'
    BY DEF Order, LiveIsNewest, Uncounted
  <2> QED BY <1>1, <1>3, <2>1, <2>3, RetryEffect, CountKept
<1>4. CASE s = r /\ Dequeue(r)
  <2>1. Uncounted(r) /\ task'[r].retried = task[r].retried
    BY <1>4, TaskEffect DEF Dequeue, Uncounted, TaskStates
  <2> QED BY <1>1, <1>4, <2>1, CountKept
<1>5. CASE s = r /\ (WorkerCrash(r, n) \/ Shutdown(r, n))
  <2>1. task'[r].retried = task[r].retried /\ incidents' = incidents + 1
    BY <1>5, TaskEffect DEF WorkerCrash, Shutdown, Incident, TaskStates
  <2> QED BY <1>1, <1>5, <2>1, CountKept
<1> QED BY <1>2, <1>3, <1>4, <1>5 DEF AsynqStep

\* Only a failed send brings an attempt to IncrementRetry, and one before its
\* send was there before.
LEMMA CountedOnce ==
  ASSUME TypeOK, NEW r \in Requests, NEW n \in Attempts, ProcessEmail(r, n)
  PROVE  /\ run'[r][n].pc \in BeforeSend \union {"IncrementRetry"}
              => run[r][n].pc \in BeforeSend
         /\ run'[r][n].ctx = run[r][n].ctx
         /\ \A s \in Requests, m \in Attempts : s # r \/ m # n => run'[s][m] = run[s][m]
<1>1. run[r][n] \in Runs
  BY DEF TypeOK
<1>2. CASE ~Return(r, n)
  <2>1. PICK new \in Runs : SetRun(r, n, new) /\ new.ctx = run[r][n].ctx
    BY <1>2, HandlerEffect
  <2>2. /\ run'[r][n] = new
        /\ \A s \in Requests, m \in Attempts : s # r \/ m # n => run'[s][m] = run[s][m]
    BY <2>1, SetRunType
  <2>3. \/ run[r][n].pc \in BeforeSend
        \/ /\ run[r][n].pc \in {"IncrementRetry", "MarkFailure", "StoreID", "MarkSent"}
           /\ run'[r][n].pc \in {"MarkFailure", "ReturnErr", "MarkSent", "ReturnOk"}
    <3>1. \A pc \in RunPcs : Step(r, n, pc) => run'[r][n].pc = pc
      <4> SUFFICES ASSUME NEW pc \in RunPcs, Step(r, n, pc) PROVE run'[r][n].pc = pc
        OBVIOUS
      <4>1. run'[r][n] = [run[r][n] EXCEPT !.pc = pc]
        BY StepType
      <4> QED BY <1>1, <4>1 DEF Runs
    <3>2. IncrementRetryCount(r, n) => run'[r][n].pc = "MarkFailure"
      <4> DEFINE x == [run[r][n] EXCEPT !.pc = "MarkFailure", !.retryCount = @ + 1]
      <4>1. x.pc = "MarkFailure"
        BY <1>1 DEF Runs
      <4>2. run \in [Requests -> [Attempts -> Runs]]
        BY DEF TypeOK
      <4>3. IncrementRetryCount(r, n) => run' = [run EXCEPT ![r][n] = x]
        BY DEF IncrementRetryCount, SetRun
      <4> HIDE DEF x
      <4> QED BY <4>1, <4>2, <4>3
    <3> QED BY <1>2, <3>1, <3>2
            DEF ProcessEmail, GetByID, MarkSending, Send, IncrementRetryCount, MarkFailure,
                StoreProviderID, MarkAsSent, BeforeSend, AfterAccept, AfterError, Running,
                RunPcs
  <2> QED BY <2>1, <2>2, <2>3 DEF BeforeSend
<1>3. CASE Return(r, n)
  <2>1. /\ run'[r][n] = [run[r][n] EXCEPT !.pc = "returned"]
        /\ \A s \in Requests, m \in Attempts : s # r \/ m # n => run'[s][m] = run[s][m]
    BY <1>3, StepType DEF Return, RunPcs
  <2> QED BY <1>1, <2>1 DEF Runs, BeforeSend
<1> QED BY <1>2, <1>3

LEMMA HandlerCounts ==
  ASSUME TypeOK, TypeOK', OwnershipInv, Order, Order', CountsOk,
         NEW r \in Requests, NEW n \in Attempts, ProcessEmail(r, n)
  PROVE  CountsOk'
<1> SUFFICES ASSUME NEW s \in Requests PROVE CountOk(s)'
  BY DEF CountsOk
<1>1. /\ CountOk(s) /\ incidents \in Nat
      /\ incidents' = incidents \/ incidents' = incidents + 1
  BY DEF ProcessEmail, GetByID, MarkSending, Send, IncrementRetryCount, MarkFailure,
         StoreProviderID, MarkAsSent, Return, Incident, TypeOK, CountsOk
<1>2. CASE s # r
  <2>1. task'[s] = task[s]
    BY <1>2, HandlerEffect, RetryEffect, TaskEffect DEF Return, Complete, TaskStates
  <2>2. emails'[s] = emails[s] /\ \A m \in Attempts : run'[s][m] = run[s][m]
    BY <1>2, AttemptWrites, CountedOnce
  <2> QED BY <1>1, <2>1, <2>2, CountKept DEF Uncounted, Live
<1>3. CASE s = r /\ task' = task /\ emails'[r].retryCount # emails[r].retryCount
  <2>1. /\ Live(r, n) /\ run[r][n].pc = "IncrementRetry"
        /\ emails'[r].retryCount = emails[r].retryCount + 1
    BY <1>3, AttemptWrites DEF ByAttempt
  <2>2. task[r].state = "active" /\ \A m \in Attempts : m # n => ~Live(r, m)'
    BY <1>3, <2>1, CountedOnce DEF Order, LiveIsNewest, Live
  <2>3. ~Uncounted(r)'
    BY <1>3, <2>1, <2>2, CountedOnce DEF Uncounted, BeforeSend
  <2>4. Uncounted(r)
    BY <2>1 DEF Uncounted
  <2>5. emails[r].retryCount \in Nat /\ task[r].retried \in Nat
    BY CountTypes
  <2> QED BY <1>1, <1>3, <2>1, <2>3, <2>4, <2>5 DEF CountOk
<1>4. CASE s = r /\ task' = task /\ emails'[r].retryCount = emails[r].retryCount
  <2>1. Uncounted(r)' => Uncounted(r)
    BY <1>4, CountedOnce DEF Uncounted, Live, Running
  <2> QED BY <1>1, <1>4, <2>1, CountKept
<1>5. CASE s = r /\ task' # task
  <2>1. Return(r, n)
    BY <1>5, HandlerEffect
  <2>2. emails' = emails
    BY <2>1 DEF Return
  <2>3. RetryOrArchive(r) \/ Complete(r)
    BY <1>5, <2>1 DEF Return
  <2>4. task'[r].state \in {"archived", "completed"} => ~Uncounted(r)'
    BY DEF Order, LiveIsNewest, Uncounted
  <2> QED BY <1>1, <1>5, <2>2, <2>3, <2>4, RetryEffect, TaskEffect, CountKept
          DEF Complete, TaskStates
<1> QED BY <1>2, <1>3, <1>4, <1>5

LEMMA CountsStep ==
  ASSUME TypeOK, TypeOK', OwnershipInv, Order, Order', CountsOk, Next PROVE CountsOk'
<1>1. 0 \in Attempts
  BY MaxRetriesAssumption DEF Attempts
<1> QED BY <1>1, ApiCounts, AsynqCounts, HandlerCounts DEF Next

\* retry_count never runs ahead of the attempts: each execution of an attempt
\* adds at most one, and only a shutdown executes an attempt again.
THEOREM RetryCounts == Spec => []RetryCountExplained
<1>1. Init => CountsOk
  BY MaxRetriesAssumption DEF Init, CountsOk, CountOk, AbsentRow, NoTask
<1>2. TypeOK /\ TypeOK' /\ OwnershipInv /\ Order /\ Order' /\ CountsOk /\ [Next]_vars
        => CountsOk'
  <2>1. ASSUME CountsOk, UNCHANGED vars PROVE CountsOk'
    BY <2>1 DEF vars, CountsOk, CountOk, Uncounted, Live
  <2> QED BY <2>1, CountsStep
<1>3. CountsOk => RetryCountExplained
  BY DEF CountsOk, CountOk, RetryCountExplained
<1> QED BY <1>1, <1>2, <1>3, TypeCorrect, Ownership, PTL DEF Spec

-----------------------------------------------------------------------------
(* With no failure of the infrastructure: what an attempt leaves in its row,   *)
(* step by step, and what the row says when the task is over.                  *)

\* No incident has hit an attempt: none is abandoned, none is lost.  No request
\* had to give its row up.
Undisturbed ==
  \A r \in Requests :
    /\ api[r].pc # "markFailed"
    /\ \A n \in Attempts :
         faults[r][n] = 0 /\ run[r][n].ctx = "live" /\ run[r][n].pc # "lost"

\* The newest attempt of r's task goes from "at" to "next".
Goes(r, at, next) ==
  /\ task[r].state = "active" /\ task'[r] = task[r]
  /\ run[r][task[r].retried].pc = at /\ run'[r][task[r].retried].pc = next

KeepsRow(r) == emails'[r] = emails[r]
KeepsCopy(r) ==
  run'[r][task[r].retried].retryCount = run[r][task[r].retried].retryCount
Accepts(r) == accepted'[r][task[r].retried] = accepted[r][task[r].retried] + 1

\* What a step of ProcessEmail does to its own row when nothing fails.
CalmHandling(r) ==
  LET x == run[r][task[r].retried]
      y == run'[r][task[r].retried]
  IN  \/ /\ Goes(r, "GetByID", "MarkSending")
         /\ KeepsRow(r) /\ y.retryCount = emails[r].retryCount
      \/ /\ Goes(r, "MarkSending", "Send") /\ KeepsCopy(r)
         /\ emails'[r] = [emails[r] EXCEPT !.status = "sending"]
      \/ Goes(r, "Send", "IncrementRetry") /\ KeepsCopy(r) /\ KeepsRow(r)
      \/ /\ Goes(r, "Send", IF ReturnsID THEN "StoreID" ELSE "MarkSent")
         /\ KeepsRow(r) /\ y.id = ProviderID(r, task[r].retried)
      \/ /\ Goes(r, "IncrementRetry", "MarkFailure") /\ y.retryCount = x.retryCount + 1
         /\ emails'[r] = [emails[r] EXCEPT !.retryCount = emails[r].retryCount + 1]
      \/ /\ Goes(r, "MarkFailure", "ReturnErr") /\ KeepsCopy(r)
         /\ emails'[r] = [emails[r] EXCEPT
                            !.status = IF x.retryCount >= MaxRetries THEN "failed" ELSE "queued"]
      \/ /\ Goes(r, "StoreID", "MarkSent")
         /\ emails'[r] = [emails[r] EXCEPT !.resendID = x.id]
      \/ /\ Goes(r, "MarkSent", "ReturnOk")
         /\ emails'[r] = [emails[r] EXCEPT !.status = "sent", !.sentAt = TRUE]

\* What any step does to the row and the task of r when nothing fails.
CalmStep(r) ==
  \/ /\ task'[r] = task[r] /\ run'[r] = run[r]
     /\ \/ KeepsRow(r)
        \/ task[r].state = "none" /\ emails'[r] = [AbsentRow EXCEPT !.status = "pending"]
        \/ emails'[r] = [emails[r] EXCEPT !.status = "queued"]
  \/ /\ task[r].state = "none" /\ task'[r].state = "pending"
     /\ task'[r].retried = task[r].retried /\ run'[r] = run[r] /\ KeepsRow(r)
  \/ /\ task[r].state = "pending" /\ task'[r].state = "active" /\ KeepsRow(r)
     /\ task'[r].retried = task[r].retried /\ run'[r][task[r].retried].pc = "GetByID"
  \/ CalmHandling(r)
  \/ /\ task[r].state = "active" /\ run[r][task[r].retried].pc = "ReturnOk" /\ KeepsRow(r)
     /\ task'[r].state = "completed" /\ task'[r].retried = task[r].retried
  \/ /\ task[r].state = "active" /\ run[r][task[r].retried].pc = "ReturnErr" /\ KeepsRow(r)
     /\ \/ /\ task[r].retried = MaxRetries
           /\ task'[r].state = "archived" /\ task'[r].retried = MaxRetries
        \/ task'[r].state = "pending" /\ task'[r].retried = task[r].retried + 1

LEMMA CalmBefore ==
  ASSUME TypeOK, Next, Calm'
  PROVE  /\ Calm /\ ~Outage
         /\ \A r \in Requests, n \in Attempts : ~Incident(r, n)
         /\ UNCHANGED <<outages, incidents>>
<1>1. outages \in Nat /\ incidents \in Nat /\ outages' = 0 /\ incidents' = 0
  BY DEF TypeOK, Calm
<1>2. ~Outage /\ \A r \in Requests, n \in Attempts : ~Incident(r, n)
  BY <1>1 DEF Outage, Incident
<1>3. PICK r \in Requests, n \in Attempts :
        \/ CheckSuppressed(r) \/ ApiStep(r) \/ ApiCrash(r) \/ AsynqStep(r)
        \/ ProcessEmail(r, n) \/ Timeout(r, n) \/ WorkerCrash(r, n) \/ Shutdown(r, n)
  BY MaxRetriesAssumption DEF Next, Attempts
<1>4. /\ \A after : Attempted(after) => outages' = outages
      /\ \A after : AttemptedBy(r, n, after) => outages' = outages
  BY <1>2 DEF Attempted, AttemptedBy
<1>5. UNCHANGED <<outages, incidents>>
  <2>1. CASE CheckSuppressed(r) \/ ApiStep(r) \/ ApiCrash(r)
    BY <1>2, <1>4, <2>1 DEF CheckSuppressed, ApiStep, RejectContent, CreateOrGet, Enqueue,
                            MarkFailed, MarkQueued, ApiCrash, workVars
  <2>2. CASE AsynqStep(r) \/ Timeout(r, n) \/ WorkerCrash(r, n) \/ Shutdown(r, n)
    BY <1>2, <2>2 DEF AsynqStep, Dequeue, Recover, Timeout, WorkerCrash, Shutdown
  <2>3. CASE ProcessEmail(r, n)
    BY <1>2, <1>4, <2>3 DEF ProcessEmail, GetByID, MarkSending, Send, IncrementRetryCount,
                            MarkFailure, StoreProviderID, MarkAsSent, Return
  <2> QED BY <1>3, <2>1, <2>2, <2>3
<1> QED BY <1>1, <1>2, <1>5 DEF Calm

\* The steps that are left when nothing fails.
LEMMA CalmSteps ==
  ASSUME TypeOK, Order, Undisturbed, Next, Calm'
  PROVE  \E r \in Requests :
           \/ CheckSuppressed(r) \/ ApiStep(r) \/ ApiCrash(r) \/ Dequeue(r)
           \/ \E n \in Attempts : ProcessEmail(r, n) /\ Live(r, n) /\ n = task[r].retried
                                  /\ task[r].state = "active"
<1>1. PICK r \in Requests, n \in Attempts :
        \/ CheckSuppressed(r) \/ ApiStep(r) \/ ApiCrash(r) \/ AsynqStep(r)
        \/ ProcessEmail(r, n) \/ Timeout(r, n) \/ WorkerCrash(r, n) \/ Shutdown(r, n)
  BY MaxRetriesAssumption DEF Next, Attempts
<1>2. ~Timeout(r, n) /\ ~WorkerCrash(r, n) /\ ~Shutdown(r, n)
  BY CalmBefore DEF Timeout, WorkerCrash, Shutdown
<1>3. ~Recover(r)
  BY DEF Recover, Undisturbed, TypeOK, Tasks
<1>4. ProcessEmail(r, n) => Live(r, n)
  BY DEF ProcessEmail, GetByID, MarkSending, Send, IncrementRetryCount, MarkFailure,
         StoreProviderID, MarkAsSent, Return, Undisturbed, Live, Running, BeforeSend,
         AfterAccept, AfterError
<1>5. Live(r, n) => n = task[r].retried /\ task[r].state = "active"
  BY DEF Order, LiveIsNewest
<1> QED BY <1>1, <1>2, <1>3, <1>4, <1>5 DEF AsynqStep

LEMMA UndisturbedStep ==
  ASSUME TypeOK, Order, Undisturbed, Next, Calm'
  PROVE  Undisturbed'
<1>1. PICK r \in Requests :
        \/ CheckSuppressed(r) \/ ApiStep(r) \/ ApiCrash(r) \/ Dequeue(r)
        \/ \E n \in Attempts : ProcessEmail(r, n)
  BY CalmSteps
<1>2. CASE CheckSuppressed(r) \/ ApiStep(r) \/ ApiCrash(r)
  <2>1. UNCHANGED <<run, faults>>
    BY <1>2 DEF CheckSuppressed, ApiStep, RejectContent, CreateOrGet, Enqueue, MarkFailed,
                MarkQueued, ApiCrash, workVars
  <2>2. \A s \in Requests : api'[s].pc # "markFailed"
    <3>1. api \in [Requests -> Answered] /\ ~Outage
      BY CalmBefore DEF TypeOK
    <3>2. ASSUME NEW new \in Answered, api' = [api EXCEPT ![r] = new], new.pc # "markFailed"
          PROVE  \A s \in Requests : api'[s].pc # "markFailed"
      BY <3>1, <3>2 DEF Undisturbed
    <3>3. ASSUME NEW pc \in ApiPcs, pc # "markFailed", Goto(r, pc)
          PROVE  \A s \in Requests : api'[s].pc # "markFailed"
      <4> DEFINE new == [api[r] EXCEPT !.pc = pc]
      <4>1. new \in Answered /\ new.pc # "markFailed" /\ api' = [api EXCEPT ![r] = new]
        BY <3>1, <3>3 DEF Goto, Answered
      <4> HIDE DEF new
      <4> QED BY <3>2, <4>1
    <3>4. ASSUME NEW a \in Answers, Respond(r, a)
          PROVE  \A s \in Requests : api'[s].pc # "markFailed"
      <4> DEFINE new == [api[r] EXCEPT !.pc = "done", !.answer = a]
      <4>1. new \in Answered /\ new.pc # "markFailed" /\ api' = [api EXCEPT ![r] = new]
        <5>1. "done" \in ApiPcs /\ "done" # "markFailed" /\ api[r] \in Answered
          BY <3>1 DEF ApiPcs
        <5> QED BY <3>4, <5>1 DEF Respond, Answered
      <4> HIDE DEF new
      <4> QED BY <3>2, <4>1
    <3>5. CASE CreateOrGet(r)
      <4>1. CASE \E e \in Conflicts(r) :
              api' = [api EXCEPT ![r] = [pc |-> "done", email |-> e, answer |-> "duplicate"]]
        BY <3>1, <4>1 DEF Undisturbed
      <4>2. CASE Goto(r, "enqueue")
        BY <3>3, <4>2 DEF ApiPcs
      <4> QED BY <3>1, <3>5, <4>1, <4>2 DEF CreateOrGet
    <3> QED BY <1>2, <3>1, <3>3, <3>4, <3>5
            DEF CheckSuppressed, ApiStep, RejectContent, Enqueue, MarkFailed, MarkQueued,
                ApiCrash, ApiPcs, Answers
  <2> QED BY <2>1, <2>2 DEF Undisturbed
<1>3. CASE Dequeue(r)
  <2> DEFINE new == [NoRun EXCEPT !.pc = "GetByID"]
  <2>1. run' = [run EXCEPT ![r][task[r].retried] = new]
    BY <1>3 DEF Dequeue, SetRun
  <2>2. new.ctx = "live" /\ new.pc # "lost" /\ UNCHANGED <<api, faults>>
    BY <1>3 DEF NoRun, Dequeue, apiVars
  <2>3. run \in [Requests -> [Attempts -> Runs]] /\ task[r].retried \in Attempts
    BY DEF TypeOK, Tasks
  <2> HIDE DEF new
  <2> QED BY <2>1, <2>2, <2>3 DEF Undisturbed
<1>4. ASSUME NEW n \in Attempts, ProcessEmail(r, n) PROVE Undisturbed'
  <2>1. UNCHANGED <<api, faults>>
    BY <1>4, CalmBefore DEF ProcessEmail, GetByID, MarkSending, Send, IncrementRetryCount,
                            MarkFailure, StoreProviderID, MarkAsSent, Return, apiVars
  <2>2. run'[r][n].pc # "lost"
    <3>1. CASE Return(r, n)
      <4>1. run'[r][n] = [run[r][n] EXCEPT !.pc = "returned"]
        BY <3>1, StepType DEF Return, RunPcs
      <4>2. run[r][n] \in Runs
        BY DEF TypeOK
      <4> QED BY <4>1, <4>2 DEF Runs
    <3>2. CASE ~Return(r, n)
      <4>1. PICK new \in Runs : SetRun(r, n, new) /\ new.pc \in Running
        BY <1>4, <3>2, HandlerEffect
      <4>2. run'[r][n] = new
        BY <4>1, SetRunType
      <4> QED BY <4>1, <4>2 DEF Running, BeforeSend, AfterAccept, AfterError
    <3> QED BY <3>1, <3>2
  <2>3. /\ run'[r][n].ctx = run[r][n].ctx
        /\ \A s \in Requests, m \in Attempts : s # r \/ m # n => run'[s][m] = run[s][m]
    BY <1>4, CountedOnce
  <2> QED BY <2>1, <2>2, <2>3 DEF Undisturbed
<1> QED BY <1>1, <1>2, <1>3, <1>4

\* The statements, on the row they name.
LEMMA StatementRows ==
  ASSUME NEW t \in [Requests -> Rows], NEW e \in Requests
  PROVE  /\ Create(t, e)[e] = [AbsentRow EXCEPT !.status = "pending"]
         /\ \A s \in Statuses : UpdateStatus(t, e, s)[e] = [t[e] EXCEPT !.status = s]
         /\ IncrementRetry(t, e)[e] = [t[e] EXCEPT !.retryCount = t[e].retryCount + 1]
         /\ MarkSent(t, e)[e] = [t[e] EXCEPT !.status = "sent", !.sentAt = TRUE]
         /\ \A id \in IDs : UpdateResendEmailID(t, e, id)[e] = [t[e] EXCEPT !.resendID = id]
  BY DEF Create, UpdateStatus, IncrementRetry, MarkSent, UpdateResendEmailID

LEMMA ApiCalmStep ==
  ASSUME TypeOK, OwnershipInv, Order, Undisturbed, NEW s \in Requests, ~Outage,
         CheckSuppressed(s) \/ ApiStep(s) \/ ApiCrash(s), NEW r \in Requests
  PROVE  CalmStep(r)
<1>1. run' = run
  BY DEF CheckSuppressed, ApiStep, RejectContent, CreateOrGet, Enqueue, MarkFailed,
         MarkQueued, ApiCrash, workVars
<1>2. emails \in [Requests -> Rows] /\ task \in [Requests -> Tasks] /\ RequestInv(s)
  BY OwnershipByRequest DEF TypeOK
<1>3. CASE s # r
  <2>1. emails'[r] = emails[r]
    BY <1>3, ApiWrites
  <2>2. task'[r] = task[r]
    BY <1>2, <1>3 DEF CheckSuppressed, ApiStep, RejectContent, CreateOrGet, Enqueue, MarkFailed,
                      MarkQueued, ApiCrash, workVars, AddTask
  <2> QED BY <1>1, <2>1, <2>2 DEF CalmStep, KeepsRow
<1>4. CASE s = r
  <2>1. CASE Enqueue(r)
    <3>1. task[r].state = "none" /\ AddTask(r) /\ emails' = emails
      BY <1>4, <2>1 DEF Enqueue, OwnershipInv, StoredAndQueued, Queued
    <3>2. task'[r].state = "pending" /\ task'[r].retried = task[r].retried
      BY <1>2, <3>1 DEF AddTask, Order, AttemptsInOrder
    <3> QED BY <1>1, <3>1, <3>2 DEF CalmStep, KeepsRow
  <2>2. CASE ~Enqueue(r)
    <3>1. task' = task
      BY <1>4, <2>2 DEF CheckSuppressed, ApiStep, RejectContent, CreateOrGet, MarkFailed,
                        MarkQueued, ApiCrash, workVars
    <3>2. \/ emails' = emails
          \/ api[r].pc = "create" /\ emails' = Create(emails, r)
          \/ api[r].pc = "markQueued" /\ emails' = UpdateStatus(emails, api[r].email, "queued")
      BY <1>4, <2>2 DEF CheckSuppressed, ApiStep, RejectContent, CreateOrGet, MarkFailed,
                        MarkQueued, ApiCrash, workVars, Attempted, Undisturbed
    <3>3. /\ api[r].pc = "create" => task[r].state = "none"
          /\ api[r].pc = "markQueued" => api[r].email = r
      BY <1>2, <1>4 DEF RequestInv, OwnershipInv, StoredAndQueued, Queued
    <3>4. \/ KeepsRow(r)
          \/ task[r].state = "none" /\ emails'[r] = [AbsentRow EXCEPT !.status = "pending"]
          \/ emails'[r] = [emails[r] EXCEPT !.status = "queued"]
      <4>1. Create(emails, r)[r] = [AbsentRow EXCEPT !.status = "pending"]
        BY <1>2, StatementRows
      <4>2. UpdateStatus(emails, r, "queued")[r] = [emails[r] EXCEPT !.status = "queued"]
        BY <1>2 DEF UpdateStatus
      <4> QED BY <3>2, <3>3, <4>1, <4>2 DEF KeepsRow
    <3> QED BY <1>1, <3>1, <3>4 DEF CalmStep
  <2> QED BY <2>1, <2>2
<1> QED BY <1>3, <1>4

LEMMA DequeueCalmStep ==
  ASSUME TypeOK, NEW s \in Requests, Dequeue(s), NEW r \in Requests
  PROVE  CalmStep(r)
<1> DEFINE new == [NoRun EXCEPT !.pc = "GetByID"]
<1>1. /\ run' = [run EXCEPT ![s][task[s].retried] = new] /\ emails' = emails
      /\ task[s].state = "pending"
  BY DEF Dequeue, SetRun
<1>2. run \in [Requests -> [Attempts -> Runs]] /\ task[s].retried \in Attempts
  BY DEF TypeOK, Tasks
<1>3. new.pc = "GetByID"
  BY DEF NoRun
<1>4. /\ \A q \in Requests : q # s => task'[q] = task[q]
      /\ task'[s].state = "active" /\ task'[s].retried = task[s].retried
  BY TaskEffect DEF Dequeue, TaskStates
<1> HIDE DEF new
<1>5. CASE r = s
  <2>1. run'[s][task[s].retried].pc = "GetByID"
    BY <1>1, <1>2, <1>3
  <2> QED BY <1>1, <1>4, <1>5, <2>1 DEF CalmStep, KeepsRow
<1>6. CASE r # s
  <2>1. run'[r] = run[r]
    BY <1>1, <1>2, <1>6
  <2> QED BY <1>1, <1>4, <1>6, <2>1 DEF CalmStep, KeepsRow
<1> QED BY <1>5, <1>6

\* One step of the newest attempt of s.
LEMMA HandlerCalmStep ==
  ASSUME TypeOK, OwnershipInv, Order, ~Outage, \A q \in Requests, m \in Attempts : ~Incident(q, m),
         NEW s \in Requests, NEW n \in Attempts, ProcessEmail(s, n),
         Live(s, n), n = task[s].retried, task[s].state = "active", NEW r \in Requests
  PROVE  CalmStep(r)
<1>1. /\ emails \in [Requests -> Rows] /\ run[s][n] \in Runs
      /\ run \in [Requests -> [Attempts -> Runs]] /\ task[s].email = s
  BY DEF TypeOK, OwnershipInv, Owned
<1>2. \A x : AttemptedBy(s, n, x) => emails' = x
  BY DEF AttemptedBy, Attempted, Live
<1>3. CASE r # s
  <2>1. task'[r] = task[r]
    BY <1>3, HandlerEffect, RetryEffect, TaskEffect DEF Return, Complete, TaskStates
  <2>2. emails'[r] = emails[r] /\ run'[r] = run[r]
    <3>1. \A m \in Attempts : run'[r][m] = run[r][m]
      BY <1>3, CountedOnce
    <3>2. run' \in [Requests -> [Attempts -> Runs]]
      <4>1. CASE Return(s, n)
        BY <4>1, StepType DEF Return, RunPcs
      <4>2. CASE ~Return(s, n)
        BY <4>2, HandlerEffect, SetRunType
      <4> QED BY <4>1, <4>2
    <3> QED BY <1>1, <1>3, <3>1, <3>2, AttemptWrites
  <2> QED BY <2>1, <2>2 DEF CalmStep, KeepsRow
<1> SUFFICES ASSUME r = s PROVE CalmStep(r)
  BY <1>3
<1>0. {"Send", "IncrementRetry", "ReturnErr", "MarkSent", "ReturnOk"} \subseteq RunPcs
  BY DEF RunPcs, Running, BeforeSend, AfterAccept, AfterError
<1>4. \A x : SetRun(r, n, x) => run'[r][n] = x
  BY <1>1 DEF SetRun
<1>5. ASSUME NEW pc \in RunPcs, Step(r, n, pc)
      PROVE  run'[r][n].pc = pc /\ run'[r][n].retryCount = run[r][n].retryCount
  <2>1. run'[r][n] = [run[r][n] EXCEPT !.pc = pc]
    BY <1>4, <1>5 DEF Step
  <2> QED BY <1>1, <2>1 DEF Runs
<1>6. CASE GetByID(r, n)
  <2> DEFINE x == [run[r][n] EXCEPT !.pc = "MarkSending", !.retryCount = emails[r].retryCount]
  <2>1. x.pc = "MarkSending" /\ x.retryCount = emails[r].retryCount
    BY <1>1 DEF Runs
  <2>2. /\ SetRun(r, n, x) /\ run[r][n].pc = "GetByID" /\ UNCHANGED <<task, emails>>
    BY <1>1, <1>6 DEF GetByID, Live
  <2>3. run'[r][n] = x
    BY <1>4, <2>2
  <2> HIDE DEF x
  <2> QED BY <2>1, <2>2, <2>3 DEF CalmStep, CalmHandling, Goes, KeepsRow
<1>7. CASE MarkSending(r, n)
  <2>1. /\ run[r][n].pc = "MarkSending" /\ Step(r, n, "Send") /\ task' = task
        /\ emails' = UpdateStatus(emails, r, "sending")
    BY <1>1, <1>2, <1>7 DEF MarkSending
  <2>2. emails'[r] = [emails[r] EXCEPT !.status = "sending"]
    BY <1>1, <2>1, StatementRows DEF Statuses
  <2>3. run'[r][n].pc = "Send" /\ run'[r][n].retryCount = run[r][n].retryCount
    BY <1>0, <1>5, <2>1
  <2> QED BY <2>1, <2>2, <2>3 DEF CalmStep, CalmHandling, Goes, KeepsCopy
<1>8. CASE Send(r, n)
  <2> DEFINE x == [run[r][n] EXCEPT !.pc = IF ReturnsID THEN "StoreID" ELSE "MarkSent",
                                    !.id = ProviderID(r, n)]
  <2>1. x.pc = (IF ReturnsID THEN "StoreID" ELSE "MarkSent") /\ x.id = ProviderID(r, n)
    BY <1>1 DEF Runs
  <2>2. /\ run[r][n].pc = "Send" /\ UNCHANGED <<task, emails>>
        /\ SetRun(r, n, x) \/ Step(r, n, "IncrementRetry")
    BY <1>8 DEF Send
  <2> HIDE DEF x
  <2>3. CASE SetRun(r, n, x)
    <3>1. run'[r][n] = x
      BY <1>4, <2>3
    <3> QED BY <2>1, <2>2, <3>1 DEF CalmStep, CalmHandling, Goes, KeepsRow
  <2>4. CASE Step(r, n, "IncrementRetry")
    <3>1. run'[r][n].pc = "IncrementRetry" /\ run'[r][n].retryCount = run[r][n].retryCount
      BY <1>0, <1>5, <2>4
    <3> QED BY <2>2, <3>1 DEF CalmStep, CalmHandling, Goes, KeepsRow, KeepsCopy
  <2> QED BY <2>2, <2>3, <2>4
<1>9. CASE IncrementRetryCount(r, n)
  <2> DEFINE x == [run[r][n] EXCEPT !.pc = "MarkFailure", !.retryCount = @ + 1]
  <2>1. x.pc = "MarkFailure" /\ x.retryCount = run[r][n].retryCount + 1
    BY <1>1 DEF Runs
  <2>2. /\ run[r][n].pc = "IncrementRetry" /\ task' = task /\ SetRun(r, n, x)
        /\ emails' = IncrementRetry(emails, r)
    BY <1>1, <1>2, <1>9 DEF IncrementRetryCount
  <2> HIDE DEF x
  <2>3. emails'[r] = [emails[r] EXCEPT !.retryCount = emails[r].retryCount + 1]
    BY <1>1, <2>2, StatementRows
  <2>4. run'[r][n] = x
    BY <1>4, <2>2
  <2> QED BY <2>1, <2>2, <2>3, <2>4 DEF CalmStep, CalmHandling, Goes
<1>10. CASE MarkFailure(r, n)
  <2> DEFINE st == IF run[r][n].retryCount >= MaxRetries THEN "failed" ELSE "queued"
  <2>1. /\ run[r][n].pc = "MarkFailure" /\ Step(r, n, "ReturnErr") /\ task' = task
        /\ emails' = UpdateStatus(emails, r, st)
    BY <1>1, <1>2, <1>10 DEF MarkFailure
  <2>2. emails'[r] = [emails[r] EXCEPT !.status = st]
    BY <1>1, <2>1, StatementRows DEF Statuses
  <2>3. run'[r][n].pc = "ReturnErr" /\ run'[r][n].retryCount = run[r][n].retryCount
    BY <1>0, <1>5, <2>1
  <2> QED BY <2>1, <2>2, <2>3 DEF CalmStep, CalmHandling, Goes, KeepsCopy
<1>11. CASE StoreProviderID(r, n)
  <2>1. /\ run[r][n].pc = "StoreID" /\ Step(r, n, "MarkSent") /\ task' = task
        /\ emails' = UpdateResendEmailID(emails, r, run[r][n].id)
    BY <1>1, <1>2, <1>11 DEF StoreProviderID
  <2>2. emails'[r] = [emails[r] EXCEPT !.resendID = run[r][n].id]
    BY <1>1, <2>1 DEF UpdateResendEmailID
  <2>3. run'[r][n].pc = "MarkSent"
    BY <1>0, <1>5, <2>1
  <2> QED BY <2>1, <2>2, <2>3 DEF CalmStep, CalmHandling, Goes
<1>12. CASE MarkAsSent(r, n)
  <2>1. /\ run[r][n].pc = "MarkSent" /\ Step(r, n, "ReturnOk") /\ task' = task
        /\ emails' = MarkSent(emails, r)
    BY <1>1, <1>2, <1>12 DEF MarkAsSent
  <2>2. emails'[r] = [emails[r] EXCEPT !.status = "sent", !.sentAt = TRUE]
    BY <1>1, <2>1, StatementRows DEF Statuses
  <2>3. run'[r][n].pc = "ReturnOk"
    BY <1>0, <1>5, <2>1
  <2> QED BY <2>1, <2>2, <2>3 DEF CalmStep, CalmHandling, Goes
<1>13. CASE Return(r, n)
  <2>1. /\ run[r][n].ctx = "live" /\ emails' = emails
        /\ \/ run[r][n].pc = "ReturnOk" /\ Complete(r)
           \/ run[r][n].pc = "ReturnErr" /\ RetryOrArchive(r)
    BY <1>13 DEF Return, Live
  <2>2. Complete(r) => task'[r].state = "completed" /\ task'[r].retried = task[r].retried
    BY TaskEffect DEF Complete, TaskStates
  <2> QED BY <2>1, <2>2, RetryEffect DEF CalmStep, KeepsRow
<1> QED BY <1>6, <1>7, <1>8, <1>9, <1>10, <1>11, <1>12, <1>13 DEF ProcessEmail

LEMMA EveryCalmStep ==
  ASSUME TypeOK, OwnershipInv, Order, Undisturbed, Next, Calm', NEW r \in Requests
  PROVE  CalmStep(r)
  BY CalmSteps, CalmBefore, ApiCalmStep, DequeueCalmStep, HandlerCalmStep

-----------------------------------------------------------------------------
(* What the row says *)

\* The newest attempt of r's task is at one of the steps "pcs".
At(r, pcs) == task[r].state = "active" /\ run[r][task[r].retried].pc \in pcs

FailureCounted(r) == task[r].state = "archived" \/ At(r, {"MarkFailure", "ReturnErr"})
Over(r) == task[r].state = "completed" \/ At(r, {"ReturnOk"})

CalmRow(r) ==
  /\ FailureCounted(r) => emails[r].retryCount = task[r].retried + 1
  /\ ~FailureCounted(r) => emails[r].retryCount = task[r].retried
  /\ At(r, {"MarkSending", "Send", "IncrementRetry", "MarkFailure"}) =>
       run[r][task[r].retried].retryCount = emails[r].retryCount
  /\ task[r].state = "archived" \/ (At(r, {"ReturnErr"}) /\ task[r].retried = MaxRetries) =>
       emails[r].status \in {"failed", "queued"}
  /\ Over(r) => emails[r].status \in {"sent", "queued"}
  /\ emails[r].sentAt <=> Over(r)

\* The message of r that the provider took has the id the row shows, or will.
CalmID(r) ==
  ReturnsID =>
    /\ At(r, {"StoreID"}) => run[r][task[r].retried].id = <<r, task[r].retried, 1>>
    /\ Over(r) \/ At(r, {"MarkSent"}) => emails[r].resendID = <<r, task[r].retried, 1>>

LEMMA CalmRowStep ==
  ASSUME TypeOK, Order, NEW r \in Requests, CalmRow(r), CalmStep(r)
  PROVE  CalmRow(r)'
<1>1. emails[r] \in Rows /\ task[r].retried \in Nat
  BY CountTypes DEF TypeOK
<1>2. task[r].state = "none" => task[r].retried = 0
  BY DEF Order, AttemptsInOrder
<1> USE DEF At, FailureCounted, Over
<1>3. CASE /\ task'[r] = task[r] /\ run'[r] = run[r]
           /\ \/ KeepsRow(r)
              \/ task[r].state = "none" /\ emails'[r] = [AbsentRow EXCEPT !.status = "pending"]
              \/ emails'[r] = [emails[r] EXCEPT !.status = "queued"]
  <2>1. CASE KeepsRow(r)
    BY <1>3, <2>1 DEF CalmRow, KeepsRow
  <2>2. CASE task[r].state = "none" /\ emails'[r] = [AbsentRow EXCEPT !.status = "pending"]
    <3>1. emails'[r].retryCount = 0 /\ ~emails'[r].sentAt
      BY <2>2 DEF AbsentRow
    <3> QED BY <1>2, <1>3, <2>2, <3>1 DEF CalmRow
  <2>3. CASE emails'[r] = [emails[r] EXCEPT !.status = "queued"]
    <3>1. /\ emails'[r].status = "queued" /\ emails'[r].retryCount = emails[r].retryCount
          /\ emails'[r].sentAt = emails[r].sentAt
      BY <1>1, <2>3 DEF Rows
    <3> QED BY <1>3, <3>1 DEF CalmRow
  <2> QED BY <1>3, <2>1, <2>2, <2>3
<1>4. CASE /\ task[r].state = "none" /\ task'[r].state = "pending"
           /\ task'[r].retried = task[r].retried /\ run'[r] = run[r] /\ KeepsRow(r)
  BY <1>4 DEF CalmRow, KeepsRow
<1>5. CASE /\ task[r].state = "pending" /\ task'[r].state = "active" /\ KeepsRow(r)
           /\ task'[r].retried = task[r].retried /\ run'[r][task[r].retried].pc = "GetByID"
  BY <1>5 DEF CalmRow, KeepsRow
<1>6. CASE CalmHandling(r)
  <2>1. PICK at, next : Goes(r, at, next)
    BY <1>6 DEF CalmHandling
  <2>2. task'[r] = task[r] /\ task[r].state = "active"
    BY <2>1 DEF Goes
  <2> DEFINE x == run[r][task[r].retried]
             y == run'[r][task[r].retried]
  <2>3. CASE KeepsRow(r) /\ Goes(r, "GetByID", "MarkSending") /\ y.retryCount = emails[r].retryCount
    BY <2>2, <2>3 DEF CalmRow, KeepsRow, Goes
  <2>4. CASE /\ Goes(r, "MarkSending", "Send") /\ KeepsCopy(r)
             /\ emails'[r] = [emails[r] EXCEPT !.status = "sending"]
    <3>1. emails'[r].retryCount = emails[r].retryCount /\ emails'[r].sentAt = emails[r].sentAt
      BY <1>1, <2>4 DEF Rows
    <3> QED BY <2>2, <2>4, <3>1 DEF CalmRow, KeepsCopy, Goes
  <2>5. CASE Goes(r, "Send", "IncrementRetry") /\ KeepsCopy(r) /\ KeepsRow(r)
    BY <2>2, <2>5 DEF CalmRow, KeepsCopy, KeepsRow, Goes
  <2>6. CASE Goes(r, "Send", IF ReturnsID THEN "StoreID" ELSE "MarkSent") /\ KeepsRow(r)
    <3>1. x.pc = "Send" /\ y.pc \in {"StoreID", "MarkSent"}
      BY <2>6 DEF Goes
    <3> QED BY <2>2, <2>6, <3>1 DEF CalmRow, KeepsRow
  <2>7. CASE /\ Goes(r, "IncrementRetry", "MarkFailure") /\ y.retryCount = x.retryCount + 1
             /\ emails'[r] = [emails[r] EXCEPT !.retryCount = emails[r].retryCount + 1]
    <3>1. /\ emails'[r].retryCount = emails[r].retryCount + 1
          /\ emails'[r].sentAt = emails[r].sentAt
      BY <1>1, <2>7 DEF Rows
    <3> QED BY <2>2, <2>7, <3>1 DEF CalmRow, Goes
  <2>8. CASE /\ Goes(r, "MarkFailure", "ReturnErr")
             /\ emails'[r] = [emails[r] EXCEPT
                                !.status = IF x.retryCount >= MaxRetries THEN "failed" ELSE "queued"]
    <3>1. /\ emails'[r].retryCount = emails[r].retryCount
          /\ emails'[r].sentAt = emails[r].sentAt
          /\ emails'[r].status \in {"failed", "queued"}
      BY <1>1, <2>8 DEF Rows
    <3> QED BY <2>2, <2>8, <3>1 DEF CalmRow, Goes
  <2>9. CASE /\ Goes(r, "StoreID", "MarkSent")
             /\ emails'[r] = [emails[r] EXCEPT !.resendID = x.id]
    <3>1. emails'[r].retryCount = emails[r].retryCount /\ emails'[r].sentAt = emails[r].sentAt
      BY <1>1, <2>9 DEF Rows
    <3> QED BY <2>2, <2>9, <3>1 DEF CalmRow, Goes
  <2>10. CASE /\ Goes(r, "MarkSent", "ReturnOk")
              /\ emails'[r] = [emails[r] EXCEPT !.status = "sent", !.sentAt = TRUE]
    <3>1. /\ emails'[r].retryCount = emails[r].retryCount
          /\ emails'[r].sentAt /\ emails'[r].status = "sent"
      BY <1>1, <2>10 DEF Rows
    <3> QED BY <2>2, <2>10, <3>1 DEF CalmRow, Goes
  <2> QED BY <1>6, <2>3, <2>4, <2>5, <2>6, <2>7, <2>8, <2>9, <2>10 DEF CalmHandling
<1>7. CASE /\ task[r].state = "active" /\ run[r][task[r].retried].pc = "ReturnOk" /\ KeepsRow(r)
           /\ task'[r].state = "completed" /\ task'[r].retried = task[r].retried
  BY <1>7 DEF CalmRow, KeepsRow
<1>8. CASE /\ task[r].state = "active" /\ run[r][task[r].retried].pc = "ReturnErr" /\ KeepsRow(r)
           /\ \/ /\ task[r].retried = MaxRetries
                 /\ task'[r].state = "archived" /\ task'[r].retried = MaxRetries
              \/ task'[r].state = "pending" /\ task'[r].retried = task[r].retried + 1
  BY <1>1, <1>8 DEF CalmRow, KeepsRow
<1> QED BY <1>3, <1>4, <1>5, <1>6, <1>7, <1>8 DEF CalmStep

\* With nothing failing, only the newest attempt has had a message taken, once.
LEMMA TakenOnce ==
  ASSUME TypeOK, Acceptances, Undisturbed, NEW r \in Requests, NEW n \in Attempts
  PROVE  \/ accepted[r][n] = 0
         \/ /\ accepted[r][n] = 1 /\ n = task[r].retried
            /\ \/ task[r].state = "completed"
               \/ Live(r, n) /\ run[r][n].pc \in AfterAccept
<1>1. accepted[r][n] \in Nat /\ faults[r][n] = 0 /\ AttemptOk(r, n)
  BY DEF TypeOK, Acceptances, Undisturbed
<1> QED BY <1>1 DEF AttemptOk, Excused

LEMMA CalmIDStep ==
  ASSUME TypeOK, Acceptances, Undisturbed, NEW r \in Requests, CalmID(r), CalmStep(r)
  PROVE  CalmID(r)'
<1> SUFFICES ASSUME ReturnsID PROVE CalmID(r)'
  BY DEF CalmID
<1>1. emails[r] \in Rows /\ task[r].retried \in Attempts
  BY DEF TypeOK, Tasks
<1> USE DEF At, Over
<1>2. CASE /\ task'[r] = task[r] /\ run'[r] = run[r]
           /\ \/ KeepsRow(r)
              \/ task[r].state = "none" /\ emails'[r] = [AbsentRow EXCEPT !.status = "pending"]
              \/ emails'[r] = [emails[r] EXCEPT !.status = "queued"]
  <2>1. CASE task[r].state = "none"
    BY <1>2, <2>1 DEF CalmID
  <2>2. CASE emails'[r].resendID = emails[r].resendID
    BY <1>2, <2>2 DEF CalmID
  <2> QED BY <1>1, <1>2, <2>1, <2>2 DEF KeepsRow, Rows
<1>3. CASE CalmHandling(r)
  <2> DEFINE x == run[r][task[r].retried]
             y == run'[r][task[r].retried]
  <2>1. task'[r] = task[r] /\ task[r].state = "active"
    BY <1>3 DEF CalmHandling, Goes
  <2>2. CASE y.pc \in {"MarkSending", "Send", "IncrementRetry", "MarkFailure", "ReturnErr"}
    BY <2>1, <2>2 DEF CalmID
  <2>3. CASE /\ x.pc = "Send" /\ y.pc = (IF ReturnsID THEN "StoreID" ELSE "MarkSent")
             /\ y.id = ProviderID(r, task[r].retried)
    <3>1. accepted[r][task[r].retried] = 0
      BY <1>1, <2>1, <2>3, TakenOnce DEF AfterAccept
    <3>2. y.id = <<r, task[r].retried, 1>>
      BY <2>3, <3>1 DEF ProviderID
    <3> QED BY <2>1, <2>3, <3>2 DEF CalmID
  <2>4. CASE /\ x.pc = "StoreID" /\ y.pc = "MarkSent"
             /\ emails'[r] = [emails[r] EXCEPT !.resendID = x.id]
    <3>1. emails'[r].resendID = x.id
      BY <1>1, <2>4 DEF Rows
    <3> QED BY <2>1, <2>4, <3>1 DEF CalmID
  <2>5. CASE /\ x.pc = "MarkSent" /\ y.pc = "ReturnOk"
             /\ emails'[r] = [emails[r] EXCEPT !.status = "sent", !.sentAt = TRUE]
    <3>1. emails'[r].resendID = emails[r].resendID
      BY <1>1, <2>5 DEF Rows
    <3> QED BY <2>1, <2>5, <3>1 DEF CalmID
  <2> QED BY <1>3, <2>2, <2>3, <2>4, <2>5 DEF CalmHandling, Goes
<1>4. CASE task'[r].state \in {"pending", "archived"}
  BY <1>4 DEF CalmID
<1>5. CASE /\ task[r].state = "pending" /\ task'[r].state = "active" /\ KeepsRow(r)
           /\ task'[r].retried = task[r].retried /\ run'[r][task[r].retried].pc = "GetByID"
  BY <1>5 DEF CalmID
<1>6. CASE /\ task[r].state = "active" /\ run[r][task[r].retried].pc = "ReturnOk" /\ KeepsRow(r)
           /\ task'[r].state = "completed" /\ task'[r].retried = task[r].retried
  BY <1>6 DEF CalmID, KeepsRow
<1> QED BY <1>2, <1>3, <1>4, <1>5, <1>6 DEF CalmStep

CalmInv == Calm => Undisturbed /\ \A r \in Requests : CalmRow(r) /\ CalmID(r)

LEMMA CalmNext ==
  ASSUME TypeOK, OwnershipInv, Order, Acceptances, CalmInv, Next
  PROVE  CalmInv'
<1> SUFFICES ASSUME Calm' PROVE Undisturbed' /\ \A r \in Requests : CalmRow(r)' /\ CalmID(r)'
  BY DEF CalmInv
<1>1. Undisturbed /\ \A r \in Requests : CalmRow(r) /\ CalmID(r)
  BY CalmBefore DEF CalmInv
<1>2. Undisturbed' /\ \A r \in Requests : CalmStep(r)
  BY <1>1, UndisturbedStep, EveryCalmStep
<1> QED BY <1>1, <1>2, CalmRowStep, CalmIDStep

\* With no failure in the infrastructure, what the row says once the request was
\* answered and the task is over is what happened, but for a late
\* UpdateStatus(queued) of Send.
THEOREM CalmHolds == Spec => []CalmOutcome
<1>1. Init => CalmInv
  <2> SUFFICES ASSUME Init PROVE CalmInv
    OBVIOUS
  <2>1. Undisturbed
    BY DEF Init, Undisturbed, NewRequest, NoRun
  <2>2. ASSUME NEW r \in Requests
        PROVE  /\ task[r].state = "none" /\ task[r].retried = 0
               /\ emails[r].retryCount = 0 /\ ~emails[r].sentAt
    BY DEF Init, NoTask, AbsentRow
  <2>3. \A r \in Requests : CalmRow(r) /\ CalmID(r)
    BY <2>2 DEF CalmRow, CalmID, At, FailureCounted, Over
  <2> QED BY <2>1, <2>3 DEF CalmInv
<1>2. TypeOK /\ OwnershipInv /\ Order /\ Acceptances /\ CalmInv /\ [Next]_vars => CalmInv'
  <2>1. ASSUME CalmInv, UNCHANGED vars PROVE CalmInv'
    BY <2>1 DEF vars, CalmInv, Calm, Undisturbed, CalmRow, CalmID, At, FailureCounted, Over
  <2> QED BY <2>1, CalmNext
<1>3. Order /\ CalmInv => CalmOutcome
  <2> SUFFICES ASSUME Order, CalmInv, Calm, NEW r \in Requests
               PROVE  /\ task[r].state = "completed" =>
                           /\ emails[r].status \in {"sent", "queued"} /\ emails[r].sentAt
                           /\ ReturnsID => emails[r].resendID # NoID
                      /\ task[r].state = "archived" =>
                           /\ emails[r].status \in {"failed", "queued"} /\ ~emails[r].sentAt
                           /\ emails[r].retryCount = MaxRetries + 1
    BY DEF CalmOutcome
  <2>1. CalmRow(r) /\ CalmID(r) /\ (task[r].state = "archived" => task[r].retried = MaxRetries)
    BY DEF CalmInv, Order, LiveIsNewest
  <2> QED BY <2>1 DEF CalmRow, CalmID, At, FailureCounted, Over, NoID
<1> QED BY <1>1, <1>2, <1>3, TypeCorrect, Ownership, AcceptancesAccounted, PTL DEF Spec

=============================================================================
