# A TLA+ model of email-service-go

This directory models the email service of this repository in TLA+: the path
of an email from the HTTP request to the provider, the queue between the two
processes, the exchange with the provider, the feedback that comes back by
webhook and unsubscribe link, and the reports made of it.
TLC checks the models on small instances, and TLAPS proves most of what they
check for all values of the constants.  `PROJECT.json` lists the runs, the
mutants that each property rejects, the lines each definition stands for, the
hazards and the findings.

## 1. The system

Two processes share a Postgres database and a Redis server.

| component | state | operations |
|---|---|---|
| API, `EmailService.Send` (`internal/service/email.go`) | rows of `emails`; tasks in the asynq queue `email` | suppression check, render and validate, `CreateOrGetByIdempotencyID`, `enqueue`, `UpdateStatus` |
| worker, `ProcessTask` → `ProcessEmail` | rows of `emails` | `GetByID`, status `sending`, `sender.Send`, then either `UpdateResendEmailID` and `MarkSent`, or `IncrementRetry` and status `failed`/`queued` |
| asynq (library) | tasks with a retry count, leases | hand out, time out (30 s), retry, archive, recover a lost lease, give back at shutdown |
| provider (`resend.go`, `smtp.go`) | messages taken | takes or refuses; a reply can be lost |
| webhook (`internal/service/webhook.go`) | `email_events`, status in `emails`, `suppressions` | verify, look up by provider id, store event, status `bounced`/`complaint`, suppress |
| unsubscribe and suppressions (`unsubscribe_handler.go`, `campaign_handler.go`, `suppression_repo.go`) | `suppressions` | add, remove, check |
| bulk sending (`SendBulk`, `SendBulkPersonalized`) | none of its own: a loop over `Send` with shared template data | throttled loop, count of what was queued |
| rate limiter (`middleware/rate_limit.go`) | request times per key, under a mutex | `Allow`, `cleanup` |
| campaign reports (`GetCampaignStats`, the queries of `email_repo.go`) | a Redis value that lives 30 s | read, compute, store; non-openers; bounced addresses |
| templates and branding (`template.go`, `branding.go`) | templates loaded at start | pure functions: render, branding defaults, `formatCount`, `isValidHexColor` |
| configuration (`config.go`) | read once at start | which provider, whose sender and Reply-To |
| request filters (`auth.go`, `ip_whitelist.go`, `cors.go`) | none | stateless decisions |
| connection, migrations, logging, client package | none | start-up code and plain I/O |

How they interact.  A request writes its row, then puts a task that holds only
the row's id into Redis, then writes the row again.  From the moment Redis has
the task a worker may run, so the API's last write and all the worker's writes
race.  All statements are single `UPDATE`s by id that look at no earlier status;
the order in which they arrive decides.  asynq delivers a task at least once:
a second attempt can run beside a first one that was abandoned but still runs.
The provider calls the webhook whenever it likes, also before the worker has
stored the message's id.

What is hard, and what should hold in spite of it:

* **Concurrent requests with one idempotency_id**, crashes and failing calls at
  every point of `Send`: one task per email, answers that are true, no row left
  behind except by a failure.
* **At-least-once execution** (lost replies, timeouts, worker crashes,
  shutdowns): a message twice only because of such an incident, no email given
  up early, nothing marked as sent that was not, and every task finishes.
* **Unconditional status writes** by four writers (request, attempts, abandoned
  attempts, webhooks): which status can be lost to which writer.
* **Events before, between and after the writes of an attempt**: which events
  are lost, and that those that are not lost have their effect.
* **Addresses in different cases** between the writers and the reader of the
  suppression list.
* **A cache filled by whoever comes last**: a report may be old, but what it
  counts must have happened, and an answer goes back behind an earlier one only
  when readers overlapped.
* **One call of `sender.Send` cut off anywhere**: what it returns must be true
  of the message, for two providers with different replies.
* **A message that is put together in three places** (request, row, provider)
  from the request, the template and the environment: its headers, sender,
  texts and numbers are the ones asked for.

## 2. Modules

| module | what it is |
|---|---|
| `EmailRepository` | the SQL statements on `emails`, each an operator from a table to a table |
| `EmailPipeline` | `Send`, asynq and `ProcessEmail`: the core state machine |
| `EmailPipelineProps` | its types, properties, inductive invariant and the refinement mapping |
| `Delivery` | the abstract promise: attempts one after the other until one is acknowledged or all are spent |
| `EmailPipelineProofs` | the theorems about `EmailPipeline` |
| `EmailFeedback` | webhook, unsubscribe and removal, as steps beside those of `EmailPipeline`, on the same tables |
| `OutcomeProofs` | that `EmailPipeline` implements `Delivery`; who writes a row, what that does to `sent` and retry_count, and what a row says when nothing fails |
| `EmailFeedbackProps` | the properties of `EmailFeedback` |
| `EmailFeedbackProofs` | the theorems about `EmailFeedback` |
| `CampaignStats` | the reports on a campaign, as steps beside those of the pipeline and the webhooks, with their properties |
| `CampaignProofs` | the theorems about `CampaignStats` |
| `Sending` | the abstract call of `sender.Send` that `EmailPipeline` works with |
| `Message` | one email from the request to the provider: what `Send` makes of it, and how either provider's client hands it over |
| `Rendering`, `Configuration` | the functions `Message` is made of: `template.go` and `branding.go`; `config.go` |
| `RenderingProofs` | what `formatCount` prints, for every whole number |
| `MessageProps`, `MessageProofs` | the properties of `Message`, and the theorems |
| `BulkSend` | one call of `SendBulk` or `SendBulkPersonalized`, with its properties |
| `BulkSendProofs` | the theorems about bulk requests of any length |
| `SlidingWindow` | the abstract limiter: it remembers every admitted request |
| `RateLimiter` | the limiter of the API, with its properties and the mapping to `SlidingWindow` |
| `RateLimiterProofs` | the theorems about the limiter |
| `MC...` | the values for TLC |

`EmailFeedback` EXTENDS `EmailPipeline` (and `EmailRepository` through it), and
`CampaignStats` EXTENDS `EmailFeedback`, so the three compose on the same tables.
`EmailPipelineProps` and `MessageProps` instantiate `Delivery` and `Sending` with
refinement mappings.  `Message` and `EmailPipeline` meet in `Sending`: the one
shows that a call of either provider's client is such a call, the other takes
it as one step with the same outcomes.
Operators whose comment begins with *Mutant* are no part of the model: each is
a plausible mistake in the definition that follows it, and the property named in
`PROJECT.json` fails when it takes that definition's place.

### EmailPipeline

One request `r` of `Requests` is one call of `EmailService.Send`.  `uuid.New()`
and asynq give fresh ids, so `r` also names the row that the request would
create and the task that it would enqueue.

* `api[r]` – the handler: its program counter, the row it works on (another
  request's row if the idempotency_id was taken) and its answer.
* `emails`, `suppressions` – the tables.  A row keeps the columns that matter to
  a decision or a report: status, retry_count, sent_at (set or not),
  resend_email_id.
* `task[r]` – state, row and retry count of the asynq task.
* `run[r][n]` – the execution of attempt `n` (0 .. MaxRetries): program counter
  in `ProcessEmail`, whether its context has ended, the copy of retry_count,
  the provider's id.
* `accepted[r][n]`, `faults[r][n]` – history: messages the provider took from
  the attempt, incidents that hit it.
* `outages`, `incidents` – how many failures there were, for the bounds.

Every call to Postgres, Redis or the provider is an action of its own, named
after the code: `CheckSuppressed`, `RejectContent`, `CreateOrGet`, `Enqueue`,
`MarkFailed`, `MarkQueued` in the API; `GetByID`, `MarkSending`, `Send`,
`StoreProviderID`, `MarkAsSent`, `IncrementRetryCount`, `MarkFailure`, `Return`
in the worker; `Dequeue`, `Timeout`, `Recover`, `Shutdown` of asynq;
`ApiCrash`, `WorkerCrash`.  Errors the code ignores (`_ =`) are `Attempted`:
the statement takes effect or fails, and the code goes on; one that takes effect
and whose reply is lost is the first case.  A failing INSERT or
enqueue may have taken effect all the same.  `sender.Send` does not look at
the context, so an attempt that asynq abandoned can still send; its SQL
statements do look, and fail.  MaxRetries(3) retries make MaxRetries + 1
attempts.

Abstracted: the content of an email (only whether it is accepted, by
`RejectContent`), the delay before a retry, error messages and timestamps,
and the INSERT-then-SELECT of `CreateOrGetByIdempotencyID` (one step, because no
code deletes a row).

### EmailFeedback

`hook[h]` is one HTTP request of the provider; two requests may carry the same
event, which is how redelivery and duplication come in, and an event may arrive
at any time after the provider took the message, or never.  The handler's steps
are `Receive`, `LookUp`, `StoreEvent`, `MarkTerminal`, `Suppress`, and
`HookCrash` at any point.  `PostUnsubscribe` and `RemoveSuppression` are one
statement each, and one that fails may have taken effect all the same.  `told[a]` is a history variable: the last thing a recipient or
operator was told about an address.  `LowerOf` is `strings.ToLower`; the
addresses of TLC's instance are one in mixed case and its lower-case form.
Signature checks and unreadable bodies return before any state changes and are
left out.

### CampaignStats

`reader[c]` is one call of `GetCampaignStats`: `ReadCache`, `QueryStats`,
`StoreStats`, each of which may fail; the errors of Redis are ignored as in the
code, the query's ends the call.  `cache` is the Redis value, and `Expire` the end
of its 30 s, at any time.  `Counted(column)` is the set of emails that one column
of the query counts (distinct emails, with every row in total_sent);
`NonOpeners` and `BouncedEmails` are the rows of the two other queries.
`before` is history: which calls had been answered when this one began.

### Message

The variables follow one email: the request and the worker's environment, `email`
(the `domain.Email`, then its row, then the worker's copy), the `message` handed
over, the provider's `reply` and what `sender.Send` answered.  `Prepare` is `Send`
up to the INSERT, with `RenderWithBranding`; `Store` is the way through the row,
after which the unsubscribe headers are added once more.  `BuildRequest`,
`ReplyArrives`, `ExchangeFails`, `ReadReply` are `ResendClient.Send`;
`BuildMessage`, `SmtpCommand` for each command up to the end of the data,
`Close` and `Quit` are `SMTPClient.Send`.  `TakeMessage` is the provider's own
step: it may take the message before its reply is lost, or after the caller
has given up.  The queue, the retries and the crashes are left to
`EmailPipeline`.

A text is what each variable of the template is shown as.  That keeps what
`text/template` does with a missing variable, and leaves out its syntax.
Values are sequences of characters, because two of the code's functions look
at them one by one; `"e acute"` is one character of two bytes.

A sender is a text too, of words: an address, or a name and an address in
brackets, or anything else a caller may write.  Nothing in the code parses it.
`BuildRequest` hands it on as it is; `BuildMessage` uses it as it is for MAIL FROM
(`MailFrom`) and puts the configured name and brackets around it for the header
(`FromHeader`, `fmt.Sprintf("From: %s <%s>")`).  What a reader then makes of it,
`Mailbox`, belongs to the property and not to the model.

### BulkSend

The loop is at recipient `i`; `data` is the entry `UnsubscribeURL` of the one
`TemplateData` map of the request, and an address stands for its unsubscribe
link.  `NotSuppressed` is the part of `Send` that writes the link into the map
it was given (`WriteLink`), `Queued` and `Failed` the rest of `Send`, and
`SkipSuppressed` its early return.  The enqueue and the append of the id are one
step (`Queued`), except that the process may die between them (`Crash`).  `Pause` is the sleep between batches.
Beside the loop the suppression list changes (`ListChanges`), the client goes
away (`ClientGone`, after which no INSERT succeeds but the loop goes on) and the
process dies.  Any call may fail at any time; no bound limits it.  The
unsubscribe service is set, as `cmd/api/main.go` always does.

### RateLimiter

`Allow(k)` and `Cleanup` hold the mutex for all they do and read the clock under
it, so each is one step.  An entry of `requests[k]` is the number of the
admitted request whose time it holds; the code looks at every entry for itself
and at their number, so a set does for the slice.  The ticker's channel
holds one tick (`ticked`); between `TakeTick` and `Cleanup` the goroutine waits
for the mutex.  `limit` and `window` are the fields that `NewRateLimiter` sets,
with its defaults.  Left out: from which header a request's key comes.

## 3. What TLC checks

| run | instance | what it shows |
|---|---|---|
| `pipeline` | two requests, one idempotency_id, MaxRetries 2, one failing call, two incidents | ten properties of the pipeline, below |
| `delivery` | one request, SMTP (no provider id), MaxRetries 2, one failing call, two incidents, fairness | `ImplementsDelivery` and `EnqueuedSettles` |
| `feedback` | one email, two webhook requests, MaxRetries 1, one failing call | four properties of the feedback |
| `campaign` | one email, one webhook request, three readers, MaxRetries 1, one failing call | five properties of the reports |
| `message` | requests, templates and environments in families (below) | nine properties of one message |
| `limiter` | two keys, limit 2, window 3, one cleanup (clock up to 6) | three properties of the limiter and `ImplementsSlidingWindow` |
| `bulk` | up to four recipients of two addresses, batches of two | what is counted, whose link is mailed, where the loop rests |
| `links` | two recipients | a statement of the code's comments that `SendBulk` does not keep (section 5) |
| `requeued`, `stranded`, `terminal`, `optout` | no failing call and no incident (in `stranded` the API process may die, which no bound limits) | four statements of the docs and comments that the code does not keep (section 5) |

Pipeline: `OneTaskPerEmail`, `AnswersAreBacked`, `StrandedOnlyByFailure` say
that idempotency works across concurrent and crashing requests.
`DuplicateOnlyAfterIncident`, `AbandonedOnlyAfterEveryAttempt`,
`SentMeansAccepted` relate what the provider took to the incidents, the queue
and the row.  `RetryCountExplained` and `CalmOutcome` say what the row is worth
as a report; `SentLostOnlyToLateWrites` names every writer that can take the
status `sent` away.  `ImplementsDelivery` says that everything the API, asynq
and the workers do together is a behaviour of `Delivery`: attempts never
overlap except for abandoned ones, `kept` only after an acknowledgement,
`abandoned` only after the last attempt.

Feedback: `IgnoredOnlyInTheWindow` – without failures, an event is lost only
between the provider's reply and `UpdateResendEmailID`.  `ProcessedSuppresses` –
a processed bounce keeps the very address out that the check looks up.
`TerminalLostOnlyToLateWrites` names every writer that can replace `bounced`
and `complaint`.  (`EventsBelong` – no event is ever filed with another email, however attempts
overwrite the provider's id – is proved and has no run.)

Campaign: `NeverAhead` – what an answer or the cache says was true and stays
true: no count is ever taken back, and no column exceeds its total_sent.
`BackOnlyByOverlap` – somebody who asks again gets a smaller count only when the
small counts were read by another call too, which overlapped with one that read
the larger ones, or Redis failed twice.  `BouncesOnRecord` – no status `bounced` without
its event, wherever the webhook stops.  `NonOpenersWereMailed` – nobody is listed
as a non-opener to whom nothing was sent, although late writes take the status
away and give it back.

Message: `ImplementsSending` – success is returned only for a message that was
taken, once, and an error says nothing: QUIT can fail, or Resend's reply be
unreadable, after the message was taken.  `ResendAnswers` – a call of Resend
returns whatever the provider does.  `UnsubscribeExplained`
and `RepliesGoWhereAsked` relate the headers of the message that is taken to the
request, the template, the provider and the environment.  `SenderExplained` – what
can be read as the sender of that message, in the header and in the envelope, is
the caller's or the first of the configured addresses; over SMTP neither can be
read when the caller wrote more than an address.  `BrandingShown` – every text speaks of the request's own branding,
with the default for an unreadable colour or an empty field.
`PlaceholderOnlyForMissing` – `<no value>` is mailed for nothing but variables
the caller left out.  `CountReadsBack` – a grouped count has the number's own
value and sign, and a comma before every third digit from the right.

Bulk: `CountExplained` – every recipient passed is counted or had an error, and
the ids come in the recipients' order; a recipient that had an error may be
queued all the same.  `LinksExplained` – the link is the recipient's own or the
caller's, except in `SendBulk` with template data, where all share one.
`ThrottledUnlessError` – the loop rests after each full batch, unless the batch
ended with an error (`continue` skips the pause).

Limiter: `LimitHolds` – any limit + 1 admitted requests of a key span at least a
window.  `IdleKeysForgotten` – idle keys leave the map as long as the cleanup
keeps up with its ticker.  `ImplementsSlidingWindow` – neither the trimming in
`Allow` nor the cleanup ever changes an answer.

### Bounds, and why they are enough

* Two requests: idempotency is about pairs, and the database treats requests
  with different keys independently.  The symmetric pair is a symmetry set (no
  liveness is checked with it).
* MaxRetries 2 gives a first, a middle and a last attempt; the code's value is 3
  and the violation runs of the pipeline use it.  The proofs hold for any value.
  Feedback needs only a first and a last attempt (1).
* Two incidents let an abandoned attempt overlap its successor and a second
  incident hit either of them; one outage fails any one database or queue call.
  Only the bounded failures are limited: refusals by the provider are free.
* Four recipients in batches of two have a boundary inside the request and one
  at its end; two addresses let a recipient come twice.
* The limiter's clock reaches the tick at 5 and the cleanup after it, when a
  window of 3 still holds some of the entries; `MaxTime` bounds only the runs.
* Three readers: one to fill the cache, one that overlaps it and one that asks
  later.  One failing call spoils any one of their steps or of the pipeline's.
* `Width` 24 stands for the 64 bits of an int64: its ends have 7 digits as those
  of an int64 have 19, one more than a multiple of three; the counts checked
  are both sides of every change in the number of digits and both ends.
* The requests for `message` come in families that each vary what plays
  together: templates with data, brandings with and without data of that name,
  headers with senders and kinds of template, and contents without a template.
  The senders are none, an address, a name with an address, and an address in
  brackets; a variable that renders to nothing is among the data.
  Environments vary every variable that `config.Load` looks at for the sender,
  the login and the port, set, empty and unset.
* Deadlock is not checked, because all requests may be over: the system stops.

### Fairness

`FairSpec` assumes weak fairness of a request that has begun (the Go scheduler
runs its goroutine; `ApiCrash` is never forced), of asynq's processor and
recoverer (`Concurrency: 10` workers and a recoverer goroutine run as long as the
worker process is up or restarted), and of an attempt *or its timeout*: a handler
may hang (the SMTP client has no time limit), but its 30 s end.  Nothing is
assumed of an attempt that asynq has abandoned, nor that the provider ever takes
a message.  Because incidents are bounded, a timeout can be used up; then the
handler itself must go on, which is the case of finitely many hangs.

`MessageSpec` assumes weak fairness of `OwnStep`: the program runs, and the 30 s
of Resend's HTTP client end.  Nothing is assumed of the provider, and nothing of
the SMTP commands, because `smtp.go` sets no deadline: a call over SMTP need not
return.

## 4. What TLAPS proves

`EmailPipelineProofs`, for any set of requests, any keys, any MaxRetries ≥ 1 and
any number of failures, from the named assumptions of `EmailPipeline`:

* `TypeCorrect`: `Spec => []TypeOK`, one lemma per process (`ApiType`,
  `AsynqType`, `HandlerType`).
* `Ownership`: `Spec => [](OwnershipInv /\ Order)`.  `OwnershipInv` is needed
  because the properties alone are not inductive: that no two tasks carry one
  email depends on which request may still enqueue (`StoredAndQueued`), on each
  request working on its own row (`Owned`) and on the unique keys
  (`KeysUnique`).  `Order` says which attempts have begun, and that only the
  newest attempt of an active task is live.
* `OneTask`: `Spec => []OneTaskPerEmail`; `BackedAnswers`:
  `Spec => []AnswersAreBacked`; `StrandedExplained`:
  `Spec => []StrandedOnlyByFailure`.  `DuplicateMissed` explains the violation
  that the run `stranded` shows: a duplicate without a task is one of a request
  that has not enqueued yet, crashed, or answered an error.
* `AcceptancesAccounted`: `Spec => []Acceptances`.  Every attempt took at most as
  many messages as incidents hit it, except the newest one, which may be one
  ahead while it holds the acknowledgement or has completed its task; and an
  abandoned attempt before its send was hit by more incidents than it had messages taken.  The last part is
  what makes it inductive: an abandoned attempt may still send.
* `DuplicatesExplained`, `AbandonedLate`, `SentWasAccepted`: the three
  corresponding properties, from `Order` and `Acceptances`.

The argument of each step lemma is one case per action; `HandlerEffect` and
`Moves` summarise the steps of `ProcessEmail`, so that later invariants look at
six kinds of move instead of seven actions.

`OutcomeProofs`: `PipelineDelivers`, `Spec => ImplementsDelivery`.  `Init` maps to
`Delivery`'s (`InitDelivers`), and each step to one of its steps or to a
stutter: the API's to a stutter or the submission (`ApiDelivers`), asynq's
(`AsynqDelivers`) and the handler's (`HandlerDelivers`) to the beginning, the
acknowledgement or the end of an attempt.  It uses the invariants above in both
states.  When `Delivery` sees a message taken again, it asks that the earlier
acceptance be excused; that is the part of `Acceptances` about abandoned
attempts: one that has not sent yet has taken fewer messages than incidents hit
it, so the send it may still make is excused in advance.

About the row, `RowWrites` lists who can write a row in one step, and what.
From it and `TakenIsLast` (a live attempt of an email that was taken and needs no
excuse is past its send) follow

* `SentStatusTaken`: a row says `sent` only of an email the provider took;
* `SentLost`: `Spec => SentLostOnlyToLateWrites`;
* `RetryCounts`: `Spec => []RetryCountExplained`, from the stronger `CountOk`: one
  less while the newest attempt has not counted yet.

Its last part is about runs without failures: `CalmHolds`,
`Spec => []CalmOutcome`.  `CalmStep` describes what one step does to a row, its
task and its newest attempt when nothing fails (`EveryCalmStep` shows that it does); `CalmRow` says for every stage of an
attempt what the row must look like, retry_count and the handler's copy of it
included, and `CalmID` where the provider's id is.  `CalmOutcome` is what
remains of it at the end.

`EmailFeedbackProofs`, for any notices and addresses and any idempotent
`LowerOf`:

* `FeedbackHolds`: `FeedbackSpec => []FeedbackInv`.  The pipeline's invariants are
  kept by the feedback's steps too, which write only a row's status
  (`PipelineKept`), and `PipelineStep` reuses the pipeline's own lemmas for its
  steps; `NoticeOk` and `IDsBelong` say that an id leads to the row of its own
  email, wherever it is stored, and `Suppressing` that the entry made for a
  processed bounce can only be removed under the very address it has.
* `FeedbackTypes`, `EventsAreOwn`, `ProcessedOut`: the three invariants.
* `TerminalLost`: `FeedbackSpec => TerminalLostOnlyToLateWrites`.
* `IgnoredInTheWindow`: `ReturnsID => (FeedbackSpec => IgnoredOnlyInTheWindow)`.
  Its hypothesis is that the provider returns ids, without which there is nothing
  to look up.  It rests on the part of `CalmInv` about ids.
* `OptOutHolds`: if every recipient is written in lower case, `FeedbackSpec =>
  OptedOutIsNotMailed`.  The run `optout` shows the property violated; the theorem
  says that the case of the letters is all that breaks it.  Its invariant
  `OptOutInv` is that whoever was told so last is on the list under the address
  that `Send` looks up.

The pipeline's theorems above are about `Spec`, in which nobody else writes its
rows.  In `FeedbackSpec` webhooks overwrite statuses and recipients change the
suppression list between any two steps of a request or an attempt:

* `PromisesKept`: `FeedbackSpec => []PipelinePromises`, the conjunction of the seven
  invariants that the run `pipeline` checks of the pipeline by itself (all but its
  types, and those about runs without failures).  They follow from the
  pipeline's inductive invariants and `RowsInv` (retry_count, `sent` and sent_at),
  which a webhook keeps because it writes nothing but a status, and `bounced` or
  `complaint` only of an email that was taken (`HookWrites`, `RowsBeside`).
* `FeedbackDelivers`: `FeedbackSpec => ImplementsDelivery`; the feedback's steps are
  stutters of `Delivery` (`OutsideUnseen`).

`CampaignProofs`, for campaigns of any finite size and any readers:

* `CampaignHolds`: `CampaignSpec => []CampaignInv`, where `CampaignInv` is `FeedbackInv`,
  `SentTaken`, the types, `NeverAhead` and `Recorded`: the event of a status is stored
  before the status.  The argument is that the tables the queries read only
  grow (`TablesGrow`), with every step of the pipeline (`PipelineTables`) and of the
  webhooks (`WebhookTables`), so that counts only grow (`CountsGrow`) and
  what a reader or the cache holds stays below them (`ReportsStay`).
* `StatsTypes`, `CountsStand`, `BouncesBacked`, `NonOpenersMailed`: four of the five
  invariants of the run.
* `BackExplanation`: `CampaignSpec => []BackOnlyByOverlap`, the fifth.  The
  property speaks of pairs of answers; to be kept it needs to know who wrote the
  cache, and which answers above it are excused (`CacheWritten`), that the answers
  a call comes after have been given (`AnsweredBefore`), and that a result about
  to be stored is no older than they are (`NoOlder`); together they are
  `BackInv`, which was checked on the run's bounds first.
* `PromisesKeptBeside` and `CampaignDelivers`: `PipelinePromises` and
  `ImplementsDelivery` for `CampaignSpec`, so for all three parts on the same tables.

`MessageProofs`, for any inputs, files, environments and list of transactional
templates.  Where the theorem needs it, it uses the types of a sender, a branding
and a count and that FROM_EMAIL and the other variables of the environment hold
a bare address or name (`SenderAssumption`, `BrandingAssumption`, `DataAssumption`) and that no
text and no name of a variable is one of the model's own signs
(`DataAssumption`, `TemplateAssumption`):

* `AnswerHolds`: what the reply and the answer say of the message; `MessageTypes`
  and `SendsAsPromised` (`MessageSpec => ImplementsSending`) follow.
* `HeadersHold`: the headers an email has before the provider's client sees it
  and those of the message afterwards; `Unsubscribable` and `RepliesArrive`
  follow.
* `SenderHolds`: the same for the sender (`SenderInv`), for any text a caller may
  write, with what `config.Load` makes of any environment (`ConfiguredSender`,
  `ConfiguredReads`) and what can be read of a text put between name and brackets
  (`NamedReads`): the address, if the text is one, and otherwise nothing.
* `BrandingHolds`: the texts of a stored email are the rendered ones
  (`TextsRendered`), what they show as branding is made of the request's own
  (`BrandingOfTexts`), and the service's check of a colour, bytes and all, accepts
  exactly the readable ones (`ValidIsReadable`).
* `PlaceholdersExplained`: `MessageSpec => []PlaceholderOnlyForMissing`, from what the
  template is shown (`PreparedShown`): of the caller's data, the link and the
  branding nothing is missing and nothing looks like `<no value>`.
* `CountsHold`: `MessageSpec => []CountReadsBack`, because the template is shown the
  count of the request (`CountIsShown`) and what `formatCount` prints is right
  (`CountShown`).

`RenderingProofs`: `CountShown`, `formatCount` for every whole number and every
width.  `DigitsOf`, `FlattenSeq` (of the community modules) and `ValueOf` are
recursive functions, and the library's induction theorems take an operator,
which no backend can instantiate.  Induction is done over *sets* of numbers
instead: `LeastNumber` comes from the first-order part of the theory of
well-founded relations (`WFMin`, `NatLessThanWellFounded`), and `NumbersInduct` from
it.  With them, a function that satisfies the recursive equation is exhibited,
so that the definition means what it says (`DigitsUnfold`), and then

* the digits of n are read as n (`DigitsRead`, `DigitsAre`);
* `Grouped` has a closed form: place p from the end is a comma when 4 divides p,
  and else a digit, the one at p - p div 4 (`GroupedForm`);
* so commas are where they belong and nothing of the value is lost
  (`GroupedReads`, `GroupedMarked`), and a sign in front changes neither (`SignMarked`);
* the three cases of `formatCount` (not negative, negative, the smallest int64,
  which keeps its sign when it is negated) are those lemmas put together.

`RateLimiterProofs`, for any keys, limit, window and length of time:

* `LimiterInvariant`: types, admission times in order, no entry dropped that
  still counts (`Kept`), and no tick overdue.  `Kept` is what the limit needs: it
  makes the entries `Allow` counts the same as all admitted requests in the
  window (`SameWindow`); if limit requests ago was still in the window, these
  would be limit of them (`AdmitSpaced`).
* `LimitNeverExceeded`, `IdleKeysLeave`: the two invariants the run checks.
* `LimiterTypes`: the type invariant as a theorem of its own.
* `LimiterSlides`: `Spec => SW!Spec`, step by step from `SameWindow`; the
  cleanup is a stuttering step of `SlidingWindow`.

`BulkSendProofs`, for requests and batches of any length:

* `BulkTypes`, `Counts` (`CountExplained`) and `Rests` (`ThrottledUnlessError`), from
  the loop invariant `LoopInv`: who has been passed, and what that made of the
  count, the ids and the pauses.
* `WhoseLink`: `Spec => []LinksExplained`, from the invariant that a map that is not
  shared stays as it came (`OwnLinks`), and that a shared one carries the link of
  one recipient as soon as anything is queued (`SharedLink`).

The composition of the parts is proved where they meet in one specification
(`EmailFeedback` with `EmailPipeline`, `CampaignStats` with both) and where one
abstracts the other (`Delivery`, `Sending`, `SlidingWindow`).

Every invariant and every action property of the passing runs is a theorem.
Only model-checked are the two liveness properties, `EnqueuedSettles` and
`ResendAnswers`: liveness under fairness is out of the prover's reach.  The
properties of the runs that expect a violation are of course not provable; for
two of them a theorem says what it takes to break them (`DuplicateMissed`,
`OptOutHolds`), and for `TerminalIsFinal` and `SentIsNotRequeued` it is
`TerminalLost` and `SentLost`.

## 5. Findings

1. `requeued` – `email.go:183` writes `queued` after the task is in the queue and
   can overwrite `sent`.
2. `stranded` – `email.go:167` answers "already queued" for a row that no task
   carries.
3. `terminal` – `email.go:373` overwrites `bounced` and `complaint` with `sent`.
4. `optout` – `unsubscribe_handler.go:57` stores a lower-cased address that the
   check before a send does not find.
5. `links` – `email.go:84` writes the first recipient's unsubscribe link into the
   template data of all recipients of `SendBulk`.  `docs/openapi.yaml:620` and `:630`
   promise identical content; a link that is somebody else's cannot be meant.

Further divergences have no run of their own; they are part of what the
properties that hold say, or of the definitions:

* `email.go:354` declares the email failed one attempt before asynq gives up, and
  retry_count ends at MaxRetries + 1 (`CalmOutcome`); `docs/openapi.yaml:722` speaks
  of retries "up to a configured maximum".
* `smtp.go:120` returns QUIT's error after the server has taken the message, and
  `resend.go` an error for a 2xx it cannot read: the email is sent again
  (`ImplementsSending` allows an error after the message is taken).
* `smtp.go` writes none of `email.Headers`: no List-Unsubscribe, no Reply-To
  (`UnsubscribeExplained`).
* `smtp.go:30` takes a caller's From for an address.  With the form that
  `domain/email.go:49` and `pkg/client/client.go:79` document, `Name <addr@domain>`,
  the header becomes `From: FromName <Name <addr@domain>>` and MAIL FROM gets the
  whole text, so that neither can be read (`SenderExplained`).  Resend gets the text
  as it is, and reads it.
* `docs/openapi.yaml:524` says that custom content overrides the template;
  `email.go:136-144` replaces subject and both bodies by the template's (`Prepare`).
* The comment at `email.go:427` says that transactional templates get no unsubscribe
  links; `email.go:77-85` puts `UnsubscribeURL` into the data of every template
  (`DataOf`), and only the headers depend on the list.
* A call of `SendBulk` that dies with the process has mailed recipients of whom no
  answer tells (`CountExplained` allows the one it died at).
* `template.go:261` says that missingkey=zero renders undefined variables as empty
  strings; for a map of interfaces text/template still prints `<no value>`
  (`PlaceholderOnlyForMissing`).
* `formatCount` prints the smallest int64 with two minus signs (`CountReadsBack`).
* The first letter as a logo (`template.go:153`) is never used, because the
  defaults fill in a logo first.
* An empty Reply-To of the caller stays among the headers next to the configured
  one (`RepliesGoWhereAsked` asks only that it is empty).
* `total_sent` counts every row of the campaign whatever its status (`Counted`).
* `payment_failed_attempt2` (`domain/template.go:36`) is missing from
  `transactionalTemplates`, although the comment at `email.go:427` gives payments as
  the case without unsubscribe headers.
* A suppressed recipient counts in `total_queued` with the id `uuid.Nil`
  (`CountExplained`), while `docs/openapi.yaml` calls it the number of emails
  successfully queued; the pause between batches can be skipped
  (`ThrottledUnlessError`).

## 6. Not modelled

* `applyBranding`, which nothing calls; the listing of templates; the syntax of
  `text/template` and what its functions do besides `num`.
* MIME and JSON layout, escaping, line lengths: constants of the format, with no
  state.
* HMAC tokens of unsubscribe links, Svix signatures and the parsing of bodies:
  they decide whether a handler begins at all, and everything after that is
  modelled.
* `ValidateProduction`, server addresses, timeouts and pool sizes, and the parsing
  of lists in `config.go`: they stop the program at start or are handed to
  libraries.
* API key, IP whitelist, CORS and routes: stateless decisions on one request.
* Connection set-up, migrations, logging: start-up code and plain output.
* The client package: one HTTP request per method, no retry and no state.  A
  caller that retries is a second request with the same idempotency_id.
* Which header a request's rate-limit key comes from, and template data files.
* The handlers that only read (`CheckSuppressed`, `List`, `FilterSuppressed`, the
  status of an email): they show the tables that are modelled.
