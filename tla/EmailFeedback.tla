---------------------------- MODULE EmailFeedback ----------------------------
(* What comes back about emails that were sent: the provider's webhook events  *)
(* (service.WebhookService), the recipient's unsubscribe link and the removal  *)
(* of a suppression (handlers.UnsubscribeHandler, handlers.CampaignHandler).   *)
(* They write the tables that EmailPipeline works on, at any moment.           *)
EXTENDS EmailPipeline

CONSTANTS
  Notices,   \* the webhook requests the provider makes: one per delivery of an event
  LowerOf    \* strings.ToLower

ASSUME LowerAssumption ==
  /\ LowerOf \in [Addresses -> Addresses]
  /\ \A a \in Addresses : LowerOf[LowerOf[a]] = LowerOf[a]

VARIABLES
  hook,    \* hook[h]: what request h reports and how far its handler is
  events,  \* the email_events table
  told     \* told[a]: the last answer about address a, as it was looked up; "nothing"
           \* before it and when a removal was answered with an error

feedbackVars == <<hook, events, told>>
pipelineVars == <<api, task, run, accepted, faults, incidents>>
allVars == <<vars, feedbackVars>>

\* Opens stand for the events that are only recorded: deliveries, opens, clicks.
Kinds == {"email.opened", "email.bounced", "email.complained"}

\* Mutant: an open counts as a terminal event.
EveryKind == Kinds

\* The kinds that change the email's status and suppress its recipient.
Terminal == {"email.bounced", "email.complained"}

HookPcs == {"idle", "lookup", "store", "mark", "suppress", "done", "crashed"}
Outcomes == {"none", "unknown", "unstored", "processed"}
NoEmail == <<>>
NewNotice ==
  [pc |-> "idle", kind |-> "email.opened", id |-> NoID, email |-> NoEmail,
   outcome |-> "none"]

FeedbackInit ==
  /\ Init /\ suppressions = {}
  /\ hook = [h \in Notices |-> NewNotice]
  /\ events = {}
  /\ told = [a \in Addresses |-> "nothing"]

HookTo(h, pc) == hook' = [hook EXCEPT ![h] = [@ EXCEPT !.pc = pc]]

\* The provider is answered, with 200 whatever the outcome.
Answer(h, outcome) ==
  hook' = [hook EXCEPT ![h] = [@ EXCEPT !.pc = "done", !.outcome = outcome]]

-----------------------------------------------------------------------------
(* WebhookService.ProcessResendWebhook, in the API process *)

\* A signed event arrives about a message the provider took.  Events come in
\* any order, late, never, or several times.
Receive(h) ==
  /\ hook[h].pc = "idle"
  /\ \E r \in Requests, n \in Attempts, kind \in Kinds :
       \E i \in 1..accepted[r][n] :
         hook' = [hook EXCEPT ![h] =
                    [@ EXCEPT !.pc = "lookup", !.kind = kind, !.id = <<r, n, i>>]]
  /\ UNCHANGED <<pipelineVars, emails, suppressions, outages, events, told>>

\* The row is looked up by the provider's id; not found, or the query fails.
LookUp(h) ==
  /\ hook[h].pc = "lookup"
  /\ \/ /\ \E e \in GetByResendEmailID(emails, hook[h].id) :
             hook' = [hook EXCEPT ![h] = [@ EXCEPT !.pc = "store", !.email = e]]
        /\ UNCHANGED outages
     \/ /\ GetByResendEmailID(emails, hook[h].id) = {}
        /\ Answer(h, "unknown")
        /\ UNCHANGED outages
     \/ Outage /\ Answer(h, "unknown")
  /\ UNCHANGED <<pipelineVars, emails, suppressions, events, told>>

\* An event that is there already, by its svix-id, is not inserted again and
\* is no error.
Record(h) ==
  events' = events \union
    {[id |-> hook[h].id, kind |-> hook[h].kind, email |-> hook[h].email]}

\* Mutant: an event that could not be stored is handled all the same.
StoreEventOrGoOn(h) ==
  /\ hook[h].pc = "store"
  /\ \/ Record(h) /\ UNCHANGED outages
     \/ Outage /\ UNCHANGED events
  /\ IF hook[h].kind \in Terminal THEN HookTo(h, "mark") ELSE Answer(h, "processed")
  /\ UNCHANGED <<pipelineVars, emails, suppressions, told>>

StoreEvent(h) ==
  /\ hook[h].pc = "store"
  /\ \/ /\ Record(h)
        /\ IF hook[h].kind \in Terminal THEN HookTo(h, "mark") ELSE Answer(h, "processed")
        /\ UNCHANGED outages
     \/ /\ Outage
        /\ Answer(h, "unstored")
        /\ Record(h) \/ UNCHANGED events
  /\ UNCHANGED <<pipelineVars, emails, suppressions, told>>

\* Mutant: the status is named as the event is.
StatusAsNamed(kind) == IF kind = "email.bounced" THEN "bounced" ELSE "complained"

StatusOf(kind) == IF kind = "email.bounced" THEN "bounced" ELSE "complaint"

MarkTerminal(h) ==
  /\ hook[h].pc = "mark"
  /\ Attempted(UpdateStatus(emails, hook[h].email, StatusOf(hook[h].kind)))
  /\ HookTo(h, "suppress")
  /\ UNCHANGED <<pipelineVars, suppressions, events, told>>

\* Mutant: only complaints suppress.
SuppressComplaints(h) ==
  /\ hook[h].pc = "suppress"
  /\ suppressions' = suppressions \union
       IF hook[h].kind = "email.complained" THEN {ToOf[hook[h].email]} ELSE {}
  /\ Answer(h, "processed")
  /\ UNCHANGED <<pipelineVars, emails, outages, events, told>>

\* SuppressionRepository.Add with the address as the row has it.
\* Its error is only logged.
Suppress(h) ==
  /\ hook[h].pc = "suppress"
  /\ \/ /\ suppressions' = suppressions \union {ToOf[hook[h].email]}
        /\ UNCHANGED outages
     \/ Outage /\ UNCHANGED suppressions
  /\ Answer(h, "processed")
  /\ UNCHANGED <<pipelineVars, emails, events, told>>

\* The API process dies: the provider has no answer and delivers again.
HookCrash(h) ==
  /\ hook[h].pc \in {"lookup", "store", "mark", "suppress"}
  /\ HookTo(h, "crashed")
  /\ UNCHANGED <<pipelineVars, emails, suppressions, outages, events, told>>

-----------------------------------------------------------------------------
(* Recipients and operators *)

\* PostUnsubscribe, from the link in an email sent to a: the address is
\* lower-cased, and the recipient told that no more emails will come.  When the
\* call fails the address may be on the list all the same.
PostUnsubscribe(a) ==
  /\ \E r \in Requests, n \in Attempts : ToOf[r] = a /\ accepted[r][n] > 0
  /\ \/ /\ suppressions' = suppressions \union {LowerOf[a]}
        /\ told' = [told EXCEPT ![LowerOf[a]] = "unsubscribed"]
        /\ UNCHANGED outages
     \/ /\ Outage
        /\ suppressions' \in {suppressions, suppressions \union {LowerOf[a]}}
        /\ UNCHANGED told
  /\ UNCHANGED <<pipelineVars, emails, hook, events>>

\* RemoveSuppression: the address is lower-cased, and the caller told that it
\* was removed, whether it was there or not.  An error leaves open whether it is
\* on the list.
RemoveSuppression(a) ==
  /\ \/ /\ suppressions' = suppressions \ {LowerOf[a]}
        /\ told' = [told EXCEPT ![LowerOf[a]] = "removed"]
        /\ UNCHANGED outages
     \/ /\ Outage
        /\ suppressions' \in {suppressions, suppressions \ {LowerOf[a]}}
        /\ told' = [told EXCEPT ![LowerOf[a]] = "nothing"]
  /\ UNCHANGED <<pipelineVars, emails, hook, events>>

-----------------------------------------------------------------------------
ProcessResendWebhook(h) ==
  \/ Receive(h)
  \/ LookUp(h)
  \/ StoreEvent(h)
  \/ MarkTerminal(h)
  \/ Suppress(h)
  \/ HookCrash(h)

FeedbackNext ==
  \/ Next /\ UNCHANGED feedbackVars
  \/ \E h \in Notices : ProcessResendWebhook(h)
  \/ \E a \in Addresses : PostUnsubscribe(a) \/ RemoveSuppression(a)

FeedbackSpec == FeedbackInit /\ [][FeedbackNext]_allVars
=============================================================================
