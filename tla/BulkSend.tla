------------------------------- MODULE BulkSend ------------------------------
(* One call of SendBulk or SendBulkPersonalized: a loop that calls Send for    *)
(* each recipient.  Of Send it keeps what reaches from one recipient to the    *)
(* next (the template data it writes into) and what it answers; EmailPipeline  *)
(* has the rest.  Meanwhile the suppression list changes, calls fail and the   *)
(* client may go away.                                                         *)
EXTENDS Integers, Sequences, FiniteSets

CONSTANTS
  Addresses,
  MaxRecipients,  \* bound on the length of a request
  BatchSize,      \* 50 in the code
  Nil,            \* the caller gave no template data
  NoLink,         \* template data without UnsubscribeURL
  CallersLink     \* an UnsubscribeURL that the caller gave

ASSUME BulkAssumption ==
  /\ MaxRecipients \in Nat /\ BatchSize \in Nat \ {0}
  /\ Nil \notin Addresses \union {NoLink, CallersLink}
  /\ NoLink \notin Addresses \union {CallersLink}
  /\ CallersLink \notin Addresses

VARIABLES
  req,         \* the request; an address stands for its unsubscribe link
  data,        \* UnsubscribeURL in req.TemplateData, the map that the loop shares
  i,           \* the recipient the loop is at
  pc,          \* check, create, pause, done or crashed
  link,        \* UnsubscribeURL of the email that Send is building
  ctx,         \* live until the client goes away
  suppressed,  \* the suppression list
  ids,         \* emailIDs: recipients' indices, 0 for uuid.Nil
  errors,      \* history: recipients whose Send returned an error
  queued,      \* history: for each recipient whose task is in the queue, its link
  rested       \* history: recipients after whom the loop slept

vars == <<req, data, i, pc, link, ctx, suppressed, ids, errors, queued, rested>>

\* The caller's link in the data of the request and, personalised, of each recipient.
BulkRequests ==
  UNION {[to : [1..n -> Addresses], personalized : BOOLEAN, template : BOOLEAN,
          data : {Nil, NoLink, CallersLink}, own : [1..n -> {NoLink, CallersLink}]] :
         n \in 1..MaxRecipients}

N == Len(req.to)

Init ==
  /\ req \in BulkRequests
  /\ req.personalized \/ \A n \in DOMAIN req.own : req.own[n] = NoLink
  /\ data = req.data
  /\ i = 1
  /\ pc = "check"
  /\ link = NoLink
  /\ ctx = "live"
  /\ suppressed \in SUBSET Addresses
  /\ ids = <<>>
  /\ errors = {}
  /\ queued = [n \in {} |-> NoLink]
  /\ rested = {}

\* What Send is given: the shared map, or a copy in which the recipient's own
\* values come before the shared ones.
Merged ==
  CASE req.own[i] # NoLink -> req.own[i]
    [] req.own[i] = NoLink /\ data # Nil -> data
    [] OTHER -> NoLink
Given == IF req.personalized THEN Merged ELSE data

\* Mutant: the throttle counts from the index 0.
ThrottleAtStart ==
  /\ i' = i + 1
  /\ pc' = IF (i - 1) % BatchSize = 0 /\ i < N THEN "pause" ELSE IF i < N THEN "check" ELSE "done"

\* The loop goes on; after an error it skips the throttle.
ThrottleOrGoOn ==
  /\ i' = i + 1
  /\ pc' = IF i % BatchSize = 0 /\ i < N THEN "pause" ELSE IF i < N THEN "check" ELSE "done"

Continue ==
  /\ i' = i + 1
  /\ pc' = IF i < N THEN "check" ELSE "done"

SkipSuppressed ==
  /\ pc = "check" /\ ctx = "live" /\ req.to[i] \in suppressed
  /\ ids' = Append(ids, 0)
  /\ ThrottleOrGoOn
  /\ UNCHANGED <<req, data, link, ctx, suppressed, errors, queued, rested>>

\* Mutant: the personalised loop gives Send the shared map as well.
WriteLinkShared ==
  IF req.template /\ Given \in {Nil, NoLink}
    THEN /\ link' = req.to[i]
         /\ data' = req.to[i]
    ELSE /\ link' = Given
         /\ UNCHANGED data

\* Send writes UnsubscribeURL into the map it is given, unless it is there; a
\* map it had to make and the copy of the personalised loop are not shared.
WriteLink ==
  IF req.template /\ Given \in {Nil, NoLink}
    THEN /\ link' = req.to[i]
         /\ data' = IF ~req.personalized /\ data # Nil THEN req.to[i] ELSE data
    ELSE /\ link' = Given
         /\ UNCHANGED data

\* The address is not on the list, or the lookup failed.
NotSuppressed ==
  /\ pc = "check"
  /\ WriteLink
  /\ pc' = "create"
  /\ UNCHANGED <<req, i, ctx, suppressed, ids, errors, queued, rested>>

Queue == queued' = [n \in DOMAIN queued \union {i} |-> IF n = i THEN link ELSE queued[n]]

\* Mutant: the id of the next recipient.
QueuedOffByOne ==
  /\ pc = "create" /\ ctx = "live"
  /\ Queue
  /\ ids' = Append(ids, i + 1)
  /\ ThrottleOrGoOn
  /\ UNCHANGED <<req, data, link, ctx, suppressed, errors, rested>>

Queued ==
  /\ pc = "create" /\ ctx = "live"
  /\ Queue
  /\ ids' = Append(ids, i)
  /\ ThrottleOrGoOn
  /\ UNCHANGED <<req, data, link, ctx, suppressed, errors, rested>>

\* Mutant: no continue after the error is logged.
FailedCounted ==
  /\ pc = "create"
  /\ errors' = errors \union {i}
  /\ (ctx = "live" /\ Queue) \/ UNCHANGED queued
  /\ ids' = Append(ids, 0)
  /\ Continue
  /\ UNCHANGED <<req, data, link, ctx, suppressed, rested>>

\* Rendering, the INSERT or the queue failed; the queue may have the task all
\* the same.  When the client is gone the INSERT always fails.
Failed ==
  /\ pc = "create"
  /\ errors' = errors \union {i}
  /\ (ctx = "live" /\ Queue) \/ UNCHANGED queued
  /\ Continue
  /\ UNCHANGED <<req, data, link, ctx, suppressed, ids, rested>>

\* time.Sleep; i is already at the next recipient.
Pause ==
  /\ pc = "pause"
  /\ rested' = rested \union {i - 1}
  /\ pc' = "check"
  /\ UNCHANGED <<req, data, i, link, ctx, suppressed, ids, errors, queued>>

\* The process dies, perhaps after the task has reached the queue and before
\* its id is in the list.
Crash ==
  /\ pc \in {"check", "create", "pause"}
  /\ pc' = "crashed"
  /\ (pc = "create" /\ ctx = "live" /\ Queue) \/ UNCHANGED queued
  /\ UNCHANGED <<req, data, i, link, ctx, suppressed, ids, errors, rested>>

ClientGone ==
  /\ ctx = "live" /\ pc # "done"
  /\ ctx' = "ended"
  /\ UNCHANGED <<req, data, i, pc, link, suppressed, ids, errors, queued, rested>>

\* Webhooks, unsubscribe links and operators.
ListChanges ==
  /\ \E a \in Addresses : suppressed' \in {suppressed \union {a}, suppressed \ {a}}
  /\ UNCHANGED <<req, data, i, pc, link, ctx, ids, errors, queued, rested>>

Next ==
  \/ SkipSuppressed \/ NotSuppressed \/ Queued \/ Failed \/ Pause
  \/ Crash \/ ClientGone \/ ListChanges

Spec == Init /\ [][Next]_vars

-----------------------------------------------------------------------------
TotalQueued == Len(ids)
Tried == {n \in DOMAIN req.to : n < i}
Counted == {ids[n] : n \in DOMAIN ids} \ {0}

\* Every variable has its type; ids and histories name recipients of the request.
TypeOK ==
  /\ data \in {Nil, NoLink, CallersLink} \union Addresses
  /\ i \in 1 .. N + 1
  /\ pc \in {"check", "create", "pause", "done", "crashed"}
  /\ link \in {Nil, NoLink, CallersLink} \union Addresses
  /\ ctx \in {"live", "ended"}
  /\ suppressed \subseteq Addresses
  /\ \A n \in DOMAIN ids : ids[n] \in 0..N
  /\ errors \subseteq 1..N /\ DOMAIN queued \subseteq 1..N /\ rested \subseteq 1..N

\* Every recipient the loop has passed is counted once in TotalQueued or has
\* had an error logged; the ids that are not uuid.Nil are of queued emails, in
\* the order of the recipients, so that a client can tell which recipient each
\* id belongs to unless somebody was skipped before.  Whoever is queued
\* and not counted had an error, or is the one the process died at.
CountExplained ==
  /\ TotalQueued + Cardinality(errors) = i - 1
  /\ Counted \subseteq DOMAIN queued
  /\ \A m, n \in DOMAIN ids : m < n /\ ids[m] # 0 /\ ids[n] # 0 => ids[m] < ids[n]
  /\ DOMAIN queued \ Counted \subseteq errors \union (IF pc = "crashed" THEN {i} ELSE {})

\* An unsubscribe link is the recipient's own, or the caller's; only SendBulk,
\* and only when template data came with the request, may mail the link of a
\* recipient that came earlier, and then that one link to everybody after.
LinksExplained ==
  \A n \in DOMAIN queued :
    req.template /\ queued[n] \notin {req.to[n], CallersLink} =>
      /\ ~req.personalized /\ req.data = NoLink
      /\ \E m \in 1 .. n - 1 : queued[n] = req.to[m]
      /\ \A m \in DOMAIN queued : m > n => queued[m] = queued[n]

\* The loop sleeps after each full batch but the last; only an error at the
\* very end of a batch makes it go on without.
ThrottledUnlessError ==
  \A n \in Tried : n % BatchSize = 0 /\ n < N =>
    n \in rested \/ n \in errors \/ (n = i - 1 /\ pc \in {"pause", "crashed"})

\* The UnsubscribeURL that Send injects into a template ("Inject UnsubscribeURL
\* into template data", email.go:78) is the link of the email's own recipient.
\* SendBulk breaks it when template data came with the request.
OwnUnsubscribeLink ==
  \A n \in DOMAIN queued : req.template => queued[n] \in {req.to[n], CallersLink}
=============================================================================
