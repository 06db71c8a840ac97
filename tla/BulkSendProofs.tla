---------------------------- MODULE BulkSendProofs ---------------------------
(* Whose unsubscribe link an email of a bulk request carries, for requests of  *)
(* any length and any batch size.                                              *)
EXTENDS BulkSend, FiniteSetTheorems, TLAPS

\* The loop writes into a map that all its emails share.
Shared == req.template /\ ~req.personalized /\ req.data = NoLink

Types ==
  /\ req \in BulkRequests
  /\ req.personalized \/ \A n \in DOMAIN req.own : req.own[n] = NoLink
  /\ i \in Nat /\ i >= 1
  /\ pc \in {"check", "create", "pause"} => i <= N
  /\ DOMAIN queued \subseteq 1 .. i /\ (i \in DOMAIN queued => pc = "crashed")

\* A map that is not shared stays as it came, and links are right.
OwnLinks ==
  req.template /\ ~Shared =>
    /\ data = req.data
    /\ pc = "create" => link \in {req.to[i], CallersLink}
    /\ \A n \in DOMAIN queued : queued[n] \in {req.to[n], CallersLink}

\* A shared map has no link until the first email writes its own, which then
\* is the link of that email and of all that follow.
SharedLink ==
  Shared =>
    \/ data = NoLink /\ pc # "create" /\ queued = [n \in {} |-> NoLink]
    \/ \E m \in 1..N :
         /\ m <= i /\ data = req.to[m]
         /\ pc = "create" => link = data
         /\ \A n \in DOMAIN queued : n >= m /\ queued[n] = data

IInv == Types /\ OwnLinks /\ SharedLink

\* What a request looks like.
LEMMA RequestTypes ==
  ASSUME req \in BulkRequests
  PROVE  /\ N \in Nat /\ DOMAIN req.to = 1..N /\ DOMAIN req.own = 1..N
         /\ \A n \in 1..N : req.to[n] \in Addresses /\ req.own[n] \in {NoLink, CallersLink}
         /\ req.data \in {Nil, NoLink, CallersLink}
         /\ req.personalized \in BOOLEAN /\ req.template \in BOOLEAN
<1>1. PICK n \in 1..MaxRecipients :
        req \in [to : [1..n -> Addresses], personalized : BOOLEAN, template : BOOLEAN,
                 data : {Nil, NoLink, CallersLink}, own : [1..n -> {NoLink, CallersLink}]]
  BY DEF BulkRequests
<1>2. n \in Nat
  BY <1>1, BulkAssumption
<1>3. req.to \in [1..n -> Addresses] /\ req.own \in [1..n -> {NoLink, CallersLink}]
  BY <1>1
<1>4. N = n
  BY <1>2, <1>3 DEF N
<1> QED BY <1>1, <1>2, <1>3, <1>4

LEMMA LinksFromInvariant == IInv => LinksExplained
<1> SUFFICES ASSUME IInv, NEW n \in DOMAIN queued, req.template,
                    queued[n] \notin {req.to[n], CallersLink}
             PROVE  /\ ~req.personalized /\ req.data = NoLink
                    /\ \E m \in 1 .. n - 1 : queued[n] = req.to[m]
                    /\ \A m \in DOMAIN queued : m > n => queued[m] = queued[n]
  BY DEF LinksExplained
<1>1. Shared
  BY DEF IInv, OwnLinks
<1>2. n \in Nat
  BY DEF IInv, Types
<1>3. PICK m \in 1..N : /\ data = req.to[m]
                        /\ \A k \in DOMAIN queued : k >= m /\ queued[k] = data
  BY <1>1 DEF IInv, SharedLink
<1>4. n >= m /\ n # m
  BY <1>3
<1>5. m \in 1 .. n - 1
  BY <1>2, <1>4, <1>3, RequestTypes DEF IInv, Types
<1> QED BY <1>1, <1>3, <1>5 DEF Shared

LEMMA InitLinks == Init => IInv
<1> SUFFICES ASSUME Init PROVE IInv
  OBVIOUS
<1>1. Types
  <2>1. N >= 1
    BY BulkAssumption DEF Init, BulkRequests, N
  <2> QED BY <2>1 DEF Init, Types
<1>2. OwnLinks /\ SharedLink
  BY DEF Init, OwnLinks, SharedLink, Shared
<1> QED BY <1>1, <1>2 DEF IInv

\* Where the loop is after a recipient.
LEMMA GoesOn ==
  ASSUME Types, i <= N, ThrottleOrGoOn \/ Continue, UNCHANGED req
  PROVE  /\ i' = i + 1 /\ i' \in Nat /\ i' >= 1
         /\ pc' # "create" /\ (pc' \in {"check", "create", "pause"} => i' <= N')
<1>1. i \in Nat /\ N \in Nat /\ N' = N
  BY RequestTypes DEF Types, N
<1>2. i' = i + 1 /\ (i < N \/ pc' = "done")
      /\ pc' \in {"check", "pause", "done"}
  BY DEF ThrottleOrGoOn, Continue
<1>3. i < N => i + 1 <= N
  BY <1>1
<1> QED BY <1>1, <1>2, <1>3

LEMMA SkipLinks ==
  ASSUME IInv, SkipSuppressed
  PROVE  IInv'
<1>1. UNCHANGED <<req, data, link, queued>> /\ pc = "check" /\ ThrottleOrGoOn
  BY DEF SkipSuppressed
<1>2. i <= N
  BY <1>1 DEF IInv, Types
<1>3. i' = i + 1 /\ i' \in Nat /\ i' >= 1 /\ pc' # "create"
      /\ (pc' \in {"check", "create", "pause"} => i' <= N')
  BY <1>1, <1>2, GoesOn DEF IInv
<1>4. Types'
  BY <1>1, <1>3 DEF IInv, Types
<1>5. OwnLinks'
  BY <1>1, <1>3 DEF IInv, OwnLinks, Shared
<1>6. SharedLink'
  BY <1>1, <1>3, RequestTypes DEF IInv, Types, SharedLink, Shared, N
<1> QED BY <1>4, <1>5, <1>6 DEF IInv

LEMMA WriteLinks ==
  ASSUME IInv, NotSuppressed
  PROVE  IInv'
<1>1. /\ UNCHANGED <<req, i, queued>> /\ pc = "check" /\ pc' = "create"
      /\ WriteLink
  BY DEF NotSuppressed
<1>2. i \in 1..N
  BY <1>1, RequestTypes DEF IInv, Types
<1>3. /\ req.to[i] \in Addresses /\ req.own[i] \in {NoLink, CallersLink}
      /\ req.data \in {Nil, NoLink, CallersLink}
      /\ req.personalized \in BOOLEAN /\ req.template \in BOOLEAN
      /\ DOMAIN req.own = 1..N
  BY <1>2, RequestTypes DEF IInv, Types
<1>4. Types'
  BY <1>1 DEF IInv, Types, N
<1>5. OwnLinks'
  <2> SUFFICES ASSUME req.template, ~Shared
               PROVE  /\ data' = req.data
                      /\ link' \in {req.to[i], CallersLink}
                      /\ \A n \in DOMAIN queued : queued[n] \in {req.to[n], CallersLink}
    BY <1>1 DEF OwnLinks, Shared
  <2>1. data = req.data /\ \A n \in DOMAIN queued : queued[n] \in {req.to[n], CallersLink}
    BY DEF IInv, OwnLinks
  <2>2. CASE req.personalized
    <3>1. Given \in {NoLink, CallersLink}
      BY <2>1, <2>2, <1>3 DEF Given, Merged
    <3> QED BY <2>1, <2>2, <3>1, <1>1 DEF WriteLink
  <2>3. CASE ~req.personalized
    <3>1. req.data \in {Nil, CallersLink}
      BY <2>3, <1>3 DEF Shared
    <3>2. Given = req.data
      BY <2>1, <2>3 DEF Given
    <3> QED BY <2>1, <2>3, <3>1, <3>2, <1>1, BulkAssumption DEF WriteLink
  <2> QED BY <2>1, <2>2, <2>3
<1>6. SharedLink'
  <2> SUFFICES ASSUME Shared
               PROVE  \E m \in 1..N :
                        /\ m <= i /\ data' = req.to[m] /\ link' = data'
                        /\ \A n \in DOMAIN queued : n >= m /\ queued[n] = data'
    BY <1>1 DEF SharedLink, Shared, N
  <2>1. Given = data
    BY DEF Given, Shared
  <2>2. CASE data = NoLink /\ queued = [n \in {} |-> NoLink]
    <3>1. link' = req.to[i] /\ data' = req.to[i]
      BY <2>1, <2>2, <1>1, BulkAssumption DEF WriteLink, Shared
    <3>2. DOMAIN queued = {}
      BY <2>2
    <3> QED BY <3>1, <3>2, <1>2
  <2>3. CASE \E m \in 1..N : /\ m <= i /\ data = req.to[m]
                             /\ \A n \in DOMAIN queued : n >= m /\ queued[n] = data
    <3>1. data \in Addresses
      BY <2>3, RequestTypes DEF IInv, Types
    <3>2. link' = data /\ data' = data
      BY <2>1, <3>1, <1>1, BulkAssumption DEF WriteLink
    <3> QED BY <2>3, <3>2
  <2> QED BY <2>2, <2>3 DEF IInv, SharedLink
<1> QED BY <1>4, <1>5, <1>6 DEF IInv

\* An email that may have reached the queue carries the link Send wrote.
LEMMA QueueLinks ==
  ASSUME IInv, pc = "create", Queue \/ UNCHANGED queued,
         ThrottleOrGoOn \/ Continue, UNCHANGED <<req, data, link>>
  PROVE  IInv'
<1>1. i <= N /\ i \in Nat /\ DOMAIN queued \subseteq 1 .. i /\ i \notin DOMAIN queued
  BY DEF IInv, Types
<1>2. i' = i + 1 /\ i' \in Nat /\ i' >= 1 /\ pc' # "create"
      /\ (pc' \in {"check", "create", "pause"} => i' <= N')
  BY <1>1, GoesOn DEF IInv
<1>3. /\ DOMAIN queued' \subseteq DOMAIN queued \union {i}
      /\ \A n \in DOMAIN queued' : queued'[n] = IF n = i THEN link ELSE queued[n]
  BY <1>1 DEF Queue
<1>4. Types'
  <2>1. DOMAIN queued' \subseteq 1 .. i' /\ i' \notin DOMAIN queued'
    BY <1>1, <1>2, <1>3 DEF IInv, Types
  <2> QED BY <2>1, <1>2 DEF IInv, Types
<1>5. OwnLinks'
  BY <1>2, <1>3 DEF IInv, OwnLinks, Shared
<1>6. SharedLink'
  <2> SUFFICES ASSUME Shared
               PROVE  \E m \in 1..N :
                        /\ m <= i + 1 /\ data = req.to[m]
                        /\ \A n \in DOMAIN queued' : n >= m /\ queued'[n] = data
    BY <1>2 DEF SharedLink, Shared, N
  <2>1. PICK m \in 1..N : /\ m <= i /\ data = req.to[m] /\ link = data
                          /\ \A n \in DOMAIN queued : n >= m /\ queued[n] = data
    BY DEF IInv, SharedLink
  <2>2. \A n \in DOMAIN queued' : n >= m /\ queued'[n] = data
    BY <2>1, <1>3
  <2>3. m <= i + 1
    BY <2>1, <1>1, RequestTypes DEF IInv, Types
  <2> QED BY <2>1, <2>2, <2>3
<1> QED BY <1>4, <1>5, <1>6 DEF IInv

\* The process dies, perhaps with the email in the queue.
LEMMA CrashLinks ==
  ASSUME IInv, Crash
  PROVE  IInv'
<1>1. UNCHANGED <<req, data, i, link>> /\ pc' = "crashed"
      /\ ((pc = "create" /\ Queue) \/ UNCHANGED queued)
  BY DEF Crash
<1>2. CASE UNCHANGED queued
  <2>1. Types'
    BY <1>1, <1>2 DEF IInv, Types
  <2>2. OwnLinks' /\ SharedLink'
    BY <1>1, <1>2 DEF IInv, OwnLinks, SharedLink, Shared, N
  <2> QED BY <2>1, <2>2 DEF IInv
<1>3. CASE pc = "create" /\ Queue
  <2>1. i \in Nat /\ i >= 1 /\ DOMAIN queued \subseteq 1 .. i
    BY DEF IInv, Types
  <2>2. /\ DOMAIN queued' = DOMAIN queued \union {i}
        /\ \A n \in DOMAIN queued' : queued'[n] = IF n = i THEN link ELSE queued[n]
    BY <1>3 DEF Queue
  <2>3. Types'
    BY <1>1, <2>1, <2>2 DEF IInv, Types
  <2>4. OwnLinks'
    BY <1>1, <1>3, <2>2 DEF IInv, OwnLinks, Shared
  <2>5. SharedLink'
    BY <1>1, <1>3, <2>2 DEF IInv, SharedLink, Shared, N
  <2> QED BY <2>3, <2>4, <2>5 DEF IInv
<1> QED BY <1>1, <1>2, <1>3

LEMMA OtherLinks ==
  ASSUME IInv, Pause \/ ClientGone \/ ListChanges \/ UNCHANGED vars
  PROVE  IInv'
<1>1. UNCHANGED <<req, data, i, link, queued>>
  BY DEF Pause, ClientGone, ListChanges, vars
<1>2. pc' = pc \/ (pc = "pause" /\ pc' = "check")
  BY DEF Pause, ClientGone, ListChanges, vars
<1>3. pc = "pause" => i <= N
  BY DEF IInv, Types
<1>4. Types'
  BY <1>1, <1>2, <1>3 DEF IInv, Types, N
<1>5. OwnLinks' /\ SharedLink'
  BY <1>1, <1>2 DEF IInv, OwnLinks, SharedLink, Shared, N
<1> QED BY <1>4, <1>5 DEF IInv

-----------------------------------------------------------------------------
\* A recipient of a bulk email gets an unsubscribe link that is his own or the
\* caller's, except in SendBulk with template data, where everybody gets the
\* link of one recipient (email.go:79-86, 221 and 266-282).
THEOREM WhoseLink == Spec => []LinksExplained
<1>1. Init => IInv
  BY InitLinks
<1>2. IInv /\ [Next]_vars => IInv'
  <2> SUFFICES ASSUME IInv, [Next]_vars PROVE IInv'
    OBVIOUS
  <2>1. CASE Queued
    BY <2>1, QueueLinks DEF Queued
  <2>2. CASE Failed
    BY <2>2, QueueLinks DEF Failed
  <2> QED BY <2>1, <2>2, SkipLinks, WriteLinks, CrashLinks, OtherLinks DEF Next
<1>3. IInv => LinksExplained
  BY LinksFromInvariant
<1> QED BY <1>1, <1>2, <1>3, PTL DEF Spec

-----------------------------------------------------------------------------
(* What the loop counts, and where it rests *)

Links == {Nil, NoLink, CallersLink} \union Addresses

\* Everything the loop has written is about recipients it has passed.
Passed ==
  /\ req \in BulkRequests
  /\ i \in 1 .. N + 1
  /\ pc \in {"check", "create", "pause", "done", "crashed"}
  /\ pc \in {"check", "create", "pause"} => i <= N
  /\ pc = "pause" => i > 1
  /\ data \in Links /\ link \in Links
  /\ ctx \in {"live", "ended"} /\ suppressed \subseteq Addresses
  /\ ids \in Seq(Nat) /\ \A n \in DOMAIN ids : ids[n] \in 0..N /\ ids[n] < i
  /\ \A n \in errors : n \in 1..N /\ n < i
  /\ \A n \in DOMAIN queued : n \in 1..N /\ (n < i \/ (n = i /\ pc = "crashed"))
  /\ \A n \in rested : n \in 1..N /\ n < i

\* After each full batch but the last the loop sleeps, unless it had an error.
Throttle == ThrottledUnlessError

LoopInv == Passed /\ CountExplained /\ Throttle

LEMMA PassedTypes == Passed => TypeOK /\ N \in Nat /\ i \in Nat /\ i >= 1
<1> SUFFICES ASSUME Passed PROVE TypeOK /\ N \in Nat /\ i \in Nat /\ i >= 1
  OBVIOUS
<1>1. N \in Nat /\ i \in 1 .. N + 1
  BY RequestTypes DEF Passed
<1> QED BY <1>1 DEF Passed, TypeOK, Links

LEMMA InitLoop == Init => LoopInv
<1> SUFFICES ASSUME Init PROVE LoopInv
  OBVIOUS
<1>1. req \in BulkRequests /\ N \in Nat /\ N >= 1
  <2>1. req \in BulkRequests
    BY DEF Init
  <2>2. N >= 1
    BY BulkAssumption DEF Init, BulkRequests, N
  <2> QED BY <2>1, <2>2, RequestTypes
<1>2. Passed
  <2>1. data \in Links /\ link \in Links
    BY <1>1, RequestTypes DEF Init, Links
  <2> QED BY <1>1, <2>1 DEF Init, Passed
<1>3. CountExplained
  <2>1. Cardinality(errors) = 0
    BY FS_EmptySet DEF Init
  <2> QED BY <2>1 DEF Init, CountExplained, TotalQueued, Counted
<1>4. Throttle
  <2>1. Tried = {}
    BY <1>1, RequestTypes DEF Init, Tried
  <2> QED BY <2>1 DEF Throttle, ThrottledUnlessError
<1> QED BY <1>2, <1>3, <1>4 DEF LoopInv

\* Appending an id to the list.
LEMMA AppendId ==
  ASSUME NEW s \in Seq(Nat), NEW x \in Nat, NEW t, t = Append(s, x)
  PROVE  /\ t \in Seq(Nat) /\ Len(t) = Len(s) + 1 /\ Len(s) \in Nat
         /\ DOMAIN s = 1 .. Len(s) /\ DOMAIN t = 1 .. Len(s) + 1
         /\ t[Len(s) + 1] = x
         /\ \A n \in DOMAIN s : t[n] = s[n] /\ s[n] \in Nat
         /\ \A n \in DOMAIN t : n \in DOMAIN s \/ n = Len(s) + 1
  OBVIOUS

\* The loop goes on to the next recipient.
LEMMA Advance ==
  ASSUME Passed, pc \in {"check", "create"}, ThrottleOrGoOn \/ Continue, UNCHANGED req
  PROVE  /\ N \in Nat /\ N' = N /\ i \in 1..N /\ i' = i + 1 /\ i' \in 1 .. N + 1
         /\ pc' \in {"check", "pause", "done"} /\ (pc' # "done" => i' <= N) /\ i' > 1
         /\ Tried' = Tried \union {i}
<1>1. N \in Nat /\ N' = N /\ i \in 1..N /\ DOMAIN req.to = 1..N
  BY PassedTypes, RequestTypes DEF Passed, N
<1>2. i' = i + 1 /\ pc' \in {"check", "pause", "done"} /\ (pc' # "done" => i < N)
  BY DEF ThrottleOrGoOn, Continue
<1>3. Tried' = Tried \union {i}
  BY <1>1, <1>2 DEF Tried
<1> QED BY <1>1, <1>2, <1>3

LEMMA ErrorsFinite ==
  ASSUME Passed
  PROVE  IsFiniteSet(errors) /\ Cardinality(errors) \in Nat
<1>1. N \in Nat /\ errors \subseteq 1..N
  BY PassedTypes DEF Passed
<1>2. IsFiniteSet(1..N)
  <2>1. 1 \in Int /\ N \in Int
    BY <1>1
  <2> QED BY <2>1, FS_Interval, Zenon
<1>3. IsFiniteSet(errors)
  BY <1>1, <1>2, FS_Subset, Zenon
<1> QED BY <1>3, FS_CardinalityType

\* The recipient is counted, with its email's id or with uuid.Nil.
LEMMA PassCounted ==
  ASSUME LoopInv, pc \in {"check", "create"},
         UNCHANGED <<req, data, link, ctx, suppressed, errors, rested>>, ThrottleOrGoOn,
         NEW x \in {0, i}, ids' = Append(ids, x),
         DOMAIN queued' = DOMAIN queued \union ({x} \ {0})
  PROVE  LoopInv'
<1>1. Passed /\ N \in Nat /\ N' = N /\ i \in 1..N /\ i' = i + 1 /\ i' \in 1 .. N + 1
      /\ pc' \in {"check", "pause", "done"} /\ (pc' # "done" => i' <= N) /\ i' > 1
      /\ Tried' = Tried \union {i}
  BY Advance DEF LoopInv
<1>2. ids \in Seq(Nat) /\ x \in Nat /\ x \in 0..N /\ x < i'
      /\ \A n \in DOMAIN ids : ids[n] \in 0..N /\ ids[n] < i
  BY <1>1 DEF Passed
<1>3. /\ ids' \in Seq(Nat) /\ Len(ids') = Len(ids) + 1 /\ Len(ids) \in Nat
      /\ DOMAIN ids = 1 .. Len(ids) /\ DOMAIN ids' = 1 .. Len(ids) + 1
      /\ ids'[Len(ids) + 1] = x
      /\ \A n \in DOMAIN ids : ids'[n] = ids[n]
      /\ \A n \in DOMAIN ids' : n \in DOMAIN ids \/ n = Len(ids) + 1
  BY <1>2, AppendId
<1>4. Passed'
  <2>1. \A n \in DOMAIN ids' : ids'[n] \in 0..N /\ ids'[n] < i'
    BY <1>1, <1>2, <1>3
  <2>2. \A n \in errors \union rested : n \in 1..N /\ n < i'
    BY <1>1 DEF Passed
  <2>3. \A n \in DOMAIN queued' : n \in 1..N /\ n < i'
    BY <1>1 DEF Passed
  <2> QED BY <1>1, <1>3, <2>1, <2>2, <2>3 DEF Passed
<1>5. CountExplained'
  <2>1. Cardinality(errors) \in Nat
    BY <1>1, ErrorsFinite
  <2>2. TotalQueued' + Cardinality(errors') = i' - 1
    <3>1. Len(ids) + Cardinality(errors) = i - 1
      BY DEF LoopInv, CountExplained, TotalQueued
    <3>2. Cardinality(errors') = Cardinality(errors)
      OBVIOUS
    <3>3. Len(ids') = Len(ids) + 1 /\ Len(ids) \in Nat
      BY <1>3
    <3> QED BY <1>1, <2>1, <3>1, <3>2, <3>3 DEF TotalQueued
  <2>3. Counted' = Counted \union ({x} \ {0})
    <3>1. {ids'[n] : n \in DOMAIN ids'} = {ids[n] : n \in DOMAIN ids} \union {x}
      BY <1>3
    <3> QED BY <3>1 DEF Counted
  <2>4. ASSUME NEW m \in DOMAIN ids', NEW n \in DOMAIN ids', m < n, ids'[m] # 0, ids'[n] # 0
        PROVE  ids'[m] < ids'[n]
    <3>1. m \in DOMAIN ids
      BY <1>3, <2>4
    <3>2. CASE n \in DOMAIN ids
      BY <1>3, <2>4, <3>1, <3>2 DEF LoopInv, CountExplained
    <3>3. CASE n = Len(ids) + 1
      BY <1>1, <1>2, <1>3, <2>4, <3>1, <3>3
    <3> QED BY <1>3, <3>2, <3>3
  <2> QED BY <2>2, <2>3, <2>4 DEF LoopInv, CountExplained
<1>6. Throttle'
  <2> SUFFICES ASSUME NEW n \in Tried', n % BatchSize = 0, n < N
               PROVE  n \in rested \/ n \in errors \/ (n = i' - 1 /\ pc' \in {"pause", "crashed"})
    BY <1>1 DEF Throttle, ThrottledUnlessError
  <2>1. CASE n = i
    BY <1>1, <2>1 DEF ThrottleOrGoOn
  <2>2. CASE n \in Tried
    BY <1>1, <2>2 DEF LoopInv, Throttle, ThrottledUnlessError
  <2> QED BY <1>1, <2>1, <2>2
<1> QED BY <1>4, <1>5, <1>6 DEF LoopInv

\* The recipient's error is logged; the queue may have its task all the same.
LEMMA PassFailed ==
  ASSUME LoopInv, pc \in {"check", "create"},
         UNCHANGED <<req, data, link, ctx, suppressed, ids, rested>>, Continue,
         errors' = errors \union {i}, Queue \/ UNCHANGED queued
  PROVE  LoopInv'
<1>1. Passed /\ N \in Nat /\ N' = N /\ i \in 1..N /\ i' = i + 1 /\ i' \in 1 .. N + 1
      /\ pc' \in {"check", "pause", "done"} /\ (pc' # "done" => i' <= N) /\ i' > 1
      /\ Tried' = Tried \union {i}
  BY Advance DEF LoopInv
<1>2. DOMAIN queued' = DOMAIN queued \union {i} \/ queued' = queued
  BY DEF Queue
<1>3. Passed'
  <2>1. \A n \in DOMAIN ids : ids[n] \in 0..N /\ ids[n] < i'
    BY <1>1 DEF Passed
  <2>2. \A n \in errors' \union rested : n \in 1..N /\ n < i'
    BY <1>1 DEF Passed
  <2>3. \A n \in DOMAIN queued' : n \in 1..N /\ n < i'
    BY <1>1, <1>2 DEF Passed
  <2> QED BY <1>1, <2>1, <2>2, <2>3 DEF Passed
<1>4. CountExplained'
  <2>1. i \notin errors /\ IsFiniteSet(errors)
    <3>1. i \notin errors
      BY <1>1 DEF Passed
    <3> QED BY <1>1, <3>1, ErrorsFinite
  <2>2. Cardinality(errors') = Cardinality(errors) + 1
    BY <2>1, FS_AddElement
  <2>3. Cardinality(errors) \in Nat /\ Len(ids) \in Nat
    BY <1>1, <2>1, FS_CardinalityType DEF Passed
  <2>4. TotalQueued' + Cardinality(errors') = i' - 1
    BY <1>1, <2>2, <2>3 DEF LoopInv, CountExplained, TotalQueued
  <2>5. Counted' = Counted
    BY DEF Counted
  <2> QED BY <1>2, <2>4, <2>5 DEF LoopInv, CountExplained
<1>5. Throttle'
  BY <1>1 DEF LoopInv, Throttle, ThrottledUnlessError
<1> QED BY <1>3, <1>4, <1>5 DEF LoopInv

\* The link that Send writes or finds is a link.
LEMMA WriteLoop ==
  ASSUME LoopInv, NotSuppressed
  PROVE  LoopInv'
<1>1. /\ UNCHANGED <<req, i, ctx, suppressed, ids, errors, queued, rested>>
      /\ pc = "check" /\ pc' = "create" /\ WriteLink
  BY DEF NotSuppressed
<1>2. N \in Nat /\ i \in 1..N /\ N' = N
  BY <1>1, PassedTypes DEF LoopInv, Passed, N
<1>3. req.to[i] \in Addresses /\ req.own[i] \in {NoLink, CallersLink}
  BY <1>2, RequestTypes DEF LoopInv, Passed
<1>4. Given \in Links
  BY <1>3 DEF Given, Merged, LoopInv, Passed, Links
<1>5. data' \in Links /\ link' \in Links
  BY <1>1, <1>3, <1>4 DEF WriteLink, LoopInv, Passed, Links
<1>6. Passed'
  BY <1>1, <1>2, <1>5 DEF LoopInv, Passed
<1>7. CountExplained' /\ Throttle'
  BY <1>1, <1>2 DEF LoopInv, CountExplained, TotalQueued, Counted, Throttle,
                    ThrottledUnlessError, Tried
<1> QED BY <1>6, <1>7 DEF LoopInv

\* The process dies, perhaps with the email in the queue and not counted.
LEMMA CrashLoop ==
  ASSUME LoopInv, Crash
  PROVE  LoopInv'
<1>1. /\ UNCHANGED <<req, data, i, link, ctx, suppressed, ids, errors, rested>> /\ N' = N
      /\ pc \in {"check", "create", "pause"} /\ pc' = "crashed"
      /\ Queue \/ UNCHANGED queued
  BY DEF Crash, N
<1>2. N \in Nat /\ i \in 1..N
  BY <1>1, PassedTypes DEF LoopInv, Passed
<1>3. DOMAIN queued' \subseteq DOMAIN queued \union {i} /\ DOMAIN queued \subseteq DOMAIN queued'
  BY <1>1 DEF Queue
<1>4. Passed'
  <2>1. \A n \in DOMAIN queued' : n \in 1..N /\ (n < i \/ n = i)
    BY <1>2, <1>3 DEF LoopInv, Passed
  <2> QED BY <1>1, <2>1 DEF LoopInv, Passed
<1>5. CountExplained'
  BY <1>1, <1>3 DEF LoopInv, CountExplained, TotalQueued, Counted
<1>6. Throttle'
  BY <1>1 DEF LoopInv, Throttle, ThrottledUnlessError, Tried
<1> QED BY <1>4, <1>5, <1>6 DEF LoopInv

LEMMA OtherLoop ==
  ASSUME LoopInv, Pause \/ ClientGone \/ ListChanges \/ UNCHANGED vars
  PROVE  LoopInv'
<1>1. UNCHANGED <<req, data, i, link, ids, errors, queued>> /\ N' = N
  BY DEF Pause, ClientGone, ListChanges, vars, N
<1>2. /\ N \in Nat /\ i \in Nat /\ i >= 1
      /\ pc \in {"check", "create", "pause", "done", "crashed"}
      /\ pc \in {"check", "create", "pause"} => i <= N
      /\ pc = "pause" => i > 1
  BY PassedTypes DEF LoopInv, Passed
<1>3. \/ pc' = pc /\ rested' = rested
      \/ pc = "pause" /\ pc' = "check" /\ rested' = rested \union {i - 1}
  BY DEF Pause, ClientGone, ListChanges, vars
<1>4. ctx' \in {"live", "ended"} /\ suppressed' \subseteq Addresses
  <2>1. ctx \in {"live", "ended"} /\ suppressed \subseteq Addresses
    BY DEF LoopInv, Passed
  <2> QED BY <2>1 DEF Pause, ClientGone, ListChanges, vars
<1>5. Passed'
  <2>1. \A n \in rested' : n \in 1..N /\ n < i
    BY <1>2, <1>3 DEF LoopInv, Passed
  <2> QED BY <1>1, <1>2, <1>3, <1>4, <2>1 DEF LoopInv, Passed
<1>6. CountExplained'
  BY <1>1, <1>3 DEF LoopInv, CountExplained, TotalQueued, Counted
<1>7. Throttle'
  <2> SUFFICES ASSUME NEW n \in Tried, n % BatchSize = 0, n < N
               PROVE  n \in rested' \/ n \in errors \/ (n = i - 1 /\ pc' \in {"pause", "crashed"})
    BY <1>1 DEF Throttle, ThrottledUnlessError, Tried
  <2>1. n \in rested \/ n \in errors \/ (n = i - 1 /\ pc \in {"pause", "crashed"})
    BY DEF LoopInv, Throttle, ThrottledUnlessError
  <2>2. pc = "crashed" => pc' = "crashed"
    BY <1>3
  <2> QED BY <1>3, <2>1, <2>2
<1> QED BY <1>5, <1>6, <1>7 DEF LoopInv

-----------------------------------------------------------------------------
\* The inductive invariant of the loop of SendBulk and SendBulkPersonalized:
\* what it has written is about the recipients before i, each of which it
\* counted or had an error for, and it rested after each batch.
THEOREM LoopHolds == Spec => []LoopInv
<1>1. LoopInv /\ [Next]_vars => LoopInv'
  <2> SUFFICES ASSUME LoopInv, [Next]_vars PROVE LoopInv'
    OBVIOUS
  <2>1. CASE SkipSuppressed
    <3>1. DOMAIN queued' = DOMAIN queued \union ({0} \ {0})
      BY <2>1 DEF SkipSuppressed
    <3> QED BY <2>1, <3>1, PassCounted DEF SkipSuppressed
  <2>2. CASE Queued
    <3>1. i >= 1
      BY PassedTypes DEF LoopInv
    <3>2. DOMAIN queued' = DOMAIN queued \union ({i} \ {0})
      BY <2>2, <3>1 DEF Queued, Queue
    <3> QED BY <2>2, <3>2, PassCounted DEF Queued
  <2>3. CASE Failed
    BY <2>3, PassFailed DEF Failed
  <2> QED BY <2>1, <2>2, <2>3, WriteLoop, CrashLoop, OtherLoop DEF Next
<1> QED BY InitLoop, <1>1, PTL DEF Spec

\* Every variable of a bulk request keeps its type.
THEOREM BulkTypes == Spec => []TypeOK
<1>1. LoopInv => TypeOK
  BY PassedTypes DEF LoopInv
<1> QED BY <1>1, LoopHolds, PTL

\* The count and the ids that a bulk request answers are explained by what was
\* queued, for any number of recipients, errors and skips (email.go:219-260).
THEOREM Counts == Spec => []CountExplained
<1>1. LoopInv => CountExplained
  BY DEF LoopInv
<1> QED BY <1>1, LoopHolds, PTL

\* For any batch size the loop sleeps after each full batch but the last,
\* unless the batch ended with an error.
THEOREM Rests == Spec => []ThrottledUnlessError
<1>1. LoopInv => ThrottledUnlessError
  BY DEF LoopInv, Throttle
<1> QED BY <1>1, LoopHolds, PTL
=============================================================================
