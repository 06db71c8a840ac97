----------------------------- MODULE RateLimiter -----------------------------
(* The in-memory rate limiter of the API (middleware/rate_limit.go): Allow,    *)
(* called by every request, and the goroutine that clears old entries.  Both   *)
(* hold the mutex for all they do, and read the clock while they hold it, so   *)
(* each is one step and sees the clock never go back.                          *)
EXTENDS Integers, Sequences, FiniteSets

CONSTANTS
  Keys,      \* API keys or client addresses
  Limit,     \* the arguments of NewRateLimiter
  Window,
  Minute,    \* time.Minute in units of the clock
  MaxTime,   \* bound on the clock
  NoAnswer   \* no request was answered yet

ASSUME LimitsAssumption == Limit \in Int /\ Window \in Int
ASSUME MinuteAssumption == Minute \in Nat \ {0}

\* NewRateLimiter replaces a limit or a window that is not positive.
limit == IF Limit <= 0 THEN 100 ELSE Limit
window == IF Window <= 0 THEN Minute ELSE Window
CleanupEvery == 5 * Minute

VARIABLES
  clock,     \* the monotonic clock
  requests,  \* the map of the limiter: the entries it keeps for a key
  nextTick,  \* when the ticker fires next
  ticked,    \* a tick waits in the ticker's channel, which holds one
  cleaner,   \* the cleanup goroutine: in its select, about to clean, or gone
  done,      \* the channel done is closed
  admitted,  \* history: admitted[k][i] is the time of the i-th admitted request
  answer     \* history: the last answer

vars == <<clock, requests, nextTick, ticked, cleaner, done, admitted, answer>>

\* Mutant: an entry that is exactly one window old still counts.
ValidAtTheEdge(k, entries) == {i \in entries : admitted[k][i] >= clock - window}

\* An entry of requests[k] is the number i of the request whose time
\* admitted[k][i] it holds: the code looks at each entry alone and at their number.
Valid(k, entries) == {i \in entries : admitted[k][i] > clock - window}
Entries(k) == IF k \in DOMAIN requests THEN requests[k] ELSE {}

Init ==
  /\ clock = 0
  /\ requests = [k \in {} |-> {}]
  /\ nextTick = CleanupEvery
  /\ ticked = FALSE
  /\ cleaner = "select"
  /\ done = FALSE
  /\ admitted = [k \in Keys |-> <<>>]
  /\ answer = NoAnswer

\* requests[k] = entries
Store(k, entries) ==
  requests' = [j \in DOMAIN requests \union {k} |-> IF j = k THEN entries ELSE requests[j]]

Answer(k, allowed) == answer' = [key |-> k, at |-> clock, allowed |-> allowed]

Admit(k) ==
  LET valid == Valid(k, Entries(k)) IN
  /\ Cardinality(valid) < limit
  /\ admitted' = [admitted EXCEPT ![k] = Append(@, clock)]
  /\ Store(k, valid \union {Len(admitted[k]) + 1})
  /\ Answer(k, TRUE)

\* Mutant: a refused request counts too.
RefuseCounted(k) ==
  LET valid == Valid(k, Entries(k)) IN
  /\ Cardinality(valid) >= limit
  /\ Store(k, valid \union {Len(admitted[k]) + 1})
  /\ Answer(k, FALSE)
  /\ UNCHANGED admitted

Refuse(k) ==
  LET valid == Valid(k, Entries(k)) IN
  /\ Cardinality(valid) >= limit
  /\ Store(k, valid)
  /\ Answer(k, FALSE)
  /\ UNCHANGED admitted

Allow(k) ==
  /\ Admit(k) \/ Refuse(k)
  /\ UNCHANGED <<clock, nextTick, ticked, cleaner, done>>

\* Time passes; the ticker drops a tick that finds its channel full.
Pass ==
  /\ clock < MaxTime
  /\ clock' = clock + 1
  /\ IF clock' = nextTick
       THEN ticked' = TRUE /\ nextTick' = nextTick + CleanupEvery
       ELSE UNCHANGED <<ticked, nextTick>>
  /\ UNCHANGED <<requests, cleaner, done, admitted, answer>>

TakeTick ==
  /\ cleaner = "select" /\ ticked
  /\ ticked' = FALSE
  /\ cleaner' = "clean"
  /\ UNCHANGED <<clock, requests, nextTick, done, admitted, answer>>

\* Mutant: the entries go, their keys stay in the map.
CleanupKeepsKeys ==
  /\ cleaner = "clean"
  /\ requests' = [k \in DOMAIN requests |-> Valid(k, requests[k])]
  /\ cleaner' = "select"
  /\ UNCHANGED <<clock, nextTick, ticked, done, admitted, answer>>

\* Mutant: the cleanup drops the keys it has something to clean of.
CleanupForgetsKeys ==
  /\ cleaner = "clean"
  /\ requests' = [k \in {j \in DOMAIN requests : Valid(j, requests[j]) = requests[j]} |-> requests[k]]
  /\ cleaner' = "select"
  /\ UNCHANGED <<clock, nextTick, ticked, done, admitted, answer>>

Cleanup ==
  /\ cleaner = "clean"
  /\ requests' = [k \in {j \in DOMAIN requests : Valid(j, requests[j]) # {}}
                    |-> Valid(k, requests[k])]
  /\ cleaner' = "select"
  /\ UNCHANGED <<clock, nextTick, ticked, done, admitted, answer>>

\* Closing a second time panics: callers do it once.
Close ==
  /\ ~done
  /\ done' = TRUE
  /\ UNCHANGED <<clock, requests, nextTick, ticked, cleaner, admitted, answer>>

\* select may take the tick or the closed channel when both are ready.
StopCleanup ==
  /\ cleaner = "select" /\ done
  /\ cleaner' = "stopped"
  /\ UNCHANGED <<clock, requests, nextTick, ticked, done, admitted, answer>>

Next ==
  \/ \E k \in Keys : Allow(k)
  \/ Pass
  \/ TakeTick \/ Cleanup
  \/ Close \/ StopCleanup

Spec == Init /\ [][Next]_vars

-----------------------------------------------------------------------------
\* Every variable has its type; the limiter keeps entries of admitted requests only.
TypeOK ==
  /\ clock \in Nat
  /\ DOMAIN requests \subseteq Keys
  /\ admitted \in [Keys -> Seq(Nat)]
  /\ \A k \in DOMAIN requests : requests[k] \subseteq DOMAIN admitted[k]
  /\ nextTick \in Nat
  /\ ticked \in BOOLEAN
  /\ cleaner \in {"select", "clean", "stopped"}
  /\ done \in BOOLEAN

\* No period as long as the window, wherever it begins, holds more than limit
\* admitted requests of a key, whatever Allow and cleanup dropped in between:
\* "sliding window" (rate_limit.go:11).
LimitHolds ==
  \A k \in Keys : \A i \in DOMAIN admitted[k] :
    i + limit <= Len(admitted[k]) => admitted[k][i + limit] - admitted[k][i] >= window

\* While the cleanup keeps up with its ticker, a key that has been idle for a
\* window before the last tick is no longer in the map: "to prevent unbounded
\* memory growth" (rate_limit.go:36).
IdleKeysForgotten ==
  cleaner = "select" /\ ~ticked =>
    \A k \in DOMAIN requests :
      \E i \in requests[k] : admitted[k][i] > nextTick - CleanupEvery - window

\* The limiter admits and refuses exactly as one that forgets nothing: neither
\* the trimming in Allow nor the cleanup changes an answer.
SW == INSTANCE SlidingWindow WITH Limit <- limit, Window <- window
ImplementsSlidingWindow == SW!Spec
=============================================================================
