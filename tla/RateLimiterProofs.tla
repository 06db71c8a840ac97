-------------------------- MODULE RateLimiterProofs --------------------------
(* Proofs about RateLimiter, for any keys, limit, window and length of time.   *)
EXTENDS RateLimiter, FiniteSetTheorems, TLAPS

\* Requests are admitted in the order of their times, none in the future.
InOrder ==
  \A k \in Keys : \A j \in DOMAIN admitted[k] :
    /\ admitted[k][j] <= clock
    /\ \A i \in 1..j : admitted[k][i] <= admitted[k][j]

\* Nothing that still counts was dropped.
Kept ==
  \A k \in Keys : \A i \in DOMAIN admitted[k] :
    admitted[k][i] > clock - window => k \in DOMAIN requests /\ i \in requests[k]

TickInOrder == nextTick - CleanupEvery <= clock /\ clock < nextTick

\* What LimitHolds and IdleKeysForgotten need in order to be inductive.
IInv == TypeOK /\ InOrder /\ Kept /\ TickInOrder

LEMMA Parameters ==
  /\ limit \in Nat \ {0}
  /\ window \in Nat \ {0}
  /\ CleanupEvery \in Nat \ {0}
  BY LimitsAssumption, MinuteAssumption DEF limit, window, CleanupEvery

\* The entries that Allow counts are all those the window contains.
LEMMA SameWindow ==
  ASSUME IInv, NEW k \in Keys
  PROVE  Valid(k, Entries(k)) = SW!InWindow(k)
<1>1. CASE k \in DOMAIN requests
  BY <1>1 DEF IInv, TypeOK, Kept, Valid, Entries, SW!InWindow
<1>2. CASE k \notin DOMAIN requests
  BY <1>2 DEF IInv, TypeOK, Kept, Valid, Entries, SW!InWindow
<1> QED BY <1>1, <1>2

LEMMA InitInv == Init => IInv /\ LimitHolds /\ IdleKeysForgotten
<1> SUFFICES ASSUME Init PROVE IInv /\ LimitHolds /\ IdleKeysForgotten
  OBVIOUS
<1> USE Parameters DEF Init
<1>1. TypeOK
  <2>1. DOMAIN requests = {}
    OBVIOUS
  <2>2. admitted \in [Keys -> Seq(Nat)]
    OBVIOUS
  <2>3. clock \in Nat /\ nextTick \in Nat
    OBVIOUS
  <2> QED BY <2>1, <2>2, <2>3 DEF TypeOK
<1>2. InOrder /\ Kept /\ LimitHolds
  BY DEF InOrder, Kept, LimitHolds
<1>3. TickInOrder /\ IdleKeysForgotten
  BY DEF TickInOrder, IdleKeysForgotten
<1> QED BY <1>1, <1>2, <1>3 DEF IInv

\* What Store leaves in the map.
LEMMA Stored ==
  ASSUME NEW k, NEW entries, Store(k, entries)
  PROVE  /\ DOMAIN requests' = DOMAIN requests \union {k}
         /\ requests'[k] = entries
         /\ \A j \in DOMAIN requests \ {k} : requests'[j] = requests[j]
  BY DEF Store

\* Admitting a request appends its time.
LEMMA Appended ==
  ASSUME TypeOK, NEW k \in Keys,
         admitted' = [admitted EXCEPT ![k] = Append(@, clock)]
  PROVE  /\ admitted' \in [Keys -> Seq(Nat)]
         /\ Len(admitted'[k]) = Len(admitted[k]) + 1
         /\ DOMAIN admitted'[k] = 1 .. Len(admitted[k]) + 1
         /\ DOMAIN admitted[k] = 1 .. Len(admitted[k])
         /\ admitted'[k][Len(admitted[k]) + 1] = clock
         /\ \A i \in 1 .. Len(admitted[k]) : admitted'[k][i] = admitted[k][i]
         /\ \A j \in Keys \ {k} : admitted'[j] = admitted[j]
<1>1. admitted[k] \in Seq(Nat) /\ clock \in Nat
  BY DEF TypeOK
<1>2. admitted'[k] = Append(admitted[k], clock)
  BY DEF TypeOK
<1> QED BY <1>1, <1>2 DEF TypeOK

-----------------------------------------------------------------------------
(* Allow *)

\* Admitting needs fewer than limit requests in the window, so the request
\* that came limit requests earlier has left it.
LEMMA AdmitSpaced ==
  ASSUME IInv, NEW k \in Keys, Cardinality(Valid(k, Entries(k))) < limit,
         Len(admitted[k]) + 1 - limit \in DOMAIN admitted[k]
  PROVE  clock - admitted[k][Len(admitted[k]) + 1 - limit] >= window
<1> DEFINE n == Len(admitted[k])
           first == n + 1 - limit
<1>1. n \in Nat /\ DOMAIN admitted[k] = 1..n /\ clock \in Nat
      /\ \A i \in 1..n : admitted[k][i] \in Nat
  BY DEF IInv, TypeOK
<1>2. SUFFICES ASSUME admitted[k][first] > clock - window PROVE FALSE
  BY <1>1, Parameters
<1>3. first \in Int /\ first >= 1 /\ first <= n
  BY <1>1, Parameters
<1>4. first..n \subseteq SW!InWindow(k)
  <2> SUFFICES ASSUME NEW i \in first..n PROVE i \in SW!InWindow(k)
    OBVIOUS
  <2>1. i \in 1..n /\ first \in 1..i
    BY <1>1, <1>3
  <2>2. admitted[k][first] <= admitted[k][i]
    BY <1>1, <2>1 DEF IInv, InOrder
  <2>3. admitted[k][i] > clock - window
    <3>1. admitted[k][i] \in Nat /\ admitted[k][first] \in Nat
      BY <1>1, <1>3, <2>1
    <3> HIDE DEF first, n
    <3> QED BY <1>1, <1>2, <2>2, <3>1, Parameters
  <2> HIDE DEF first
  <2> QED BY <1>1, <2>1, <2>3 DEF SW!InWindow
<1>5. IsFiniteSet(SW!InWindow(k))
  <2>1. SW!InWindow(k) \in SUBSET (1..n)
    BY <1>1 DEF SW!InWindow
  <2>2. IsFiniteSet(1..n)
    BY <1>1, FS_Interval
  <2> HIDE DEF n
  <2> QED BY <2>1, <2>2, FS_Subset
<1>6. Cardinality(first..n) = limit
  BY <1>1, <1>3, FS_Interval, Parameters
<1>7. limit <= Cardinality(SW!InWindow(k))
  BY <1>4, <1>5, <1>6, FS_Subset
<1>8. Cardinality(SW!InWindow(k)) \in Nat
  BY <1>5, FS_CardinalityType
<1> QED BY <1>7, <1>8, SameWindow, Parameters

LEMMA AdmitStep ==
  ASSUME IInv, LimitHolds, IdleKeysForgotten, NEW k \in Keys,
         Admit(k), UNCHANGED <<clock, nextTick, ticked, cleaner, done>>
  PROVE  IInv' /\ LimitHolds' /\ IdleKeysForgotten'
<1> DEFINE n == Len(admitted[k])
           valid == Valid(k, Entries(k))
<1>1. /\ Cardinality(valid) < limit
      /\ admitted' = [admitted EXCEPT ![k] = Append(@, clock)]
      /\ Store(k, valid \union {n + 1})
  BY DEF Admit
<1>2. TypeOK /\ InOrder /\ Kept /\ TickInOrder
  BY DEF IInv
<1>3. n \in Nat /\ clock \in Nat /\ admitted \in [Keys -> Seq(Nat)]
  BY <1>2 DEF TypeOK
<1>4. valid \subseteq 1..n
  BY <1>2 DEF TypeOK, Valid, Entries
<1>5. /\ DOMAIN requests' = DOMAIN requests \union {k}
      /\ requests'[k] = valid \union {n + 1}
      /\ \A j \in DOMAIN requests \ {k} : requests'[j] = requests[j]
  <2> HIDE DEF valid, n
  <2> QED BY <1>1, Stored
<1>6. TypeOK'
  <2>1. \A j \in DOMAIN requests' : requests'[j] \subseteq DOMAIN admitted'[j]
    <3> SUFFICES ASSUME NEW j \in DOMAIN requests'
                 PROVE  requests'[j] \subseteq DOMAIN admitted'[j]
      OBVIOUS
    <3>1. CASE j = k
      BY <3>1, <1>1, <1>2, <1>3, <1>4, <1>5, Appended
    <3>2. CASE j # k
      BY <3>2, <1>1, <1>2, <1>5, Appended DEF TypeOK
    <3> QED BY <3>1, <3>2
  <2> QED BY <2>1, <1>1, <1>2, <1>5, Appended DEF TypeOK
<1>7. InOrder'
  <2> SUFFICES ASSUME NEW j \in Keys, NEW b \in DOMAIN admitted'[j]
               PROVE  /\ admitted'[j][b] <= clock
                      /\ \A a \in 1..b : admitted'[j][a] <= admitted'[j][b]
    BY DEF InOrder
  <2>1. CASE j # k
    BY <2>1, <1>1, <1>2, Appended DEF InOrder
  <2>2. CASE j = k
    <3>1. /\ DOMAIN admitted'[k] = 1..n+1 /\ DOMAIN admitted[k] = 1..n
          /\ admitted'[k][n + 1] = clock
          /\ \A i \in 1..n : admitted'[k][i] = admitted[k][i] /\ admitted[k][i] \in Nat
      BY <1>1, <1>2, <1>3, Appended
    <3>2. \A i \in 1..n : admitted[k][i] <= clock
      BY <3>1, <1>2 DEF InOrder
    <3>3. CASE b = n + 1
      <4>1. \A a \in 1..b : a = n + 1 \/ a \in 1..n
        BY <3>3, <1>3
      <4> QED BY <2>2, <3>1, <3>2, <3>3, <4>1, <1>3
    <3>4. CASE b \in 1..n
      <4>1. \A a \in 1..b : a \in 1..n
        BY <3>4, <1>3
      <4> QED BY <2>2, <3>1, <3>2, <3>4, <4>1, <1>2 DEF InOrder
    <3> QED BY <2>2, <3>1, <3>3, <3>4, <1>3
  <2> QED BY <2>1, <2>2
<1>8. Kept'
  <2> SUFFICES ASSUME NEW j \in Keys, NEW i \in DOMAIN admitted'[j],
                      admitted'[j][i] > clock - window
               PROVE  j \in DOMAIN requests' /\ i \in requests'[j]
    BY DEF Kept
  <2>1. CASE j # k
    BY <2>1, <1>1, <1>2, <1>5, Appended DEF Kept
  <2>2. CASE j = k
    <3>1. i = n + 1 \/ i \in 1..n
      BY <2>2, <1>1, <1>2, <1>3, Appended
    <3>2. CASE i \in 1..n
      <4>1. i \in DOMAIN admitted[k] /\ admitted[k][i] > clock - window
        BY <2>2, <3>2, <1>1, <1>2, Appended
      <4>2. i \in valid
        BY <4>1, <1>2 DEF Kept, Valid, Entries
      <4> QED BY <2>2, <4>2, <1>5
    <3> QED BY <2>2, <3>1, <3>2, <1>5
  <2> QED BY <2>1, <2>2
<1>9. TickInOrder'
  BY <1>2 DEF TickInOrder, CleanupEvery
<1>10. LimitHolds'
  <2> SUFFICES ASSUME NEW j \in Keys, NEW i \in DOMAIN admitted'[j],
                      i + limit <= Len(admitted'[j])
               PROVE  admitted'[j][i + limit] - admitted'[j][i] >= window
    BY DEF LimitHolds
  <2>1. CASE j # k
    BY <2>1, <1>1, <1>2, Appended DEF LimitHolds
  <2>2. CASE j = k
    <3>1. /\ Len(admitted'[k]) = n + 1 /\ DOMAIN admitted'[k] = 1..n+1
          /\ DOMAIN admitted[k] = 1..n /\ admitted'[k][n + 1] = clock
          /\ \A m \in 1..n : admitted'[k][m] = admitted[k][m]
      BY <1>1, <1>2, Appended
    <3>2. i \in 1..n
      BY <2>2, <3>1, <1>3, Parameters
    <3>3. CASE i + limit <= n
      <4>1. i + limit \in 1..n
        BY <3>2, <3>3, <1>3, Parameters
      <4>2. admitted[k][i + limit] - admitted[k][i] >= window
        BY <3>1, <3>2, <3>3 DEF LimitHolds
      <4> QED BY <2>2, <3>1, <3>2, <4>1, <4>2
    <3>4. CASE i + limit = n + 1
      <4>1. i = n + 1 - limit
        BY <3>2, <3>4, <1>3, Parameters
      <4>2. clock - admitted[k][i] >= window
        BY <4>1, <3>1, <3>2, <1>1, AdmitSpaced
      <4> QED BY <2>2, <3>1, <3>2, <3>4, <4>2
    <3>5. i + limit <= n + 1
      BY <2>2, <3>1
    <3>6. i + limit <= n \/ i + limit = n + 1
      BY <3>2, <3>5, <1>3, Parameters
    <3> QED BY <3>3, <3>4, <3>6
  <2> QED BY <2>1, <2>2
<1>11. IdleKeysForgotten'
  <2> SUFFICES ASSUME cleaner = "select", ~ticked, NEW j \in DOMAIN requests'
               PROVE  \E i \in requests'[j] :
                        admitted'[j][i] > nextTick - CleanupEvery - window
    BY DEF IdleKeysForgotten, CleanupEvery
  <2>1. CASE j # k
    <3>1. j \in DOMAIN requests /\ j \in Keys /\ requests'[j] = requests[j]
      BY <2>1, <1>2, <1>5 DEF TypeOK
    <3>2. admitted'[j] = admitted[j]
      BY <2>1, <3>1, <1>1, <1>2, Appended
    <3> QED BY <3>1, <3>2 DEF IdleKeysForgotten
  <2>2. CASE j = k
    <3>1. admitted'[k][n + 1] = clock
      BY <1>1, <1>2, Appended
    <3>2. clock > nextTick - CleanupEvery - window
      BY <1>2, <1>3, Parameters DEF TickInOrder, TypeOK
    <3> QED BY <2>2, <3>1, <3>2, <1>5
  <2> QED BY <2>1, <2>2
<1> QED BY <1>6, <1>7, <1>8, <1>9, <1>10, <1>11 DEF IInv

\* What trimming an entry list to the window keeps.
LEMMA ValidFacts ==
  ASSUME NEW k, NEW entries
  PROVE  /\ Valid(k, entries) \subseteq entries
         /\ \A i \in entries : admitted[k][i] > clock - window => i \in Valid(k, entries)
         /\ \A i \in Valid(k, entries) : admitted[k][i] > clock - window
  BY DEF Valid

LEMMA RefuseStep ==
  ASSUME IInv, LimitHolds, IdleKeysForgotten, NEW k \in Keys,
         Refuse(k), UNCHANGED <<clock, nextTick, ticked, cleaner, done>>
  PROVE  IInv' /\ LimitHolds' /\ IdleKeysForgotten'
<1> DEFINE valid == Valid(k, Entries(k))
<1>1. Cardinality(valid) >= limit /\ Store(k, valid) /\ admitted' = admitted
  BY DEF Refuse
<1>2. TypeOK /\ InOrder /\ Kept /\ TickInOrder
  BY DEF IInv
<1>3. valid # {}
  BY <1>1, FS_EmptySet, Parameters
<1>4. k \in DOMAIN requests /\ Entries(k) = requests[k]
  BY <1>3 DEF Valid, Entries
<1>5. valid \subseteq requests[k] /\ \A i \in valid : admitted[k][i] > clock - window
  BY <1>4, ValidFacts
<1>6. /\ DOMAIN requests' = DOMAIN requests
      /\ requests'[k] = valid
      /\ \A j \in DOMAIN requests \ {k} : requests'[j] = requests[j]
  <2> HIDE DEF valid
  <2> QED BY <1>1, <1>4, Stored
<1> HIDE DEF valid
<1>7. TypeOK'
  <2>1. \A j \in DOMAIN requests' : requests'[j] \subseteq DOMAIN admitted[j]
    BY <1>2, <1>5, <1>6 DEF TypeOK
  <2> QED BY <2>1, <1>1, <1>2, <1>6 DEF TypeOK
<1>8. InOrder' /\ LimitHolds' /\ TickInOrder'
  BY <1>1, <1>2 DEF InOrder, LimitHolds, TickInOrder, CleanupEvery
<1>9. Kept'
  <2> SUFFICES ASSUME NEW j \in Keys, NEW i \in DOMAIN admitted[j],
                      admitted[j][i] > clock - window
               PROVE  j \in DOMAIN requests' /\ i \in requests'[j]
    BY <1>1 DEF Kept
  <2>1. j \in DOMAIN requests /\ i \in requests[j]
    BY <1>2 DEF Kept
  <2>2. CASE j = k
    BY <2>1, <2>2, <1>4, <1>6, ValidFacts DEF valid
  <2> QED BY <2>1, <2>2, <1>6
<1>10. IdleKeysForgotten'
  <2> SUFFICES ASSUME cleaner = "select", ~ticked, NEW j \in DOMAIN requests
               PROVE  \E i \in requests'[j] :
                        admitted[j][i] > nextTick - CleanupEvery - window
    BY <1>1, <1>6 DEF IdleKeysForgotten, CleanupEvery
  <2>1. CASE j # k
    BY <2>1, <1>6 DEF IdleKeysForgotten
  <2>2. CASE j = k
    <3>1. PICK i \in valid : TRUE
      BY <1>3
    <3>2. admitted[k][i] > clock - window /\ admitted[k][i] \in Nat
      BY <3>1, <1>2, <1>4, <1>5 DEF TypeOK
    <3>3. clock - window >= nextTick - CleanupEvery - window
      BY <1>2, Parameters DEF TickInOrder, TypeOK
    <3>4. admitted[k][i] > nextTick - CleanupEvery - window
      BY <3>2, <3>3, <1>2, Parameters DEF TypeOK
    <3> QED BY <2>2, <3>1, <3>4, <1>6
  <2> QED BY <2>1, <2>2
<1> QED BY <1>7, <1>8, <1>9, <1>10 DEF IInv

-----------------------------------------------------------------------------
(* The clock and the cleanup *)

LEMMA PassStep ==
  ASSUME IInv, LimitHolds, IdleKeysForgotten, Pass
  PROVE  IInv' /\ LimitHolds' /\ IdleKeysForgotten'
<1>1. TypeOK /\ InOrder /\ Kept /\ TickInOrder
  BY DEF IInv
<1>2. clock' = clock + 1 /\ UNCHANGED <<requests, cleaner, done, admitted>>
  BY DEF Pass
<1>3. \A k \in Keys : \A i \in DOMAIN admitted[k] : admitted[k][i] \in Nat
  BY <1>1 DEF TypeOK
<1>4. TypeOK'
  <2>1. clock' \in Nat
    BY <1>1, <1>2 DEF TypeOK
  <2>2. nextTick' = nextTick \/ nextTick' = nextTick + CleanupEvery
    BY DEF Pass
  <2>3. nextTick' \in Nat
    BY <2>2, <1>1, Parameters DEF TypeOK
  <2>4. ticked' = TRUE \/ ticked' = ticked
    BY DEF Pass
  <2>5. ticked' \in BOOLEAN
    BY <2>4, <1>1, Zenon DEF TypeOK
  <2> QED BY <2>1, <2>3, <2>5, <1>1, <1>2 DEF TypeOK
<1>5. InOrder'
  BY <1>1, <1>2, <1>3 DEF InOrder, TypeOK
<1>6. Kept'
  BY <1>1, <1>2, <1>3, Parameters DEF Kept, TypeOK
<1>7. TickInOrder'
  <2>1. CleanupEvery' = CleanupEvery
    BY DEF CleanupEvery
  <2> QED BY <2>1, <1>1, <1>2, Parameters DEF TickInOrder, TypeOK, Pass
<1>8. LimitHolds'
  BY <1>2 DEF LimitHolds
<1>9. IdleKeysForgotten'
  BY <1>2 DEF IdleKeysForgotten, CleanupEvery, Pass
<1> QED BY <1>4, <1>5, <1>6, <1>7, <1>8, <1>9 DEF IInv

LEMMA CleanupStep ==
  ASSUME IInv, LimitHolds, IdleKeysForgotten, Cleanup
  PROVE  IInv' /\ LimitHolds' /\ IdleKeysForgotten'
<1>1. TypeOK /\ InOrder /\ Kept /\ TickInOrder
  BY DEF IInv
<1>2. UNCHANGED <<clock, nextTick, ticked, done, admitted>> /\ cleaner' = "select"
  BY DEF Cleanup
<1>3. /\ DOMAIN requests' = {k \in DOMAIN requests : Valid(k, requests[k]) # {}}
      /\ \A k \in DOMAIN requests' : requests'[k] = Valid(k, requests[k])
  BY DEF Cleanup
<1>4. TypeOK'
  <2>1. DOMAIN requests' \subseteq Keys
    BY <1>1, <1>3 DEF TypeOK
  <2>2. \A k \in DOMAIN requests' : requests'[k] \subseteq DOMAIN admitted[k]
    BY <1>1, <1>3, ValidFacts DEF TypeOK
  <2> QED BY <2>1, <2>2, <1>1, <1>2 DEF TypeOK
<1>5. InOrder' /\ LimitHolds' /\ TickInOrder'
  BY <1>1, <1>2 DEF InOrder, LimitHolds, TickInOrder, CleanupEvery
<1>6. Kept'
  <2> SUFFICES ASSUME NEW k \in Keys, NEW i \in DOMAIN admitted[k],
                      admitted[k][i] > clock - window
               PROVE  k \in DOMAIN requests' /\ i \in requests'[k]
    BY <1>2 DEF Kept
  <2>1. k \in DOMAIN requests /\ i \in requests[k]
    BY <1>1 DEF Kept
  <2>2. i \in Valid(k, requests[k])
    BY <2>1, ValidFacts
  <2> QED BY <2>1, <2>2, <1>3
<1>7. IdleKeysForgotten'
  <2> SUFFICES ASSUME NEW k \in DOMAIN requests'
               PROVE  \E i \in requests'[k] :
                        admitted[k][i] > nextTick - CleanupEvery - window
    BY <1>2 DEF IdleKeysForgotten, CleanupEvery
  <2>1. k \in DOMAIN requests /\ requests'[k] = Valid(k, requests[k])
    BY <1>3
  <2>2. PICK i \in Valid(k, requests[k]) : TRUE
    BY <1>3
  <2>3. admitted[k][i] > clock - window /\ admitted[k][i] \in Nat
    BY <2>1, <2>2, <1>1, ValidFacts DEF TypeOK
  <2>4. clock - window >= nextTick - CleanupEvery - window
    BY <1>1, Parameters DEF TickInOrder, TypeOK
  <2>5. admitted[k][i] > nextTick - CleanupEvery - window
    BY <2>3, <2>4, <1>1, Parameters DEF TypeOK
  <2> QED BY <2>1, <2>2, <2>5
<1> QED BY <1>4, <1>5, <1>6, <1>7 DEF IInv

\* The steps of the goroutine that touch no entry.
LEMMA OtherStep ==
  ASSUME IInv, LimitHolds, IdleKeysForgotten,
         TakeTick \/ Close \/ StopCleanup \/ UNCHANGED vars
  PROVE  IInv' /\ LimitHolds' /\ IdleKeysForgotten'
<1>1. TypeOK /\ InOrder /\ Kept /\ TickInOrder
  BY DEF IInv
<1>2. UNCHANGED <<clock, requests, nextTick, admitted>>
  BY DEF TakeTick, Close, StopCleanup, vars
<1>3. TypeOK'
  BY <1>1, <1>2 DEF TypeOK, TakeTick, Close, StopCleanup, vars
<1>4. InOrder' /\ Kept' /\ LimitHolds' /\ TickInOrder'
  BY <1>1, <1>2 DEF InOrder, Kept, LimitHolds, TickInOrder, CleanupEvery
<1>5. IdleKeysForgotten'
  BY <1>2 DEF IdleKeysForgotten, TakeTick, Close, StopCleanup, vars, CleanupEvery
<1> QED BY <1>3, <1>4, <1>5 DEF IInv

LEMMA NextStep ==
  ASSUME IInv, LimitHolds, IdleKeysForgotten, [Next]_vars
  PROVE  IInv' /\ LimitHolds' /\ IdleKeysForgotten'
<1>1. ASSUME NEW k \in Keys, Allow(k)
      PROVE  IInv' /\ LimitHolds' /\ IdleKeysForgotten'
  BY <1>1, AdmitStep, RefuseStep DEF Allow
<1> QED BY <1>1, PassStep, CleanupStep, OtherStep DEF Next

-----------------------------------------------------------------------------
(* Theorems *)

\* The inductive invariant: every variable has its type, times are in order,
\* no entry that counts was dropped and no tick is overdue; and the two
\* properties of the limiter: no window of a key ever holds more than limit
\* admitted requests, and idle keys do not stay in memory.
THEOREM LimiterInvariant == Spec => [](IInv /\ LimitHolds /\ IdleKeysForgotten)
<1>1. Init => IInv /\ LimitHolds /\ IdleKeysForgotten
  BY InitInv
<1>2. IInv /\ LimitHolds /\ IdleKeysForgotten /\ [Next]_vars
        => (IInv /\ LimitHolds /\ IdleKeysForgotten)'
  BY NextStep
<1> QED BY <1>1, <1>2, PTL DEF Spec

\* Every variable of the limiter keeps its type, and the entries of a key are
\* requests it admitted.
THEOREM LimiterTypes == Spec => []TypeOK
<1>1. IInv => TypeOK
  BY DEF IInv
<1> QED BY <1>1, LimiterInvariant, PTL

\* No period of one window ever holds more than limit admitted requests of a
\* key (Allow and cleanup of rate_limit.go).
THEOREM LimitNeverExceeded == Spec => []LimitHolds
  BY LimiterInvariant, PTL

\* A key that is idle leaves the map at the first cleanup after its window.
THEOREM IdleKeysLeave == Spec => []IdleKeysForgotten
  BY LimiterInvariant, PTL

\* The limiter answers as the one that remembers every request it admitted.
THEOREM LimiterSlides == Spec => ImplementsSlidingWindow
<1>1. Init => SW!Init
  BY DEF Init, SW!Init
<1>2. IInv /\ [Next]_vars => [SW!Next]_(SW!vars)
  <2> SUFFICES ASSUME IInv, [Next]_vars PROVE [SW!Next]_(SW!vars)
    OBVIOUS
  <2>1. ASSUME NEW k \in Keys, Allow(k) PROVE SW!Next
    <3>1. Cardinality(Valid(k, Entries(k))) = SW!Cardinality(SW!InWindow(k))
      BY SameWindow DEF Cardinality, SW!Cardinality
    <3>2. CASE Admit(k)
      BY <2>1, <3>1, <3>2 DEF Allow, Admit, Answer, SW!Next, SW!Admit, SW!Answer
    <3>3. CASE Refuse(k)
      BY <2>1, <3>1, <3>3 DEF Allow, Refuse, Answer, SW!Next, SW!Refuse, SW!Answer
    <3> QED BY <2>1, <3>2, <3>3 DEF Allow
  <2>2. CASE Pass
    BY <2>2 DEF Pass, SW!Next, SW!Pass
  <2>3. CASE TakeTick \/ Cleanup \/ Close \/ StopCleanup \/ UNCHANGED vars
    BY <2>3 DEF TakeTick, Cleanup, Close, StopCleanup, vars, SW!vars
  <2> QED BY <2>1, <2>2, <2>3 DEF Next
<1> QED BY <1>1, <1>2, LimiterInvariant, PTL DEF Spec, SW!Spec, ImplementsSlidingWindow
=============================================================================
