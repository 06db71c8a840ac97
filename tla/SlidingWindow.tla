---------------------------- MODULE SlidingWindow ----------------------------
(* What a sliding-window limiter promises: a request is admitted exactly when  *)
(* fewer than Limit requests of its key were admitted in the last Window.      *)
EXTENDS Integers, Sequences, FiniteSets

CONSTANTS Keys, Limit, Window, NoAnswer

VARIABLES
  clock,     \* the time
  admitted,  \* admitted[k]: when requests of key k were admitted, in order
  answer     \* the last answer

vars == <<clock, admitted, answer>>

InWindow(k) == {i \in DOMAIN admitted[k] : admitted[k][i] > clock - Window}

Init ==
  /\ clock = 0
  /\ admitted = [k \in Keys |-> <<>>]
  /\ answer = NoAnswer

Answer(k, allowed) == [key |-> k, at |-> clock, allowed |-> allowed]

Admit(k) ==
  /\ Cardinality(InWindow(k)) < Limit
  /\ admitted' = [admitted EXCEPT ![k] = Append(@, clock)]
  /\ answer' = Answer(k, TRUE)
  /\ UNCHANGED clock

Refuse(k) ==
  /\ Cardinality(InWindow(k)) >= Limit
  /\ answer' = Answer(k, FALSE)
  /\ UNCHANGED <<clock, admitted>>

Pass ==
  /\ clock' = clock + 1
  /\ UNCHANGED <<admitted, answer>>

Next == Pass \/ \E k \in Keys : Admit(k) \/ Refuse(k)

Spec == Init /\ [][Next]_vars
=============================================================================
