------------------------------ MODULE Delivery ------------------------------
(* What the service promises for an email it has taken over: attempts, one     *)
(* after the other, until the provider acknowledges the message or all the     *)
(* attempts are spent.  An attempt that was interrupted may still deliver, so  *)
(* delivery is at least once; an attempt that was acknowledged is the last one *)
(* unless the acknowledgement is forgotten.                                    *)
EXTENDS Naturals

CONSTANTS Emails, MaxRetries

Attempts == 0..MaxRetries

VARIABLES
  phase,   \* phase[e]: what the service owes for e
  at,      \* at[e]: the retries so far, which number the attempt under way
  open,    \* open[e]: the attempts that may still deliver
  taken    \* taken[e][n]: messages the provider took from attempt n
dvars == <<phase, at, open, taken>>

Phases == {"absent", "waiting", "trying", "acknowledged", "kept", "abandoned"}

DeliveryInit ==
  /\ phase = [e \in Emails |-> "absent"]
  /\ at = [e \in Emails |-> 0]
  /\ open = [e \in Emails |-> {}]
  /\ taken = [e \in Emails |-> [n \in Attempts |-> 0]]

Become(e, p) == phase' = [phase EXCEPT ![e] = p]
Close(e, n) == open' = [open EXCEPT ![e] = @ \ {n}]

TakeOver(e) ==
  phase[e] = "absent" /\ Become(e, "waiting") /\ UNCHANGED <<at, open, taken>>

Begin(e) ==
  /\ phase[e] = "waiting"
  /\ Become(e, "trying")
  /\ open' = [open EXCEPT ![e] = @ \union {at[e]}]
  /\ UNCHANGED <<at, taken>>

\* The provider takes the message; only the attempt under way can hear of it.
Deliver(e, n) ==
  /\ n \in open[e]
  /\ Close(e, n)
  /\ taken' = [taken EXCEPT ![e][n] = @ + 1]
  /\ \/ phase[e] = "trying" /\ n = at[e] /\ Become(e, "acknowledged")
     \/ UNCHANGED phase
  /\ UNCHANGED at

Miss(e, n) == n \in open[e] /\ Close(e, n) /\ UNCHANGED <<phase, at, taken>>

Forget(e) ==
  /\ phase[e] = "acknowledged"
  /\ Become(e, "trying")
  /\ UNCHANGED <<at, open, taken>>

\* The attempt under way has failed: there is another one.
Again(e) ==
  /\ phase[e] \in {"trying", "acknowledged"}
  /\ at[e] < MaxRetries
  /\ Become(e, "waiting")
  /\ at' = [at EXCEPT ![e] = @ + 1]
  /\ UNCHANGED <<open, taken>>

\* The attempt under way is stopped for good and will be made once more.
Redo(e) ==
  /\ phase[e] \in {"trying", "acknowledged"}
  /\ Become(e, "waiting")
  /\ Close(e, at[e])
  /\ UNCHANGED <<at, taken>>

Keep(e) ==
  phase[e] = "acknowledged" /\ Become(e, "kept") /\ UNCHANGED <<at, open, taken>>

Abandon(e) ==
  /\ phase[e] \in {"trying", "acknowledged"}
  /\ at[e] = MaxRetries
  /\ Become(e, "abandoned")
  /\ UNCHANGED <<at, open, taken>>

DeliveryNext ==
  \E e \in Emails :
    \/ TakeOver(e) \/ Begin(e) \/ Forget(e) \/ Again(e) \/ Redo(e)
    \/ Keep(e) \/ Abandon(e)
    \/ \E n \in Attempts : Deliver(e, n) \/ Miss(e, n)

DeliverySpec == DeliveryInit /\ [][DeliveryNext]_dvars
=============================================================================
