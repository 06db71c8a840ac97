--------------------------- MODULE MCEmailFeedback ---------------------------
(* Two emails to one recipient, whose address is written in mixed case, or one *)
(* email with two webhook requests at a time.                                  *)
EXTENDS EmailFeedbackProps, TLC

CONSTANTS r1, r2, h1, h2, mixed, lower

MCRequests == {r1, r2}
NoKeys == [r \in MCRequests |-> NoKey]
MCAddresses == {mixed, lower}
MCToOf == [r \in MCRequests |-> mixed]
MCLowerOf == [a \in MCAddresses |-> lower]
OneRequest == {r1}
OneKey == [r \in OneRequest |-> NoKey]
OneToOf == [r \in OneRequest |-> mixed]
TwoNotices == Permutations(Notices)
Symmetry == Permutations(MCRequests)
=============================================================================
