----------------------------- MODULE MCBulkSend ------------------------------
(* Values for TLC.                                                             *)
EXTENDS BulkSend, TLC

CONSTANTS a1, a2

MCAddresses == {a1, a2}
Symmetry == Permutations(MCAddresses)
=============================================================================
