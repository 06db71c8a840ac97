--------------------------- MODULE MCEmailPipeline ---------------------------
(* Two requests to one recipient with one idempotency_id between them, or one  *)
(* request alone with more room for retries and incidents.                     *)
EXTENDS EmailPipelineProps, TLC

CONSTANTS r1, r2, k, addr

MCRequests == {r1, r2}
SameKey == [r \in MCRequests |-> k]
OneRequest == {r1}
OneKey == [r \in OneRequest |-> NoKey]
MCToOf == [r \in MCRequests |-> addr]
OneToOf == [r \in OneRequest |-> addr]
Symmetry == Permutations(MCRequests)
=============================================================================
