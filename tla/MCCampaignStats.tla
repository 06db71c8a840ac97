--------------------------- MODULE MCCampaignStats ---------------------------
(* One email of a campaign, one webhook request and three readers.             *)
EXTENDS CampaignStats, TLC

CONSTANTS r1, a1, h1, c1, c2, c3

OneRequest == {r1}
OneKey == [r \in OneRequest |-> NoKey]
OneTo == [r \in OneRequest |-> a1]
SameCase == [a \in Addresses |-> a]
AnyReader == Permutations(Readers)
=============================================================================
