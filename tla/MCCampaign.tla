----------------------------- MODULE MCCampaign -----------------------------
(* Model-checking instance of CampaignDesk.                                 *)
EXTENDS CampaignDesk, TLC

CONSTANTS c1, c2, p1, p2
TwoPosts     == {<<c1, p1>>, <<c1, p2>>}
TwoCampaigns == {<<c1, p1>>, <<c2, p1>>}
Symmetry     == Permutations(Posts) \cup Permutations(Campaigns)
OneRow       == {<<c1, p1>>}
=============================================================================
