----------------------------- MODULE MCCampaign -----------------------------
(* Small instances of Campaign.                                              *)
EXTENDS Campaign, TLC

CONSTANTS r1, r2

NoAudience == <<>>
(* A segment of one contact, materialised by two starts. *)
TwoAudiences == <<{r1}, {r2}>>

AllSymmetry == Permutations(Workers) \cup Permutations(Requests)
=============================================================================
