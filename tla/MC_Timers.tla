------------------------------ MODULE MC_Timers ------------------------------
(* The instance of Timers for TLC.                                            *)
EXTENDS Timers

CONSTANTS c1, h1, s1, s2, a1, a2

OneCampaign == {c1}
OneHook == {h1}
TwoSyncs == {s1, s2}
TwoRequests == {a1, a2}
==============================================================================
