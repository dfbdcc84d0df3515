--------------------------- MODULE MC_SkyhookWatch ---------------------------
(* The instance of SkyhookWatch for TLC.                                      *)
EXTENDS SkyhookWatch

CONSTANTS n1, n2, r1, r2

ThreeCharacters == 1..3
TwoNotifications == {n1, n2}
TwoRuns == {r1, r2}
Members == (n1 :> {1, 2}) @@ (n2 :> {2})
Alike == Permutations(TwoRuns)
==============================================================================
