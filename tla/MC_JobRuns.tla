----------------------------- MODULE MC_JobRuns -----------------------------
(* Instances of JobRuns for TLC. *)
EXTENDS JobRuns, TLC

CONSTANTS r1, r2, k, a1

SameKey == r1 :> k @@ r2 :> k
OneKey == {k}
Both == {r1, r2}
OneRun == r1 :> k
First == {r1}
None == {}
=============================================================================
