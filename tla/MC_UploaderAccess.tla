------------------------- MODULE MC_UploaderAccess --------------------------
(* The instance of UploaderAccess for TLC.                                   *)
EXTENDS UploaderAccess

CONSTANTS r1, r2, r3, s1, seed

ThreeRequests == {r1, r2, r3}
OneSession == {s1}

\* An administrator renews, the user renews, an administrator revokes.
OneOfEach == [r \in ThreeRequests |->
                CASE r = r1 -> "regenerate" [] r = r2 -> "rotate" [] r = r3 -> "revoke"]
=============================================================================
