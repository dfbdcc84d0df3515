----------------------------- MODULE MC_OrgCache -----------------------------
(***************************************************************************)
(* One corporation, one alliance and two callers, each of which runs an    *)
(* operation or asks for affiliations or locations.                        *)
(***************************************************************************)
EXTENDS OrgCache, TLC

CONSTANTS s1, s2, c1, a1
SomeCallers == {s1, s2}
Sym == Permutations(SomeCallers)
SomeCorps == {c1}
SomeAlliances == {a1}
=============================================================================
