------------------------ MODULE MC_JumpbridgePairs --------------------------
(***************************************************************************)
(* The instances of JumpbridgePairs and of StructureSearch for TLC.  The   *)
(* two share no state: a behaviour is about one of them, the subject, and  *)
(* the other stays as it is.                                               *)
(***************************************************************************)
EXTENDS JumpbridgePairs, StructureSearch, TLC

CONSTANTS w1, w2, sysA, sysB, sysC

TwoWriters == {w1, w2}
ThreeSystems == {sysA, sysB, sysC}

\* Neither systems nor writers are told apart by anything but their names.
Interchangeable == Permutations(TwoWriters) \cup Permutations(ThreeSystems)

-----------------------------------------------------------------------------
(* The search.  Structure 1 stands in system 1 and leads to 2, structure 2   *)
(* and its replacement 3 stand in 2 and lead to 1, structure 4 stands in 1   *)
(* and is no bridge, structure 5 stands in 3 and leads to 2.                 *)

VARIABLE subject

Bridge(from, to, fromId, toId) == [from |-> from, to |-> to, fromId |-> fromId, toId |-> toId]
Tables == {{}, {Bridge(1, 2, 1, 2), Bridge(2, 1, 2, 1)},
           {Bridge(1, 2, 0, 2), Bridge(2, 1, 0, 0)},
           {Bridge(1, 2, 1, 2), Bridge(2, 1, 3, 1)}}

\* The alliances of p and q, and what their rows say: right, missing, stale.
Memberships(p, q) == [o \in {"p", "q", "t"} |-> CASE o = "p" -> p [] o = "q" -> q [] o = "t" -> "foe"]
World(t, v, a1, k1) == [there |-> t, sees |-> v, alliance |-> a1, known |-> k1]
Everything == {1, 2} \X (1..5)
Worlds ==
    {World({1, 3, 4}, Everything, Memberships("foe", "friend"), Memberships("foe", "foe")),
     World({1, 2}, Everything \ {<<1, 1>>}, Memberships("friend", "friend"), Memberships("none", "foe")),
     World({1, 5}, Everything, Memberships("none", "foe"), Memberships("unknown", "foe"))}

SearchSystems == 1..3
SearchStructures == 1..5
SearchCharacters == {1, 2}
SearchCorps == {"p", "q", "t"}
SearchOrgs == {"x", "y"}
SearchServes == <<{"x"}, {"y"}>>
SearchAnsiblexes == {1, 2, 3, 5}
SearchPlace == <<1, 2, 2, 1, 3>>
SearchLeads == <<2, 1, 1, 0, 2>>
SearchOwner == <<"p", "q", "p", "p", "t">>
SearchTrusted == {"t"}
SearchSov == {1, 2}

NoSearch ==
    /\ links = {} /\ there = {} /\ sees = {} /\ usable = {} /\ job = [kind |-> "none"]
    /\ alliance = <<>> /\ known = <<>> /\ been = <<>> /\ count = <<>>

MCInit == \/ subject = "pairs" /\ Init /\ NoSearch
          \/ subject = "search" /\ SearchInit
             /\ rows = {} /\ lastId = 0 /\ took = <<>> /\ loose = {} /\ begun = MaxOps
             /\ op = [w \in Writers |-> Idle]
MCNext == \/ subject = "pairs" /\ Next /\ UNCHANGED <<subject, searchVars>>
          \/ subject = "search" /\ SearchNext /\ UNCHANGED <<subject, vars>>
MCSpec == MCInit /\ [][MCNext]_<<subject, vars, searchVars>>
=============================================================================
