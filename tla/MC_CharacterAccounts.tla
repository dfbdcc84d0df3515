------------------------ MODULE MC_CharacterAccounts ------------------------
(* Two characters, two accounts and two handlers. *)
EXTENDS CharacterAccounts, TLC

CONSTANTS c1, c2, u1, u2, h1, h2

MCChars == {c1, c2}
MCUsers == {u1, u2}
MCSlots == {h1, h2}
Alike   == Permutations(MCChars) \cup Permutations(MCUsers) \cup Permutations(MCSlots)
=============================================================================
