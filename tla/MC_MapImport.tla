----------------------------- MODULE MC_MapImport -----------------------------
(* The instance of MapImport for TLC.                                          *)
EXTENDS MapImport

CONSTANTS p1, p2

TwoFiles == <<"systems", "gates">>
OneOptional == <<"planets">>
NoLayout == << >>
OneLayout == <<"metro">>
SystemsAndPlanets == {{"systems", "planets"}}
TwoPipelines == {p1, p2}
===============================================================================
