--------------------------- MODULE MC_RoutePlanner ---------------------------
(* The instance of RoutePlanner for TLC: four systems in a row, two bridges.  *)
EXTENDS RoutePlanner, TLC

CONSTANTS r1, r2

FourSystems == {"a", "b", "c", "d"}
FourStructures == {"A", "B", "C", "D"}
TwoRequests == {r1, r2}
Alike == Permutations(TwoRequests)
InARow == <<<<"a", "b">>, <<"b", "c">>, <<"c", "d">>>>
WithShortcut == InARow \o <<<<"a", "d">>>>

Pair(x, y, X, Y) == <<[gate |-> X, twin |-> Y, from |-> x, to |-> y],
                      [gate |-> Y, twin |-> X, from |-> y, to |-> x]>>
Across == Pair("a", "c", "A", "C") \o Pair("b", "d", "B", "D")
Crossed == Pair("a", "d", "A", "D") \o Pair("b", "c", "B", "C")
ThreeTables == {Across, Crossed, Pair("a", "c", "A", "C")}

TwoRoutes == {[waypoints |-> <<"d">>, avoid |-> {}], [waypoints |-> <<"c", "d">>, avoid |-> {"b"}]}
==============================================================================
