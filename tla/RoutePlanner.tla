----------------------------- MODULE RoutePlanner -----------------------------
(***************************************************************************)
(* Routes (backend/internal/intel: route_planner, top_routes; the Route    *)
(* and ClearRoute handlers of backend/internal/api/maps).                  *)
(*                                                                         *)
(* One planner serves all requests.  Its graph, the hash of the bridges it *)
(* was built from and the time of the last rebuild have no lock; it asks   *)
(* the table again when five minutes have passed and builds anew if the    *)
(* hash differs.  A route is given to the autopilot of the character: the  *)
(* first destination within the request, the others afterwards, one call   *)
(* to ESI each, by a goroutine nobody waits for.  The requests of this     *)
(* module are of one character; what others do to the planner they do too. *)
(*                                                                         *)
(* A row of the bridge table is [gate, twin, from, to]: a structure, the   *)
(* one it leads to and the systems of the two.                             *)
(***************************************************************************)
EXTENDS Integers, Sequences, FiniteSets, SequencesExt

CONSTANTS
    SolarSystems,
    Structures,
    Gates, MoreGates,   \* the gate table, before and after an import of the map
    Tables,             \* the contents the bridge table may have: sequences of rows
    Reported,           \* bound: systems whose bridge may get a timer
    Requests,
    Origin,             \* where the character is
    Routes,             \* what may be asked for: [waypoints, avoid]
    MaxRoutes,          \* bound: routes asked for
    MaxChanges,         \* bound: changes of the tables
    MaxClears,          \* bound: routes cleared
    MaxTroubles         \* bound: failures

ASSUME PlannerAssumption ==
    /\ IsFiniteSet(SolarSystems) /\ SolarSystems \cap Structures = {}
    /\ Origin \in SolarSystems /\ Reported \subseteq SolarSystems
    /\ Tables \subseteq Seq([gate : Structures, twin : Structures, from : SolarSystems, to : SolarSystems])
    /\ {Gates, MoreGates} \subseteq Seq(SolarSystems \X SolarSystems)
    /\ Routes \subseteq [waypoints : Seq(SolarSystems), avoid : SUBSET SolarSystems]
    /\ \A q \in Routes : q.waypoints # << >> /\ Range(q.waypoints) \cap q.avoid = {}
    /\ {MaxRoutes, MaxChanges, MaxClears, MaxTroubles} \subseteq Nat

VARIABLES
    bridges, gates,     \* the tables
    disabled,           \* systems with an active timer of a bridge
    graph,              \* the tables the planner's graph was built from, or NoGraph
    graphHash,          \* its hash
    expired,            \* its last rebuild began five minutes ago or never
    stage,              \* stage[r]: where request r stands
    ask,                \* ask[r]: [waypoints, avoid], those still ahead
    source,             \* source[r]: where the next leg starts
    blocked,            \* blocked[r]: systems it takes no bridge from or to
    loaded,             \* loaded[r]: the bridges it is rebuilding the graph from
    used,               \* used[r]: the graph of the leg
    path,               \* path[r]: the leg
    plan,               \* plan[r]: destinations for the autopilot
    autopilot,          \* destinations the autopilot holds
    routes, changes, clears, troubles,  \* what the bounds count
    since,              \* history: bridge tables since the planner's graph expired
    failed,             \* history: a rebuild failed since
    crossed,            \* history: two rebuilds were under way at once
    last,               \* history: the destinations given last
    mixed               \* history: they were given while earlier ones were still to come

inputs == <<bridges, gates, disabled>>
planner == <<graph, graphHash, expired>>
leg == <<used, path>>
requests == <<stage, ask, source, blocked, loaded, leg, plan>>
tally == <<routes, changes, clears, troubles>>
course == <<autopilot, last, mixed>>
rebuilds == <<since, failed, crossed>>
plannerVars == <<inputs, planner, requests, tally, course, rebuilds>>

NoGraph == [gates |-> << >>, bridges |-> << >>, built |-> FALSE]
Trouble == troubles < MaxTroubles /\ troubles' = troubles + 1
GoesTo(r, l) == stage' = [stage EXCEPT ![r] = l]

-----------------------------------------------------------------------------
(* Pure parts *)

\* hashJumpbridges: how often each identifier occurs in the table.
Hash(table) ==
    [id \in SolarSystems \cup Structures |->
        Cardinality({x \in (1..Len(table)) \X {"gate", "twin", "from", "to"} : table[x[1]][x[2]] = id})]

\* The edges of a graph, those of a system in their order: gates, then bridges.
Both(a, b, k) == <<[from |-> a, to |-> b, kind |-> k], [from |-> b, to |-> a, kind |-> k]>>
Edges(g) ==
    FlattenSeq([i \in DOMAIN g.gates |-> Both(g.gates[i][1], g.gates[i][2], "gate")]
               \o [i \in DOMAIN g.bridges |-> Both(g.bridges[i].from, g.bridges[i].to, "bridge")])

\* graphWithoutAvoid and graphWithoutBlockedBridges.
Usable(g, avoid, shut) ==
    LET E == Edges(g)
        Open(e) == /\ {e.from, e.to} \cap avoid = {}
                   /\ e.kind = "bridge" => {e.from, e.to} \cap shut = {}
    IN  FlattenSeq([k \in DOMAIN E |-> IF Open(E[k]) THEN <<E[k]>> ELSE << >>])

\* Mutant: a system that was found already gets a new parent.
VisitAgain(E, s) ==
    LET n == Head(s.queue)
        Found[k \in 0..Len(E)] ==
           IF k = 0 THEN [s EXCEPT !.queue = Tail(@)]
           ELSE LET t == Found[k - 1]  e == E[k]
                IN  IF e.from # n \/ (e.to \in DOMAIN t.parent /\ t.parent[e.to] = e.to) THEN t
                    ELSE [queue |-> Append(t.queue, e.to),
                          parent |-> [m \in DOMAIN t.parent \cup {e.to} |->
                                         IF m = e.to THEN n ELSE t.parent[m]]]
    IN  Found[Len(E)]

\* One round of bfsShortestPath: the systems next to the head of the queue that were
\* not found yet have it as their parent.
Visit(E, s) ==
    LET n == Head(s.queue)
        Found[k \in 0..Len(E)] ==
           IF k = 0 THEN [s EXCEPT !.queue = Tail(@)]
           ELSE LET t == Found[k - 1]  e == E[k]
                IN  IF e.from # n \/ e.to \in DOMAIN t.parent THEN t
                    ELSE [queue |-> Append(t.queue, e.to),
                          parent |-> [m \in DOMAIN t.parent \cup {e.to} |->
                                         IF m = e.to THEN n ELSE t.parent[m]]]
    IN  Found[Len(E)]

\* The rounds, of which there are no more than systems.
Parents(E, from) ==
    LET Round[i \in 0..Cardinality(SolarSystems)] ==
           IF i = 0 THEN [queue |-> <<from>>, parent |-> [m \in {from} |-> from]]
           ELSE LET s == Round[i - 1] IN IF s.queue = << >> THEN s ELSE Visit(E, s)
    IN  Round[Cardinality(SolarSystems)].parent

\* buildPath, from the parents; no path if the destination was not found.
PathTo(parent, from, to) ==
    LET Back[k \in 0..Cardinality(SolarSystems)] ==
           IF k = 0 THEN <<to>>
           ELSE LET p == Back[k - 1]
                IN  IF Head(p) = from THEN p ELSE <<parent[Head(p)]>> \o p
    IN  IF to \in DOMAIN parent THEN Back[Cardinality(SolarSystems)] ELSE << >>

BfsShortestPath(E, from, to) == PathTo(Parents(E, from), from, to)

\* edgeTypeBetween: the kind of the first edge.
Kind(E, a, b) == E[Min({k \in DOMAIN E : E[k].from = a /\ E[k].to = b})].kind

\* jumpgatePath: the structures of the bridges a path takes, as far as the table has
\* them now, and its destination.
JumpgatePath(E, p) ==
    LET Rows(i) == {k \in DOMAIN bridges : bridges[k].from = p[i] /\ bridges[k].to = p[i + 1]}
        Newest(found) == IF found = {} THEN << >> ELSE <<bridges[Max(found)].gate>>
    IN  FlattenSeq([i \in 1..Len(p) - 1 |->
                       IF Kind(E, p[i], p[i + 1]) = "bridge" THEN Newest(Rows(i)) ELSE << >>])
        \o <<p[Len(p)]>>

-----------------------------------------------------------------------------
NoAsk == [waypoints |-> << >>, avoid |-> {}]

PlannerInit ==
    /\ bridges \in Tables /\ gates = Gates /\ disabled = {}
    /\ graph = NoGraph /\ graphHash = Hash(<< >>) /\ expired = TRUE
    /\ stage = [r \in Requests |-> "idle"]
    /\ ask = [r \in Requests |-> NoAsk]
    /\ source = [r \in Requests |-> Origin]
    /\ blocked = [r \in Requests |-> {}]
    /\ loaded = [r \in Requests |-> << >>]
    /\ used = [r \in Requests |-> NoGraph]
    /\ path = [r \in Requests |-> << >>]
    /\ plan = [r \in Requests |-> << >>]
    /\ autopilot = << >> /\ last = << >> /\ mixed = FALSE
    /\ routes = 0 /\ changes = 0 /\ clears = 0 /\ troubles = 0
    /\ since = {bridges} /\ failed = FALSE /\ crossed = FALSE

(* The tables change under the planner *)

ChangeBridges ==
    /\ changes < MaxChanges /\ changes' = changes + 1
    /\ bridges' \in Tables \ {bridges}
    /\ since' = since \cup {bridges'}
    /\ UNCHANGED <<gates, disabled, planner, requests, routes, clears, troubles, course, failed, crossed>>

ChangeOther ==
    /\ changes < MaxChanges /\ changes' = changes + 1
    /\ \/ gates # MoreGates /\ gates' = MoreGates /\ UNCHANGED disabled
       \/ disabled' \in {{s} : s \in Reported} \ {disabled} /\ UNCHANGED gates
    /\ UNCHANGED <<bridges, planner, requests, routes, clears, troubles, course, rebuilds>>

\* RebuildExpiry passes.
Expire ==
    /\ ~expired /\ expired' = TRUE
    /\ since' = {bridges} /\ failed' = FALSE
    /\ UNCHANGED <<inputs, graph, graphHash, requests, tally, course, crossed>>

-----------------------------------------------------------------------------
(* Route *)

Forget(r) ==
    /\ GoesTo(r, "idle")
    /\ ask' = [ask EXCEPT ![r] = NoAsk]
    /\ source' = [source EXCEPT ![r] = Origin]
    /\ blocked' = [blocked EXCEPT ![r] = {}]
    /\ loaded' = [loaded EXCEPT ![r] = << >>]
    /\ used' = [used EXCEPT ![r] = NoGraph]
    /\ path' = [path EXCEPT ![r] = << >>]
    /\ plan' = [plan EXCEPT ![r] = << >>]

\* The timers are read once for all legs; if they cannot be, nothing is blocked.
Ask(r) ==
    /\ stage[r] = "idle" /\ routes < MaxRoutes /\ routes' = routes + 1
    /\ \E q \in Routes : ask' = [ask EXCEPT ![r] = q]
    /\ \/ blocked' = [blocked EXCEPT ![r] = disabled] /\ UNCHANGED troubles
       \/ disabled # {} /\ Trouble /\ UNCHANGED blocked
    /\ GoesTo(r, "plan")
    /\ UNCHANGED <<inputs, planner, source, loaded, leg, plan, changes, clears, course, rebuilds>>

\* ensureGraph.  A rebuild counts as done from its start.
EnsureGraph(r) ==
    /\ stage[r] = "plan"
    /\ IF graph.built /\ ~expired
         THEN GoesTo(r, "search") /\ UNCHANGED expired
         ELSE GoesTo(r, "load") /\ expired' = FALSE
    /\ UNCHANGED <<inputs, graph, graphHash, ask, source, blocked, loaded, leg, plan, tally, course, rebuilds>>

Rebuilding(r) == stage[r] \in {"build", "hash"}

\* Mutant: a graph that was built is kept.
LoadBridgesOnce(r) ==
    /\ stage[r] = "load"
    /\ IF graph.built
         THEN GoesTo(r, "search") /\ UNCHANGED loaded
         ELSE GoesTo(r, "build") /\ loaded' = [loaded EXCEPT ![r] = bridges]
    /\ crossed' = (crossed \/ \E q \in Requests : Rebuilding(q))
    /\ UNCHANGED <<inputs, planner, ask, source, blocked, leg, plan, tally, course, since, failed>>

\* populateGraph reads the bridges, and is done if their hash is the graph's.
LoadBridges(r) ==
    /\ stage[r] = "load"
    /\ IF graph.built /\ graphHash = Hash(bridges)
         THEN GoesTo(r, "search") /\ UNCHANGED loaded
         ELSE GoesTo(r, "build") /\ loaded' = [loaded EXCEPT ![r] = bridges]
    /\ crossed' = (crossed \/ \E q \in Requests : Rebuilding(q))
    /\ UNCHANGED <<inputs, planner, ask, source, blocked, leg, plan, tally, course, since, failed>>

BuildGraph(r) ==
    /\ stage[r] = "build"
    /\ graph' = [gates |-> gates, bridges |-> loaded[r], built |-> TRUE]
    /\ GoesTo(r, "hash")
    /\ UNCHANGED <<inputs, graphHash, expired, ask, source, blocked, loaded, leg, plan, tally, course, rebuilds>>

StoreHash(r) ==
    /\ stage[r] = "hash"
    /\ graphHash' = Hash(loaded[r])
    /\ loaded' = [loaded EXCEPT ![r] = << >>]
    /\ GoesTo(r, "search")
    /\ UNCHANGED <<inputs, graph, expired, ask, source, blocked, leg, plan, tally, course, rebuilds>>

\* A table cannot be read, and the request fails.  The string that is the hash may be
\* read between the writes of its length and its bytes, when one of the two is empty.
RebuildFails(r) ==
    /\ \/ stage[r] \in {"load", "build"} /\ Trouble
       \/ /\ stage[r] = "load" /\ graph.built /\ UNCHANGED troubles
          /\ \E q \in Requests \ {r} : stage[q] = "hash" /\ (graphHash = Hash(<< >>)) # (loaded[q] = << >>)
    /\ failed' = TRUE
    /\ Forget(r)
    /\ UNCHANGED <<inputs, planner, routes, changes, clears, course, since, crossed>>

Search(r) ==
    LET p == BfsShortestPath(Usable(graph, ask[r].avoid, blocked[r]), source[r], Head(ask[r].waypoints))
    IN  /\ stage[r] = "search"
        /\ IF p = << >>
             THEN Forget(r)
             ELSE /\ used' = [used EXCEPT ![r] = graph]
                  /\ path' = [path EXCEPT ![r] = p]
                  /\ GoesTo(r, "found")
                  /\ UNCHANGED <<ask, source, blocked, loaded, plan>>
        /\ UNCHANGED <<inputs, planner, tally, course, rebuilds>>

\* The structures of the leg are looked up; then the next leg, or the autopilot.
LookUp(r) ==
    /\ stage[r] = "found"
    /\ plan' = [plan EXCEPT ![r] = @ \o JumpgatePath(Usable(used[r], ask[r].avoid, blocked[r]), path[r])]
    /\ source' = [source EXCEPT ![r] = Head(ask[r].waypoints)]
    /\ ask' = [ask EXCEPT ![r].waypoints = Tail(@)]
    /\ used' = [used EXCEPT ![r] = NoGraph]
    /\ path' = [path EXCEPT ![r] = << >>]
    /\ GoesTo(r, IF Len(ask[r].waypoints) = 1 THEN "set" ELSE "plan")
    /\ UNCHANGED <<inputs, planner, blocked, loaded, tally, course, rebuilds>>

Give(destinations) ==
    /\ autopilot' = <<Head(destinations)>>
    /\ last' = destinations
    /\ mixed' = \E q \in Requests : stage[q] = "append"

\* setRouteWaypoints: the first destination replaces what the autopilot has, and the
\* request is answered.
SetFirst(r) ==
    /\ stage[r] = "set"
    /\ Give(plan[r])
    /\ IF Len(plan[r]) = 1
         THEN Forget(r)
         ELSE /\ plan' = [plan EXCEPT ![r] = Tail(@)]
              /\ GoesTo(r, "append")
              /\ UNCHANGED <<ask, source, blocked, loaded, leg>>
    /\ UNCHANGED <<inputs, planner, tally, rebuilds>>

SetFails(r) ==
    /\ stage[r] = "set" /\ Trouble
    /\ Forget(r)
    /\ UNCHANGED <<inputs, planner, routes, changes, clears, course, rebuilds>>

\* appendRouteWaypoints; a destination that cannot be given is left out.
AppendNext(r) ==
    /\ stage[r] = "append"
    /\ \/ autopilot' = Append(autopilot, Head(plan[r])) /\ UNCHANGED troubles
       \/ Trouble /\ UNCHANGED autopilot
    /\ IF Len(plan[r]) = 1
         THEN Forget(r)
         ELSE plan' = [plan EXCEPT ![r] = Tail(@)] /\ UNCHANGED <<stage, ask, source, blocked, loaded, leg>>
    /\ UNCHANGED <<inputs, planner, routes, changes, clears, last, mixed, rebuilds>>

\* Mutant: what the autopilot has stays in front of where the character is.
ClearRouteAtTheEnd ==
    /\ clears < MaxClears /\ clears' = clears + 1
    /\ autopilot' = Append(autopilot, Origin)
    /\ last' = <<Origin>>
    /\ mixed' = \E q \in Requests : stage[q] = "append"
    /\ UNCHANGED <<inputs, planner, requests, routes, changes, troubles, rebuilds>>

\* ClearRoute: where the character is replaces what the autopilot has.
ClearRoute ==
    /\ clears < MaxClears /\ clears' = clears + 1
    /\ Give(<<Origin>>)
    /\ UNCHANGED <<inputs, planner, requests, routes, changes, troubles, rebuilds>>

-----------------------------------------------------------------------------
RouteStep(r) ==
    \/ Ask(r) \/ EnsureGraph(r) \/ LoadBridges(r) \/ BuildGraph(r) \/ StoreHash(r)
    \/ RebuildFails(r) \/ Search(r) \/ LookUp(r) \/ SetFirst(r) \/ SetFails(r) \/ AppendNext(r)

PlannerNext == ChangeBridges \/ ChangeOther \/ Expire \/ ClearRoute \/ \E r \in Requests : RouteStep(r)

PlannerSpec == PlannerInit /\ [][PlannerNext]_plannerVars

-----------------------------------------------------------------------------
(* Properties *)

Settled == graph.built /\ \A r \in Requests : stage[r] # "load" /\ ~Rebuilding(r)

\* Within five minutes of a rebuild the graph is one of the bridges as they were after
\* the last one expired, or of bridges with the same hash (identifiers that changed
\* places), unless that rebuild failed or two were under way at once (ensureGraph,
\* populateGraph).
GraphIsRecent ==
    Settled /\ ~expired =>
       failed \/ crossed \/ Hash(graph.bridges) \in {Hash(t) : t \in since}

\* p goes from a to b along the edges.
IsWalk(E, p, a, b) ==
    /\ p[1] = a /\ p[Len(p)] = b
    /\ \A i \in 1..Len(p) - 1 : \E k \in DOMAIN E : E[k].from = p[i] /\ E[k].to = p[i + 1]

\* A leg is a walk from its source to its waypoint, of which no shorter one exists that
\* takes no avoided system and no bridge at a system with a timer
\* (GenerateRouteWithBridgeAvoid).
LegsAreShortest ==
    \A r \in Requests : stage[r] = "found" =>
       LET E == Usable(used[r], ask[r].avoid, blocked[r])
           a == source[r]
           b == Head(ask[r].waypoints)
       IN  /\ IsWalk(E, path[r], a, b)
           /\ Range(path[r]) \cap ask[r].avoid \subseteq {a}
           /\ \A n \in 1..Len(path[r]) - 1 : ~\E p \in [1..n -> SolarSystems] : IsWalk(E, p, a, b)

\* What the autopilot holds are destinations given last, in their order and with the
\* first of them, unless destinations of an earlier route were still to come when they
\* were given (setRouteWaypoints, ClearRoute).
AutopilotHoldsOneRoute ==
    mixed \/ autopilot = last \/
    \E place \in [DOMAIN autopilot -> DOMAIN last] :
       /\ autopilot # << >> /\ place[1] = 1
       /\ \A i, j \in DOMAIN autopilot : i < j => place[i] < place[j]
       /\ \A i \in DOMAIN autopilot : autopilot[i] = last[place[i]]

-----------------------------------------------------------------------------
(* The inductive invariant *)

Bridge == [gate : Structures, twin : Structures, from : SolarSystems, to : SolarSystems]
Graph == [gates : Seq(SolarSystems \X SolarSystems), bridges : Seq(Bridge), built : BOOLEAN]
Destination == SolarSystems \cup Structures
Stages == {"idle", "plan", "load", "build", "hash", "search", "found", "set", "append"}

PlannerTypeOK ==
    /\ bridges \in Tables /\ gates \in Seq(SolarSystems \X SolarSystems)
    /\ disabled \subseteq SolarSystems
    /\ graph \in Graph
    /\ expired \in BOOLEAN /\ failed \in BOOLEAN /\ crossed \in BOOLEAN /\ mixed \in BOOLEAN
    /\ stage \in [Requests -> Stages]
    /\ ask \in [Requests -> [waypoints : Seq(SolarSystems), avoid : SUBSET SolarSystems]]
    /\ source \in [Requests -> SolarSystems] /\ blocked \in [Requests -> SUBSET SolarSystems]
    /\ loaded \in [Requests -> Seq(Bridge)] /\ used \in [Requests -> Graph]
    /\ path \in [Requests -> Seq(SolarSystems)]
    /\ plan \in [Requests -> Seq(Destination)]
    /\ autopilot \in Seq(Destination) /\ last \in Seq(Destination)

\* A rebuild that nobody crosses stores the hash of the graph it stored; and until the
\* graph expires somebody is about to load the table, or the one that rebuilds, or else
\* the graph, has one of those since.
Since == {Hash(t) : t \in since}
RecentInv ==
    /\ bridges \in since
    /\ \/ crossed
       \/ /\ \A q, r \in Requests : Rebuilding(q) /\ Rebuilding(r) => q = r
          /\ graph.built /\ (\A r \in Requests : stage[r] # "hash") => graphHash = Hash(graph.bridges)
          /\ \A r \in Requests : stage[r] = "hash" => graph.built /\ graph.bridges = loaded[r]
          /\ \/ expired \/ failed
             \/ \E r \in Requests : stage[r] = "load"
             \/ /\ \A r \in Requests : Rebuilding(r) => Hash(loaded[r]) \in Since
                /\ \/ \E r \in Requests : Rebuilding(r)
                   \/ graph.built /\ Hash(graph.bridges) \in Since

\* Who plans a leg has a waypoint ahead, and the leg is what the search found.
LegInv ==
    \A r \in Requests :
       /\ stage[r] \notin {"idle", "set", "append"} => ask[r].waypoints # << >>
       /\ stage[r] = "found" =>
             /\ path[r] # << >>
             /\ path[r] = BfsShortestPath(Usable(used[r], ask[r].avoid, blocked[r]),
                                          source[r], Head(ask[r].waypoints))

\* The autopilot holds destinations among the first k, in their order.
Along(k) ==
    \E place \in [DOMAIN autopilot -> 1..k] :
       /\ autopilot # << >> /\ place[1] = 1
       /\ \A i, j \in DOMAIN autopilot : i < j => place[i] < place[j]
       /\ \A i \in DOMAIN autopilot : autopilot[i] = last[place[i]]

\* What is still to be appended is the end of what was given last.
CourseInv ==
    /\ \A r \in Requests : stage[r] \in {"set", "append"} => plan[r] # << >>
    /\ \/ mixed
       \/ /\ \A q, r \in Requests : stage[q] = "append" /\ stage[r] = "append" => q = r
          /\ \A r \in Requests : stage[r] = "append" =>
                LET k == Len(last) - Len(plan[r])
                IN  Along(k) /\ \A i \in DOMAIN plan[r] : plan[r][i] = last[k + i]
          /\ (\A r \in Requests : stage[r] # "append") => autopilot = last \/ Along(Len(last))

PlannerInv == PlannerTypeOK /\ RecentInv /\ LegInv /\ CourseInv
==============================================================================
