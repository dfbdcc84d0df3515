-------------------------- MODULE StructureSearch ---------------------------
(***************************************************************************)
(* How the jumpbridge job asks EVE about structures                        *)
(* (backend/internal/jumpbridges/validation.go and discovery.go).          *)
(*                                                                         *)
(* The job asks with the tokens of one character per allowed organisation, *)
(* in the order of their ids.  Validation looks up the structures of every *)
(* stored pair, searches for them where it knows none or finds them gone,  *)
(* asks who owns them, and removes the pair, fills in missing ids, or      *)
(* leaves it.  Discovery searches for bridges, takes those whose owner is  *)
(* allowed, and stores their pairs.                                        *)
(*                                                                         *)
(* Each call to EVE is one step, and between two of them structures are    *)
(* destroyed, corporations change alliances, and tokens and access are     *)
(* lost.  An error is known by its message only: "unsure" is one that      *)
(* isNonAuthoritativeStructureLookupError names (401, 403, 429, timeouts), *)
(* "gone" is a 404, "broken" any other (420, 500, a closed connection).    *)
(* Structures never come back, and the table has no other writer here:     *)
(* JumpbridgePairs is about those.                                         *)
(***************************************************************************)
EXTENDS Naturals, FiniteSetsExt

CONSTANTS
    SolarSystems,        \* solar systems, by number
    Structures,     \* structures, by number
    Characters,     \* characters, by number
    Corps,          \* corporations that own structures
    Orgs,           \* the allowed alliances and corporations
    Serves,         \* Serves[c]: the organisations among them character c is in
    Ansiblexes,     \* the structures that are jump bridges
    Place,          \* Place[t]: the system of structure t
    Leads,          \* Leads[t]: the system its name leads to, Nowhere if none
    Nowhere,
    Owner,          \* Owner[t]: the corporation of structure t
    Trusted,        \* corporations that are allowed themselves
    SovSystems,     \* systems whose sovereignty an allowed alliance holds
    NoId,           \* no structure id
    StartWorlds,    \* what there may be at first: [there, sees, alliance, known]
    StartLinks,     \* tables there may be at first
    MaxRuns,        \* bound: runs of the job's steps
    MaxFaults,      \* bound: calls that fail for no reason in the model
    MaxMoves        \* bound: changes in EVE during a run

StructureIds == Structures \cup {NoId}
BridgeIn(t, s) == t \in Ansiblexes /\ Place[t] = s

\* The table holds what earlier runs and requests found out in the same way.
ASSUME StructureSearchAssumption ==
    /\ SolarSystems \subseteq Nat /\ Structures \subseteq Nat /\ Characters \subseteq Nat
    /\ NoId \notin Structures /\ Nowhere \notin SolarSystems
    /\ Ansiblexes \subseteq Structures /\ Trusted \subseteq Corps
    /\ Place \in [Structures -> SolarSystems] /\ Owner \in [Structures -> Corps]
    /\ Leads \in [Structures -> SolarSystems \cup {Nowhere}]
    /\ Serves \in [Characters -> SUBSET Orgs] /\ SovSystems \subseteq SolarSystems
    /\ {MaxRuns, MaxFaults, MaxMoves} \subseteq Nat
    /\ StartWorlds \subseteq [there : SUBSET Structures, sees : SUBSET (Characters \X Structures),
                              alliance : [Corps -> {"friend", "foe", "none"}],
                              known : [Corps -> {"friend", "foe", "none", "unknown"}]]
    /\ \A L \in StartLinks : \A l \in L :
          /\ l \in [from : SolarSystems, to : SolarSystems, fromId : StructureIds, toId : StructureIds]
          /\ l.from # l.to
          /\ l.fromId # NoId => BridgeIn(l.fromId, l.from)
          /\ l.toId # NoId => BridgeIn(l.toId, l.to)

VARIABLES
    links,      \* the table: [from, to, fromId, toId], a pair is two of them
    known,      \* known[o]: the alliance in the row of corporation o
    there,      \* structures that exist
    sees,       \* <<c, t>>: character c has access to structure t
    usable,     \* characters whose tokens work
    alliance,   \* alliance[o]: where corporation o is: "friend" if allowed
    job,        \* the run in progress
    been,       \* history: what the row or EVE said of a corporation in the run
    count       \* [runs, faults, moves] so far

world == <<there, sees, usable, alliance>>
searchVars == <<links, known, world, job, been, count>>

EndsOf(l) == {l.from, l.to}
LinksOf(k) == {l \in links : EndsOf(l) = k}
SystemsOf(t) == {Place[t], Leads[t]}

\* kind: validation or discovery; at: its step; todo: pairs, structures or systems
\* still to process; pair: the pair at hand, side: its end; why and ask: what is
\* fetched and for what; left: characters still to ask; err: the first error;
\* heard: a search succeeded; hits: structures a search returned; rest and spent:
\* characters to search with and structures done in the fallback; got: the ids
\* found; said: what was said of their owners; cache: structures per system; firm:
\* alliances per corporation; picked: the characters; finders: who found what;
\* found: proposals; calm, bad: history, whether anything happened or failed.
Nothing == [i \in {1, 2} |-> NoId]
Unsaid == [i \in {1, 2} |-> "none"]
NoPair == [from |-> Nowhere, to |-> Nowhere, fromId |-> NoId, toId |-> NoId]
Fresh(kind, at, picked) ==
    [kind |-> kind, at |-> at, todo |-> {}, pair |-> NoPair, side |-> 1, why |-> "none",
     ask |-> NoId, left |-> {}, err |-> "none", heard |-> FALSE, hits |-> {}, rest |-> {},
     spent |-> {}, got |-> Nothing, said |-> Unsaid,
     cache |-> <<>>, firm |-> [o \in Corps |-> "unset"],
     picked |-> picked, finders |-> {}, found |-> {}, calm |-> TRUE, bad |-> FALSE]
NoJob == Fresh("none", "idle", {})

SearchInit ==
    /\ links \in StartLinks
    /\ \E w \in StartWorlds : /\ there = w.there /\ sees = w.sees
                            /\ alliance = w.alliance /\ known = w.known
    /\ usable = Characters
    /\ job = NoJob
    /\ been = [o \in Corps |-> {}]
    /\ count = [runs |-> 0, faults |-> 0, moves |-> 0]

Here(j) == IF j.side = 1 THEN j.pair.from ELSE j.pair.to
StoredId(j) == IF j.side = 1 THEN j.pair.fromId ELSE j.pair.toId
\* listAllowedStructureCharacterRecordsWithStats: the first character with a
\* working token of each organisation that has one.
Picked == {Min({c \in usable : o \in Serves[c]}) :
             o \in {q \in Orgs : \E c \in usable : q \in Serves[c]}}

-----------------------------------------------------------------------------
(* Calls.  A call fails as EVE's state says or, at most MaxFaults times, for *)
(* a reason of its own.                                                      *)

Fact(c, t) == CASE c \notin usable -> "unsure"
                [] c \in usable /\ t \notin there -> "gone"
                [] c \in usable /\ t \in there -> IF <<c, t>> \in sees THEN "ok" ELSE "unsure"

\* A call was answered with a where fact was to be said.
Counts(a, fact) ==
    /\ a # fact => count.faults < MaxFaults
    /\ count' = IF a = fact THEN count ELSE [count EXCEPT !.faults = @ + 1]
Told(j, a, fact) == [j EXCEPT !.calm = @ /\ a = fact, !.bad = @ \/ a = "broken"]

AskAll(j, why, t) == [j EXCEPT !.at = "fetch", !.why = why, !.ask = t, !.err = "none",
                               !.left = j.picked]
PairDone(j) == [j EXCEPT !.at = "next", !.pair = NoPair, !.side = 1, !.why = "none",
                       !.ask = NoId, !.left = {}, !.err = "none", !.hits = {},
                       !.got = Nothing, !.said = Unsaid]

-----------------------------------------------------------------------------
(* The end of a pair: the id preferred, the run's cache, the search.         *)

\* No id for one end.  Discovery drops the proposal; validation keeps the pair if
\* the error settles nothing or the pair lacks an id, and otherwise asks whether
\* one of its structures is gone.
EndUnresolved(j, e) ==
    IF j.kind = "discover" \/ e = "unsure" \/ NoId \in {j.pair.fromId, j.pair.toId}
      THEN PairDone(j)
      ELSE AskAll([j EXCEPT !.side = 1], "confirm", j.pair.fromId)

\* Discovery stores what it found, validation asks who owns it.
Resolved(j, t) ==
    LET k == [j EXCEPT !.got[j.side] = t, !.left = {}, !.hits = {}, !.err = "none"] IN
    CASE t = NoId -> EndUnresolved(j, "broken")
      [] t # NoId /\ j.side = 1 -> [k EXCEPT !.side = 2, !.at = "end"]
      [] t # NoId /\ j.side = 2 /\ j.kind = "discover" -> [k EXCEPT !.at = "save"]
      [] t # NoId /\ j.side = 2 /\ j.kind = "validate" ->
           AskAll([k EXCEPT !.side = 1], "owner", k.got[1])

InCache(j, t) ==
    Resolved([j EXCEPT !.cache = [s \in DOMAIN @ \cup {Here(j)} |-> IF s = Here(j) THEN t ELSE @[s]]], t)

FromCache(j) ==
    IF Here(j) \in DOMAIN j.cache THEN Resolved(j, j.cache[Here(j)])
    ELSE [j EXCEPT !.at = "search", !.left = j.picked, !.err = "none", !.heard = FALSE]

ResolveEnd ==
    /\ job.at = "end"
    /\ job' = IF StoredId(job) # NoId THEN AskAll(job, "prefer", StoredId(job)) ELSE FromCache(job)
    /\ UNCHANGED <<links, known, world, been, count>>

\* EVE's index may still hold structures that are gone.
Listing(c, R) == {S \in SUBSET R : \A t \in R : t \in there /\ <<c, t>> \in sees => t \in S}
Seen(c, T) == {t \in T : <<c, t>> \in sees}

\* What the job does with the structures S that character c's search returns.
AfterSearch(c, S) ==
    CASE job.at = "search" -> [job EXCEPT !.at = "match", !.heard = TRUE, !.hits = S]
      [] job.at = "ask" -> [job EXCEPT !.left = @ \ {c}, !.heard = TRUE,
                                       !.finders = @ \cup (S \X {c})]
      [] job.at = "names" -> [job EXCEPT !.at = "each", !.hits = S \ job.spent,
                                         !.spent = @ \cup S]

\* What character c's search for the structures T returns; after an error j goes on.
SearchSays(j, c, T) ==
    \/ /\ c \in usable /\ \E S \in Listing(c, Seen(c, T)) : job' = AfterSearch(c, S)
       /\ count' = count
    \/ \E a \in {"unsure", "broken"} :
         LET fact == IF c \in usable THEN "ok" ELSE "unsure" IN
         /\ Counts(a, fact)
         /\ job' = [Told(j, a, fact) EXCEPT !.left = @ \ {c}, !.err = IF @ = "none" THEN a ELSE @]

\* searchSystemStructureForCharacter, its search: the name of a system is in the
\* names of the structures there and of the bridges that lead there.
Search ==
    /\ job.at = "search" /\ job.left # {}
    /\ SearchSays(job, Min(job.left), {t \in Structures : Here(job) \in SystemsOf(t)})
    /\ UNCHANGED <<links, known, world, been>>

\* matchAnsiblexStructureInSystem: the first bridge in the system will do.
Match(t) ==
    LET fact == Fact(Min(job.left), t) IN
    /\ job.at = "match" /\ t \in job.hits
    /\ \E a \in {fact, "unsure", "broken"} :
         LET j == Told(job, a, fact) IN
         /\ Counts(a, fact)
         /\ job' = IF a = "ok" /\ BridgeIn(t, Here(j)) THEN InCache(j, t)
                   ELSE [j EXCEPT !.hits = @ \ {t}]
    /\ UNCHANGED <<links, known, world, been>>

NoMatch ==
    /\ job.at = "match" /\ job.hits = {}
    /\ job' = [job EXCEPT !.at = "search", !.left = @ \ {Min(@)}]
    /\ UNCHANGED <<links, known, world, been, count>>

\* Nobody found a bridge; the error counts only if no search succeeded.
SearchEnds ==
    /\ job.at = "search" /\ job.left = {}
    /\ job' = IF ~job.heard /\ job.err # "none" THEN EndUnresolved(job, job.err)
              ELSE InCache(job, NoId)
    /\ UNCHANGED <<links, known, world, been, count>>

-----------------------------------------------------------------------------
(* A structure fetched with one character after another: the first error is  *)
(* the answer if all of them fail.                                           *)

\* Mutant: every failed fetch settles the question.
SaidOfFailure(r) == "no"

\* isSingleStructureOwnerAllowedForValidation, when the structure is not found.
OwnerUnknown(r) == IF r = "unsure" THEN "unsure" ELSE "no"

\* isPairOwnerAllowedForValidation: one owner that is allowed will do.
Said(j, v) ==
    LET k == [j EXCEPT !.said[j.side] = v] IN
    CASE j.side = 1 -> AskAll([k EXCEPT !.side = 2], "owner", k.got[2])
      [] j.side = 2 /\ (v = "yes" \/ j.said[1] = "yes") -> [k EXCEPT !.at = "fill"]
      [] j.side = 2 /\ "yes" \notin {v, j.said[1]} ->
           IF "unsure" \in {v, j.said[1]} THEN PairDone(j) ELSE [k EXCEPT !.at = "remove"]

\* Mutant: only the first structure of a pair is asked for.
ConfirmedFromOnly(j, r) == IF r = "gone" THEN [j EXCEPT !.at = "remove"] ELSE PairDone(j)

\* shouldRemovePairForConfirmedMissingStructures
Confirmed(j, r) ==
    CASE r = "gone" -> [j EXCEPT !.at = "remove"]
      [] r # "gone" /\ j.side = 1 -> AskAll([j EXCEPT !.side = 2], "confirm", j.pair.toId)
      [] r # "gone" /\ j.side = 2 -> PairDone(j)

NextHit(j) == [j EXCEPT !.at = IF j.why = "name" THEN "each" ELSE "next",
                        !.ask = NoId, !.left = {}, !.err = "none"]

\* What a bridge must be for discovery; the fallback looks in one system.
Leading(j) == /\ j.ask \in Ansiblexes /\ Leads[j.ask] \notin {Nowhere, Place[j.ask]}
              /\ j.why = "name" => Place[j.ask] = j.pair.from

AfterFetch(j, r) ==
    CASE j.why = "prefer" -> IF r = "ok" /\ BridgeIn(j.ask, Here(j)) THEN InCache(j, j.ask)
                             ELSE FromCache(j)
      [] j.why = "confirm" -> Confirmed(j, r)
      [] j.why = "owner" -> IF r = "ok" THEN [j EXCEPT !.at = "judge"] ELSE Said(j, OwnerUnknown(r))
      [] j.why \in {"look", "name"} -> IF r = "ok" /\ Leading(j) THEN [j EXCEPT !.at = "judge"]
                                       ELSE NextHit(j)

\* fetchUniverseStructureByIDAcrossCandidates and fetchStructureAcrossCandidates
Fetch ==
    LET c == Min(job.left)
        fact == Fact(c, job.ask) IN
    /\ job.at = "fetch"
    /\ \E a \in {fact, "unsure", "broken"} :
         LET e == IF job.err = "none" THEN a ELSE job.err
             j == [Told(job, a, fact) EXCEPT !.left = @ \ {c}, !.err = e] IN
         /\ Counts(a, fact)
         /\ job' = CASE a = "ok" -> AfterFetch(job, "ok")
                      [] a # "ok" /\ j.left = {} -> AfterFetch(j, e)
                      [] a # "ok" /\ j.left # {} -> j
    /\ UNCHANGED <<links, known, world, been>>

-----------------------------------------------------------------------------
(* Whether the owner of the structure fetched is allowed.                    *)

\* mergeStructureIntoPair; in the fallback the first bridge of a system keeps its
\* place, in the global search the last one takes it.
Merge(found, t, first) ==
    LET old == {p \in found : EndsOf(p) = SystemsOf(t)}
        p == IF old = {} THEN [from |-> Place[t], to |-> Leads[t], fromId |-> NoId, toId |-> NoId]
             ELSE CHOOSE q \in old : TRUE
        Put(id) == IF first /\ id # NoId THEN id ELSE t IN
    (found \ old) \cup
      {IF Place[t] = p.from THEN [p EXCEPT !.fromId = Put(@)] ELSE [p EXCEPT !.toId = Put(@)]}

\* Mutant: a bridge is proposed whoever owns it.
JudgedLeniently(j, yes) ==
    IF j.why = "owner" THEN Said(j, IF yes THEN "yes" ELSE "no")
    ELSE NextHit([j EXCEPT !.found = Merge(@, j.ask, j.why = "name")])

Judged(j, yes) ==
    IF j.why = "owner" THEN Said(j, IF yes THEN "yes" ELSE "no")
    ELSE NextHit([j EXCEPT !.found = IF yes THEN Merge(@, j.ask, j.why = "name") ELSE @])

\* isStructureOwnerAllowed without a call: the corporation is allowed itself, or
\* the run or its row knows of an alliance.
JudgeKnown ==
    LET o == Owner[job.ask]
        v == IF job.firm[o] # "unset" THEN job.firm[o] ELSE known[o] IN
    /\ job.at = "judge"
    /\ \/ o \in Trusted /\ job' = Judged(job, TRUE)
       \/ /\ o \notin Trusted /\ v \in {"friend", "foe"}
          /\ job' = Judged([job EXCEPT !.firm[o] = v], v = "friend")
    /\ UNCHANGED <<links, known, world, been, count>>

\* ...with a call where nothing or no alliance is known: the row is written.
JudgeAsked ==
    LET o == Owner[job.ask]
        v == IF job.firm[o] # "unset" THEN job.firm[o] ELSE known[o] IN
    /\ job.at = "judge" /\ o \notin Trusted /\ v \in {"none", "unknown"}
    /\ job' = Judged([job EXCEPT !.firm[o] = alliance[o]], alliance[o] = "friend")
    /\ known' = [known EXCEPT ![o] = alliance[o]]
    /\ UNCHANGED <<links, world, been, count>>

\* ...or the call fails, and the owner counts as not allowed.
JudgeFails ==
    LET o == Owner[job.ask]
        v == IF job.firm[o] # "unset" THEN job.firm[o] ELSE known[o] IN
    /\ job.at = "judge" /\ o \notin Trusted /\ v \in {"none", "unknown"}
    /\ Counts("broken", "ok")
    /\ job' = Judged([Told(job, "broken", "ok") EXCEPT !.firm[o] = IF v = "none" THEN v ELSE @], FALSE)
    /\ UNCHANGED <<links, known, world, been>>

-----------------------------------------------------------------------------
(* Validation: the pairs as they are stored, one after another.              *)

\* loadUniquePairs: from the lower system, each id from a row that has one.
Mentioned(k, s) == {l.fromId : l \in {m \in LinksOf(k) : m.from = s}} \cup
                   {l.toId : l \in {m \in LinksOf(k) : m.to = s}}
IdsFor(k, s) == IF Mentioned(k, s) \subseteq {NoId} THEN {NoId} ELSE Mentioned(k, s) \ {NoId}

BeginRun(j) ==
    /\ job.kind = "none" /\ count.runs < MaxRuns
    /\ j.picked # {}
    /\ job' = j
    /\ been' = [o \in Corps |-> {alliance[o]} \cup ({known[o]} \cap {"friend", "foe"})]
    /\ count' = [count EXCEPT !.runs = @ + 1]
    /\ UNCHANGED <<links, known, world>>

BeginValidation == BeginRun([Fresh("validate", "next", Picked) EXCEPT !.todo = {EndsOf(l) : l \in links}])

NextPair(k) ==
    /\ job.kind = "validate" /\ job.at = "next" /\ k \in job.todo
    /\ \E f \in IdsFor(k, Min(k)), t \in IdsFor(k, Max(k)) :
         job' = [job EXCEPT !.at = "end", !.todo = @ \ {k},
                            !.pair = [from |-> Min(k), to |-> Max(k), fromId |-> f, toId |-> t]]
    /\ UNCHANGED <<links, known, world, been, count>>

\* Both rows, or the validation ends; what may happen between them is in
\* JumpbridgePairs.
Remove ==
    /\ job.at = "remove"
    /\ \/ /\ links' = links \ LinksOf(EndsOf(job.pair))
          /\ job' = PairDone(job) /\ count' = count
       \/ /\ links' = links /\ Counts("broken", "ok")
          /\ job' = PairDone([Told(job, "broken", "ok") EXCEPT !.todo = {}])
    /\ UNCHANGED <<known, world, been>>

\* Mutant: the ids are not turned round for the row of the other direction.
FilledUnturned(l) ==
    [l EXCEPT !.fromId = IF @ = NoId THEN job.got[1] ELSE @,
              !.toId   = IF @ = NoId THEN job.got[2] ELSE @]

\* setBackfillStructureIDs: an id that is there stays.
Filled(l) ==
    LET Got(s) == IF s = job.pair.from THEN job.got[1] ELSE job.got[2] IN
    [l EXCEPT !.fromId = IF @ = NoId THEN Got(l.from) ELSE @,
              !.toId   = IF @ = NoId THEN Got(l.to) ELSE @]

\* backfillPairStructureIDs; a row that cannot be saved ends a validation, and
\* discovery goes on to its next pair.
Fill ==
    /\ job.at = "fill"
    /\ \E R \in SUBSET LinksOf(EndsOf(job.pair)) :
         LET said == IF R = LinksOf(EndsOf(job.pair)) THEN "ok" ELSE "broken"
             j == Told(job, said, "ok") IN
         /\ links' = (links \ R) \cup {Filled(l) : l \in R}
         /\ Counts(said, "ok")
         /\ job' = PairDone(IF said = "ok" \/ j.kind = "discover" THEN j ELSE [j EXCEPT !.todo = {}])
    /\ UNCHANGED <<known, world, been>>

-----------------------------------------------------------------------------
(* Discovery.                                                                *)

BeginDiscovery == BeginRun([Fresh("discover", "ask", Picked) EXCEPT !.left = Picked])

\* collectGlobalStructureCandidatesForCharacter: the query is the arrow that is in
\* the names of bridges that lead somewhere.
GlobalSearch ==
    /\ job.at = "ask" /\ job.left # {}
    /\ SearchSays(job, Min(job.left), {t \in Structures : Leads[t] # Nowhere})
    /\ UNCHANGED <<links, known, world, been>>

\* If no character's search succeeds, the systems are searched one by one.
GlobalEnds ==
    /\ job.at = "ask" /\ job.left = {}
    /\ job' = IF ~job.heard /\ job.err # "none"
                THEN [job EXCEPT !.at = "systems", !.todo = SovSystems, !.err = "none"]
                ELSE [job EXCEPT !.at = "next", !.why = "look", !.err = "none",
                                 !.todo = {f[1] : f \in job.finders}]
    /\ UNCHANGED <<links, known, world, been, count>>

\* applyGlobalStructureCandidate, in the order of the ids, with those who found it.
LookAt ==
    LET t == Min(job.todo)
        j == [job EXCEPT !.todo = @ \ {t}] IN
    /\ job.at = "next" /\ job.why = "look" /\ job.todo # {}
    /\ job' = [AskAll(j, "look", t) EXCEPT !.left = {f[2] : f \in {g \in job.finders : g[1] = t}}]
    /\ UNCHANGED <<links, known, world, been, count>>

\* discoverPairProposalsBySystemNames
NextSystem(s) ==
    /\ job.at = "systems" /\ s \in job.todo
    /\ job' = [job EXCEPT !.at = "names", !.todo = @ \ {s}, !.pair.from = s,
                          !.rest = job.picked, !.spent = {},
                          !.firm = [o \in Corps |-> "unset"]]
    /\ UNCHANGED <<links, known, world, been, count>>

\* discoverEndpointsForCharacter: what another character's search returned before
\* is not looked at again.
NameSearch ==
    LET c == Min(job.rest) IN
    /\ job.at = "names" /\ job.rest # {}
    /\ SearchSays([job EXCEPT !.rest = @ \ {c}], c, {t \in Structures : job.pair.from \in SystemsOf(t)})
    /\ UNCHANGED <<links, known, world, been>>

EachHit(t) ==
    /\ job.at = "each" /\ t \in job.hits
    /\ job' = [AskAll([job EXCEPT !.hits = @ \ {t}], "name", t) EXCEPT !.left = {Min(job.rest)}]
    /\ UNCHANGED <<links, known, world, been, count>>

NextName ==
    /\ \/ job.at = "each" /\ job.hits = {}
          /\ job' = [job EXCEPT !.at = "names", !.why = "none", !.rest = @ \ {Min(@)}]
       \/ job.at = "names" /\ job.rest = {}
          /\ job' = [job EXCEPT !.at = "systems", !.pair = NoPair, !.spent = {}, !.err = "none"]
    /\ UNCHANGED <<links, known, world, been, count>>

\* The search is over: what it proposes is compared with the table.
Proposed ==
    /\ \/ job.at = "next" /\ job.why = "look"
       \/ job.at = "systems"
    /\ job.todo = {}
    /\ job' = [job EXCEPT !.at = "next", !.why = "none", !.heard = FALSE, !.finders = {},
                          !.todo = job.found, !.found = {}]
    /\ UNCHANGED <<links, known, world, been, count>>

Complete(k) == \E l \in LinksOf(k) : NoId \notin {l.fromId, l.toId}
PairedElsewhere(p) == \E l \in links : l.from \in EndsOf(p) /\ EndsOf(l) # EndsOf(p)

\* processDiscoveredPair: pairs that are complete or whose systems are paired with
\* others are passed over; distances are left out.
NextProposal(p) ==
    /\ job.kind = "discover" /\ job.at = "next" /\ job.why = "none" /\ p \in job.todo
    /\ job' = IF Complete(EndsOf(p)) \/ PairedElsewhere(p)
                THEN [job EXCEPT !.todo = @ \ {p}]
                ELSE [job EXCEPT !.todo = @ \ {p}, !.at = "end", !.pair = p]
    /\ UNCHANGED <<links, known, world, been, count>>

\* upgradeDiscoveredPair fills in ids, addDiscoveredPair saves both rows.
Save ==
    LET p == job.pair IN
    /\ job.at = "save"
    /\ IF LinksOf(EndsOf(p)) # {}
         THEN links' = links /\ job' = [job EXCEPT !.at = "fill"]
         ELSE /\ links' = links \cup
                   {[from |-> p.from, to |-> p.to, fromId |-> job.got[1], toId |-> job.got[2]],
                    [from |-> p.to, to |-> p.from, fromId |-> job.got[2], toId |-> job.got[1]]}
              /\ job' = PairDone(job)
    /\ UNCHANGED <<known, world, been, count>>

RunEnds ==
    /\ job.kind # "none" /\ job.at = "next" /\ job.why = "none" /\ job.todo = {}
    /\ job' = NoJob
    /\ UNCHANGED <<links, known, world, been, count>>

-----------------------------------------------------------------------------
(* EVE changes during a run; before it, Init has every state already.        *)

Moves ==
    /\ job.kind # "none" /\ count.moves < MaxMoves
    /\ count' = [count EXCEPT !.moves = @ + 1]
    /\ job' = [job EXCEPT !.calm = FALSE]

Destroyed(t) ==
    /\ Moves /\ t \in there
    /\ there' = there \ {t}
    /\ UNCHANGED <<links, known, sees, usable, alliance, been>>

AccessLost(c, t) ==
    /\ Moves /\ <<c, t>> \in sees /\ t \in there
    /\ sees' = sees \ {<<c, t>>}
    /\ UNCHANGED <<links, known, there, usable, alliance, been>>

TokenDies(c) ==
    /\ Moves /\ c \in usable
    /\ usable' = usable \ {c}
    /\ UNCHANGED <<links, known, there, sees, alliance, been>>

ChangesAlliance(o, a) ==
    /\ Moves /\ o \notin Trusted /\ a # alliance[o]
    /\ alliance' = [alliance EXCEPT ![o] = a]
    /\ been' = [been EXCEPT ![o] = @ \cup {a}]
    /\ UNCHANGED <<links, known, there, sees, usable>>

\* Another part of the program writes the corporation's row (see OrgCache).
RowWritten(o) ==
    /\ Moves /\ o \notin Trusted /\ known[o] # alliance[o]
    /\ known' = [known EXCEPT ![o] = alliance[o]]
    /\ UNCHANGED <<links, world, been>>

-----------------------------------------------------------------------------
Resolving ==
    \/ ResolveEnd \/ Search \/ NoMatch \/ SearchEnds \/ Fetch
    \/ \E t \in job.hits : Match(t)
Judging == JudgeKnown \/ JudgeAsked \/ JudgeFails
Validating ==
    \/ BeginValidation \/ Remove \/ Fill
    \/ job.kind = "validate" /\ \E k \in job.todo : NextPair(k)
Discovering ==
    \/ BeginDiscovery \/ GlobalSearch \/ GlobalEnds \/ LookAt \/ NameSearch \/ NextName
    \/ Proposed \/ Save
    \/ \E s \in SovSystems : NextSystem(s)
    \/ \E t \in job.hits : EachHit(t)
    \/ job.kind = "discover" /\ \E p \in job.todo : NextProposal(p)
Eve ==
    \/ \E t \in Structures : Destroyed(t) \/ \E c \in Characters : AccessLost(c, t)
    \/ \E c \in Characters : TokenDies(c)
    \/ \E o \in Corps : RowWritten(o) \/ \E a \in {"friend", "foe", "none"} : ChangesAlliance(o, a)

SearchNext == Resolving \/ Judging \/ Validating \/ Discovering \/ RunEnds \/ Eve

SearchSpec == SearchInit /\ [][SearchNext]_searchVars

-----------------------------------------------------------------------------
\* Owner o was not allowed, by its row or by EVE, at some time of the run.
Disliked(o) == o \notin Trusted /\ \E a \in been[o] : a # "friend"

\* Why a pair may be removed.  Answers that settle nothing (no access, a dead
\* token, a rate limit, a timeout) are never among the reasons.
Cause ==
    \/ \E t \in {job.pair.fromId, job.pair.toId} : t # NoId /\ t \notin there
    \/ NoId \notin {job.got[1], job.got[2]}
       /\ \A i \in {1, 2} : job.got[i] \notin there \/ Disliked(Owner[job.got[i]])
    \/ job.bad

\* A pair is removed only if a structure stored for it is gone, or if both of the
\* structures found are gone or have an owner that was not allowed at some time of
\* the run, or if a call of the run failed with an error that the code takes for an
\* answer (handlePairValidationResolutionError, isPairOwnerAllowedForValidation).
RemovalsHaveACause ==
    [][\A l \in links : (\E m \in links' : EndsOf(m) = EndsOf(l)) \/ Cause]_searchVars

\* A structure's id is stored with the system it is in, in both rows and however it
\* was found: preferred, cached for the system, searched for or filled in later
\* (resolveSystemStructureIDWithContext, setBackfillStructureIDs, savePair).
IdsAreOfTheirSystems ==
    \A l \in links : /\ l.fromId # NoId => BridgeIn(l.fromId, l.from)
                     /\ l.toId # NoId => BridgeIn(l.toId, l.to)

\* Bridges in system s that one of the characters C can see.
Visible(C, s) == {t \in there : BridgeIn(t, s) /\ \E c \in C : <<c, t>> \in sees}

\* A pair that lacks an id, or has at each end a structure that is there or a bridge
\* that can be seen.
Standing(C, k) ==
    NoId \notin UNION {IdsFor(k, s) : s \in k} =>
        \A s \in k : IdsFor(k, s) \cap there # {} \/ Visible(C, s) # {}

\* A validation that nothing disturbed leaves no pair with the structures of one end
\* gone unless its system has another bridge, which then vouches for it: the pair
\* keeps the id of the structure that is gone (validateExistingPair,
\* backfillPairStructureIDs).  The two rows of a pair may have different ids for one
\* end, as filling in replaces none; of these one is looked at (loadUniquePairs).
CalmRunsDropGoneBridges ==
    job.kind = "validate" /\ job.at = "next" /\ job.todo = {} /\ job.calm =>
        \A l \in links : Standing(job.picked, EndsOf(l))

Added == {l \in links' : \A m \in links : EndsOf(m) # EndsOf(l)}
Liked(o) == o \in Trusted \/ "friend" \in been[o]

\* Discovery adds a pair only if one of the two structures it stores has an owner
\* that was allowed at some time of the run.  The one exception: none of the
\* structures whose owners were looked at could be fetched again, and others in
\* the same systems took their places (applyGlobalStructureCandidate,
\* addEndpointFromStructure, resolveSystemStructureIDWithContext).
AddedBridgesAreOurs ==
    [][\A l \in Added :
          \/ Liked(Owner[l.fromId]) \/ Liked(Owner[l.toId])
          \/ ~job.calm /\ {l.fromId, l.toId} \cap {job.pair.fromId, job.pair.toId} = {}]_searchVars

-----------------------------------------------------------------------------
(* Types and the inductive invariant.                                        *)

Alliances == {"friend", "foe", "none"}
Between(S) == [from : S, to : S, fromId : StructureIds, toId : StructureIds]
Asking == {"ask", "next", "systems", "names", "each"}
Ending == {"end", "search", "match"}

Jobs(j) ==
    [kind : {"none", "validate", "discover"},
     at : Asking \cup Ending \cup {"idle", "fetch", "judge", "remove", "fill", "save"},
     todo : {j.todo}, pair : Between(SolarSystems \cup {Nowhere}), side : {1, 2},
     why : {"none", "prefer", "confirm", "owner", "look", "name"},
     ask : StructureIds, left : SUBSET j.picked, err : {"none", "unsure", "gone", "broken"},
     heard : BOOLEAN, hits : SUBSET Structures, rest : SUBSET j.picked,
     spent : SUBSET Structures, got : [{1, 2} -> StructureIds],
     said : [{1, 2} -> {"none", "yes", "no", "unsure"}],
     cache : {j.cache}, firm : [Corps -> Alliances \cup {"unset"}], picked : SUBSET Characters,
     finders : SUBSET (Structures \X j.picked), found : SUBSET Between(SolarSystems),
     calm : BOOLEAN, bad : BOOLEAN]

SearchTypes ==
    /\ links \subseteq Between(SolarSystems) /\ there \subseteq Structures
    /\ usable \subseteq Characters /\ alliance \in [Corps -> Alliances]
    /\ known \in [Corps -> Alliances \cup {"unknown"}] /\ been \in [Corps -> SUBSET Alliances]
    /\ count \in [runs : Nat, faults : Nat, moves : Nat]
    /\ job \in Jobs(job)

\* A run knows what rows and EVE said of a corporation since it began.
BeenInv ==
    job.kind # "none" => \A o \in Corps :
        /\ alliance[o] \in been[o]
        /\ "friend" \in {known[o], job.firm[o]} => "friend" \in been[o]
        /\ "foe" \in {known[o], job.firm[o]} => \E a \in been[o] : a # "friend"

\* The ids found, for the pair or for other ends, are of bridges in their systems.
Prefers(j) == j.at = "fetch" /\ j.why = "prefer"
End(j, i) == IF i = 1 THEN j.pair.from ELSE j.pair.to
GotInv(j) ==
    /\ \A i \in {1, 2} : j.got[i] # NoId => BridgeIn(j.got[i], End(j, i))
    /\ \A s \in DOMAIN j.cache : j.cache[s] # NoId => BridgeIn(j.cache[s], s)
    /\ j.at \in Asking \/ j.why \in {"look", "name"} => j.got = Nothing /\ j.side = 1
    /\ j.side = 2 /\ (j.at \in Ending \/ Prefers(j)) => j.got[1] # NoId
    /\ j.at = "save" => j.kind = "discover" /\ NoId \notin {j.got[1], j.got[2]}

\* What is fetched and by whom; an error that counts is remembered.
AskInv(j) ==
    /\ j.err = "broken" => j.bad
    /\ j.at = "fetch" => /\ j.left # {} /\ j.ask # NoId /\ j.why # "none"
                         /\ j.err = "gone" => j.ask \notin there
    /\ j.at = "fetch" /\ j.why \in {"prefer", "confirm"} => j.ask = StoredId(j)
    /\ j.at = "judge" => j.ask # NoId /\ j.why \in {"owner", "look", "name"}
    /\ j.at = "each" \/ j.why = "name" => j.rest # {}
    /\ IF j.kind = "none" THEN j = NoJob ELSE j.picked # {}

\* Validation concludes from what it was told.
No(j, i) == j.got[i] \notin there \/ Disliked(Owner[j.got[i]]) \/ j.bad
CauseIn(j) ==
    \/ \E t \in {j.pair.fromId, j.pair.toId} : t # NoId /\ t \notin there
    \/ NoId \notin {j.got[1], j.got[2]} /\ \A i \in {1, 2} : No(j, i)
    \/ j.bad
ConcludeInv(j) ==
    /\ j.why = "confirm" /\ j.at = "fetch" =>
         j.kind = "validate" /\ NoId \notin {j.pair.fromId, j.pair.toId}
    /\ j.why = "owner" /\ j.at \in {"fetch", "judge"} =>
         /\ j.kind = "validate" /\ NoId \notin {j.got[1], j.got[2]} /\ j.ask = j.got[j.side]
         /\ j.side = 2 => j.said[1] # "none" /\ (j.said[1] = "no" => No(j, 1))
    /\ j.at = "remove" => CauseIn(j)

\* Discovery proposes bridges of owners it likes, which while nothing happens can be
\* fetched again.
Reached(t, C) == \E c \in C : Fact(c, t) = "ok"
OfOurs(j, t, s) == BridgeIn(t, s) /\ Liked(Owner[t]) /\ (j.calm => Reached(t, j.picked))
Proposal(j, p) ==
    /\ p \in Between(SolarSystems) /\ (p.fromId # NoId \/ p.toId # NoId)
    /\ p.fromId # NoId => OfOurs(j, p.fromId, p.from)
    /\ p.toId # NoId => OfOurs(j, p.toId, p.to)
Resolves(j) == j.at \in Ending \cup {"save"} \/ Prefers(j)
ProposeInv(j) ==
    /\ j.why \in {"look", "name"} => j.kind = "discover" /\ j.at \in {"fetch", "judge", "next", "each"}
    /\ j.at \in Asking \ {"next"} => j.kind = "discover" /\ j.why \in {"none", "name"}
    /\ j.at = "judge" /\ j.why # "owner" => Leading(j) /\ (j.calm => Reached(j.ask, j.picked))
    /\ \A p \in j.found : Proposal(j, p)
    /\ j.kind = "discover" /\ Resolves(j) => Proposal(j, j.pair)
    /\ j.kind = "discover" /\ Resolves(j) /\ j.calm =>
         /\ j.side = 2 \/ j.at = "save" => j.pair.fromId \in {NoId, j.got[1]}
         /\ j.at = "save" => j.pair.toId \in {NoId, j.got[2]}
         /\ j.at \in {"search", "match"} => StoredId(j) = NoId
         /\ j.at = "fetch" => Reached(j.ask, j.left)

\* What there is to do: pairs, bridges to look at, systems, or proposals.
Named(j) == j.at \in {"systems", "names", "each"} \/ j.why = "name"
TodoInv(j) ==
    /\ j.kind = "validate" => \A k \in j.todo : \E a, b \in SolarSystems : k = {a, b}
    /\ j.kind = "discover" /\ j.why = "look" => j.todo \subseteq {f[1] : f \in j.finders}
    /\ j.kind = "discover" /\ Named(j) => j.todo \subseteq SolarSystems
    /\ j.kind = "discover" /\ j.at # "ask" /\ j.why # "look" /\ ~Named(j) =>
         \A p \in j.todo : Proposal(j, p)

\* A validation that nothing disturbed: what it found can be seen, what it is told of
\* a structure is so, and a pair is still to do, at hand, or standing.
AtHand(j, k) == j.at # "next" /\ k = EndsOf(j.pair)
CalmInv(j) ==
    j.kind = "validate" /\ j.calm =>
        /\ j.picked \subseteq usable
        /\ \A l \in links : EndsOf(l) \in j.todo \/ AtHand(j, EndsOf(l))
                            \/ Standing(j.picked, EndsOf(l))
        /\ \A s \in DOMAIN j.cache : j.cache[s] # NoId => j.cache[s] \in Visible(j.picked, s)
        /\ \A i \in {1, 2} : j.got[i] # NoId => j.got[i] \in Visible(j.picked, End(j, i))
        /\ j.at # "next" => /\ j.pair.fromId \in IdsFor(EndsOf(j.pair), j.pair.from)
                            /\ j.pair.toId \in IdsFor(EndsOf(j.pair), j.pair.to)
        /\ j.at = "match" => j.left # {} /\ j.heard
        /\ j.at = "search" /\ ~j.heard => j.left = j.picked
        /\ j.at = "fetch" /\ j.why = "confirm" =>
             /\ j.side = 2 => j.pair.fromId \in there
             /\ j.ask \notin there => j.err \in {"none", "gone"}
        /\ j.at = "fill" => NoId \notin {j.got[1], j.got[2]}

JobInv(j) == GotInv(j) /\ AskInv(j) /\ ConcludeInv(j) /\ ProposeInv(j) /\ TodoInv(j)
SearchInv == SearchTypes /\ BeenInv /\ IdsAreOfTheirSystems /\ JobInv(job)
=============================================================================
