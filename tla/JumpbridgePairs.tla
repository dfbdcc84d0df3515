-------------------------- MODULE JumpbridgePairs ---------------------------
(***************************************************************************)
(* The table of jumpbridges (backend/internal/jumpbridges) and those who   *)
(* write it: staff requests that add, remove, replace or import pairs, and *)
(* the job that removes pairs the game no longer shows and adds those it   *)
(* discovers.                                                              *)
(*                                                                         *)
(* A pair is two rows, one per direction, saved and deleted one at a time; *)
(* no index makes them unique and no transaction holds them together.  A   *)
(* writer reads the table, asks the game about the structures of both      *)
(* systems, which takes long, and only then saves what it decided from the *)
(* rows it read.                                                           *)
(*                                                                         *)
(* The ids of the structures in a row, its regions and its date are left   *)
(* out, and with them the steps that only fill in missing ids.             *)
(***************************************************************************)
EXTENDS Naturals, FiniteSets

CONSTANTS
    Systems,    \* solar systems
    Writers,    \* goroutines, each serving one request or job run after another
    MaxOps,     \* bound: the requests and job runs there are in all
    MaxFound    \* bound: the pairs a discovery proposes at most

ASSUME JumpbridgePairsAssumption == MaxOps \in Nat /\ MaxFound \in Nat

Links == {l \in Systems \X Systems : l[1] # l[2]}
Key(l) == {l[1], l[2]}
Keys == {Key(l) : l \in Links}

VARIABLES
    rows,       \* the table: [id, from, to], ids in the order of insertion
    lastId,     \* the id last given
    op,         \* op[w]: what writer w is doing
    took,       \* history: took[i], what the writer of row i had read
    loose,      \* history: rows that a writer left half done
    begun       \* requests and runs so far

vars == <<rows, lastId, op, took, loose, begun>>

\* kind: the operation; at: its next step; link: the pair to save, from its
\* first system; old: the pair to remove; todo: pairs still to process; doomed:
\* rows still to delete; view: the links discovery takes to be there; upTo: the
\* last id when the table was read; no: its number; first: its first row.
Idle == [kind |-> "idle", at |-> "idle", link |-> <<>>, old |-> {}, todo |-> {},
         doomed |-> {}, view |-> {}, upTo |-> 0, no |-> 0, first |-> 0]

Ends(r) == {r.from, r.to}
RowsOf(k) == {r \in rows : Ends(r) = k}
Ids(R) == {r.id : r \in R}
Mirrors(r, q) == q.from = r.to /\ q.to = r.from

\* loadExistingPairState: the pairs that are listed, and the systems that have
\* a partner, which are those some row starts from.
Stored == {<<r.from, r.to>> : r \in rows}
Listed(L, k) == \E l \in L : Key(l) = k
Linked(L, s) == \E l \in L : l[1] = s

\* The rows of one pair, the first of them with id i.
PairOf(l, i) == {[id |-> i, from |-> l[1], to |-> l[2]],
                 [id |-> i + 1, from |-> l[2], to |-> l[1]]}

\* The table is empty, or earlier operations left a pair in it.
Init ==
    /\ \/ rows = {} /\ lastId = 0
       \/ \E l \in Links : rows = PairOf(l, 1) /\ lastId = 2
    /\ op = [w \in Writers |-> Idle]
    /\ took = [i \in Ids(rows) |-> [upTo |-> 0, freed |-> {}, no |-> 0]]
    /\ loose = {}
    /\ begun = 0

Matching(S) == \A j, k \in S : j = k \/ j \cap k = {}

Become(w, o) == op' = [op EXCEPT ![w] = o]
Begin(w, o) == /\ begun < MaxOps
               /\ begun' = begun + 1
               /\ Become(w, [o EXCEPT !.no = begun'])
Goto(w, at) == Become(w, [op[w] EXCEPT !.at = at])

\* What follows when the operation has no more to do.
Finished(w) == IF op[w].kind = "validate"
                 THEN [Idle EXCEPT !.kind = "discover", !.at = "load", !.no = op[w].no]
                 ELSE Idle

-----------------------------------------------------------------------------
(* Staff requests up to the first write.                                     *)

\* Mutant: the endpoints are not compared.
AddPairToItself(w, l) ==
    /\ op[w] = Idle
    /\ ~Listed(Stored, Key(l))
    /\ \A s \in Key(l) : ~Linked(Stored, s)
    /\ Begin(w, [Idle EXCEPT !.kind = "add", !.at = "resolve", !.link = l, !.upTo = lastId])
    /\ UNCHANGED <<rows, lastId, took, loose>>

\* AddPair: both systems must be free.
AddPair(w, l) ==
    /\ op[w] = Idle
    /\ l[1] # l[2]
    /\ ~Listed(Stored, Key(l))
    /\ \A s \in Key(l) : ~Linked(Stored, s)
    /\ Begin(w, [Idle EXCEPT !.kind = "add", !.at = "resolve", !.link = l, !.upTo = lastId])
    /\ UNCHANGED <<rows, lastId, took, loose>>

\* A system of the pair to replace counts as free if that pair is the link listed
\* first for it, and may be if it is one of several.
Freed(s, old) == s \in old /\ \E r \in RowsOf(old) : r.from = s

\* Mutant: the partners of the new systems are not looked at.
UpdatePairUnchecked(w, old, l) ==
    /\ op[w] = Idle
    /\ l[1] # l[2] /\ Key(l) # old
    /\ Listed(Stored, old) /\ ~Listed(Stored, Key(l))
    /\ Begin(w, [Idle EXCEPT !.kind = "update", !.at = "resolve", !.link = l, !.old = old,
                             !.upTo = lastId])
    /\ UNCHANGED <<rows, lastId, took, loose>>

\* UpdatePair: the pair to replace is listed, the new one is not.
UpdatePair(w, old, l) ==
    /\ op[w] = Idle
    /\ l[1] # l[2] /\ Key(l) # old
    /\ Listed(Stored, old) /\ ~Listed(Stored, Key(l))
    /\ \A s \in Key(l) : Linked(Stored, s) => Freed(s, old)
    /\ Begin(w, [Idle EXCEPT !.kind = "update", !.at = "resolve", !.link = l, !.old = old,
                             !.upTo = lastId])
    /\ UNCHANGED <<rows, lastId, took, loose>>

\* RemovePair of staff: the rows are found and deleted by Scan and DeleteRow.
RemovePair(w, k) ==
    /\ op[w] = Idle
    /\ Begin(w, [Idle EXCEPT !.kind = "remove", !.at = "scan", !.old = k])
    /\ UNCHANGED <<rows, lastId, took, loose>>

\* UpdateFromLines with pairs that share no system; with none it is Clear.
Import(w, S) ==
    /\ op[w] = Idle
    /\ Matching(S)
    /\ Begin(w, [Idle EXCEPT !.kind = "import", !.at = "scan", !.todo = S])
    /\ UNCHANGED <<rows, lastId, took, loose>>

-----------------------------------------------------------------------------
(* The job: validation of what is stored, then discovery.                    *)

Validate(w) ==
    /\ op[w] = Idle
    /\ Begin(w, [Idle EXCEPT !.kind = "validate", !.at = "next",
                             !.todo = {Ends(r) : r \in rows}])
    /\ UNCHANGED <<rows, lastId, took, loose>>

\* The game confirms the pair, or the answer settles nothing.
Keep(w, k) ==
    /\ op[w].kind = "validate" /\ op[w].at = "next" /\ k \in op[w].todo
    /\ Become(w, [op[w] EXCEPT !.todo = @ \ {k}])
    /\ UNCHANGED <<rows, lastId, took, loose, begun>>

\* A structure is gone, or its owner is not allowed.
Reject(w, k) ==
    /\ op[w].kind = "validate" /\ op[w].at = "next" /\ k \in op[w].todo
    /\ Become(w, [op[w] EXCEPT !.todo = @ \ {k}, !.old = k, !.at = "scan"])
    /\ UNCHANGED <<rows, lastId, took, loose, begun>>

\* A system of the pair is unknown, or an id cannot be saved.
ValidationFails(w) ==
    /\ op[w].kind = "validate" /\ op[w].at = "next"
    /\ Become(w, Finished(w))
    /\ UNCHANGED <<rows, lastId, took, loose, begun>>

\* The searches of the game are over; the pairs they propose are compared with
\* the rows read now.
Discover(w, S) ==
    /\ op[w].kind = "discover" /\ op[w].at = "load" /\ Cardinality(S) <= MaxFound
    /\ Become(w, [op[w] EXCEPT !.at = "next", !.todo = S, !.view = Stored,
                        !.upTo = lastId])
    /\ UNCHANGED <<rows, lastId, took, loose, begun>>

DiscoveryFails(w) ==
    /\ op[w].kind = "discover" /\ op[w].at = "load"
    /\ Become(w, Idle)
    /\ UNCHANGED <<rows, lastId, took, loose, begun>>

\* A proposal that is listed already or whose systems are paired elsewhere.
SkipProposal(w, k) ==
    /\ op[w].kind = "discover" /\ op[w].at = "next" /\ k \in op[w].todo
    /\ Listed(op[w].view, k) \/ \E s \in k : Linked(op[w].view, s)
    /\ Become(w, [op[w] EXCEPT !.todo = @ \ {k}])
    /\ UNCHANGED <<rows, lastId, took, loose, begun>>

TakeProposal(w, l) ==
    /\ op[w].kind = "discover" /\ op[w].at = "next" /\ Key(l) \in op[w].todo
    /\ ~Listed(op[w].view, Key(l)) /\ \A s \in Key(l) : ~Linked(op[w].view, s)
    /\ Become(w, [op[w] EXCEPT !.todo = @ \ {Key(l)}, !.link = l, !.at = "resolve"])
    /\ UNCHANGED <<rows, lastId, took, loose, begun>>

ImportNext(w, l) ==
    /\ op[w].kind = "import" /\ op[w].at = "next" /\ Key(l) \in op[w].todo
    /\ Become(w, [op[w] EXCEPT !.todo = @ \ {Key(l)}, !.link = l, !.at = "first"])
    /\ UNCHANGED <<rows, lastId, took, loose, begun>>

NoneLeft(w) ==
    /\ op[w].at = "next" /\ op[w].todo = {}
    /\ Become(w, Finished(w))
    /\ UNCHANGED <<rows, lastId, took, loose, begun>>

-----------------------------------------------------------------------------
(* Asking the game about both systems of a pair.                             *)

Onward(w) == [op[w] EXCEPT !.at = "next", !.link = <<>>, !.first = 0]
AfterSkip(w) == IF op[w].kind \in {"import", "discover"} THEN Onward(w) ELSE Idle

Resolve(w) ==
    /\ op[w].at = "resolve"
    /\ Goto(w, "first")
    /\ UNCHANGED <<rows, lastId, took, loose, begun>>

Unresolved(w) ==
    /\ op[w].at = "resolve"
    /\ Become(w, AfterSkip(w))
    /\ UNCHANGED <<rows, lastId, took, loose, begun>>

-----------------------------------------------------------------------------
(* savePair: one row, then the other.                                        *)

Store(w, from, to) ==
    /\ rows' = rows \cup {[id |-> lastId + 1, from |-> from, to |-> to]}
    /\ lastId' = lastId + 1
    /\ took' = [i \in Ids(rows') |-> IF i \in Ids(rows) THEN took[i]
                                     ELSE [upTo |-> op[w].upTo, freed |-> op[w].old,
                                           no |-> op[w].no]]

SaveFirst(w) ==
    /\ op[w].at = "first"
    /\ Store(w, op[w].link[1], op[w].link[2])
    /\ Become(w, [op[w] EXCEPT !.at = "second", !.first = lastId + 1])
    /\ UNCHANGED <<loose, begun>>

\* A row that is, or is about to be, deleted without the one that mirrors it.
Going(i) == i \notin Ids(rows) \/ \E w \in Writers : i \in op[w].doomed

AfterSave(w) ==
    CASE op[w].kind = "add"      -> Idle
      [] op[w].kind = "update"   -> [op[w] EXCEPT !.at = "scan", !.first = 0]
      [] op[w].kind = "import"   -> Onward(w)
      [] op[w].kind = "discover" ->
           [Onward(w) EXCEPT !.view = @ \cup {op[w].link, <<op[w].link[2], op[w].link[1]>>}]

SaveSecond(w) ==
    /\ op[w].at = "second"
    /\ Store(w, op[w].link[2], op[w].link[1])
    /\ Become(w, AfterSave(w))
    /\ loose' = IF Going(op[w].first) THEN loose \cup {lastId + 1} ELSE loose
    /\ UNCHANGED begun

SaveFails(w) ==
    /\ op[w].at \in {"first", "second"}
    /\ Become(w, AfterSkip(w))
    /\ loose' = IF op[w].at = "second" THEN loose \cup ({op[w].first} \cap Ids(rows)) ELSE loose
    /\ UNCHANGED <<rows, lastId, took, begun>>

-----------------------------------------------------------------------------
(* RemovePair and deleteExistingJumpbridgeRows: load, then delete each row.  *)

\* Mutant: the query is limited to one row.
OneFound(w) ==
    IF op[w].kind = "import" THEN rows
    ELSE {r \in RowsOf(op[w].old) : \A q \in RowsOf(op[w].old) : r.id <= q.id}

\* An import clears the table, the others remove one pair in both directions.
Found(w) == IF op[w].kind = "import" THEN rows ELSE RowsOf(op[w].old)

Scan(w) ==
    /\ op[w].at = "scan"
    /\ Become(w, [op[w] EXCEPT !.at = "delete", !.doomed = Ids(Found(w)),
                               !.upTo = IF op[w].kind = "import" THEN lastId ELSE @])
    /\ UNCHANGED <<rows, lastId, took, loose, begun>>

\* The rows cannot be loaded: an import goes on as if there were none.
ScanFails(w) ==
    /\ op[w].at = "scan"
    /\ Become(w, IF op[w].kind = "import" THEN Onward(w) ELSE Finished(w))
    /\ loose' = IF op[w].kind \in {"import", "update"} THEN loose \cup Ids(Found(w)) ELSE loose
    /\ UNCHANGED <<rows, lastId, took, begun>>

\* Deleting a row that is gone already succeeds.
DeleteRow(w, i) ==
    /\ op[w].at = "delete" /\ i \in op[w].doomed
    /\ rows' = {r \in rows : r.id # i}
    /\ Become(w, [op[w] EXCEPT !.doomed = @ \ {i}])
    /\ took' = [j \in Ids(rows') |-> took[j]]
    /\ loose' = loose \ {i}
    /\ UNCHANGED <<lastId, begun>>

\* An import goes on to the next row, the others stop.
DeleteFails(w, i) ==
    /\ op[w].at = "delete" /\ i \in op[w].doomed
    /\ IF op[w].kind = "import"
         THEN /\ Become(w, [op[w] EXCEPT !.doomed = @ \ {i}])
              /\ loose' = loose \cup ({i} \cap Ids(rows))
         ELSE /\ Become(w, Finished(w))
              /\ loose' = loose \cup (op[w].doomed \cap Ids(rows))
    /\ UNCHANGED <<rows, lastId, took, begun>>

Deleted(w) ==
    /\ op[w].at = "delete" /\ op[w].doomed = {}
    /\ Become(w, IF op[w].kind \in {"import", "validate"}
                   THEN [Onward(w) EXCEPT !.old = {}] ELSE Idle)
    /\ UNCHANGED <<rows, lastId, took, loose, begun>>

-----------------------------------------------------------------------------
\* Rows that stay half done if writer w stops where it is.
LeftBy(w) ==
    op[w].doomed \cup
    (IF op[w].at = "second" THEN {op[w].first} ELSE {}) \cup
    (IF op[w].kind = "update" THEN Ids(RowsOf(op[w].old)) ELSE {})

\* The process stops.
Crash ==
    /\ op' = [w \in Writers |-> Idle]
    /\ loose' = loose \cup (Ids(rows) \cap UNION {LeftBy(w) : w \in Writers})
    /\ UNCHANGED <<rows, lastId, took, begun>>

-----------------------------------------------------------------------------
StaffRequest(w) ==
    \/ \E l \in Systems \X Systems : AddPair(w, l)
    \/ \E l \in Systems \X Systems : \E k \in Keys : UpdatePair(w, k, l)
    \/ \E k \in Keys : RemovePair(w, k)
    \/ \E S \in SUBSET Keys : Import(w, S)

JobStep(w) ==
    \/ Validate(w) \/ ValidationFails(w) \/ DiscoveryFails(w)
    \/ \E S \in SUBSET Keys : Discover(w, S)
    \/ \E k \in op[w].todo : Keep(w, k) \/ Reject(w, k) \/ SkipProposal(w, k)
    \/ \E l \in Links : TakeProposal(w, l)

Write(w) ==
    \/ \E l \in Links : ImportNext(w, l)
    \/ NoneLeft(w) \/ Resolve(w) \/ Unresolved(w)
    \/ SaveFirst(w) \/ SaveSecond(w) \/ SaveFails(w)
    \/ Scan(w) \/ ScanFails(w) \/ Deleted(w)
    \/ \E i \in op[w].doomed : DeleteRow(w, i) \/ DeleteFails(w, i)

Next ==
    \/ \E w \in Writers : StaffRequest(w) \/ JobStep(w) \/ Write(w)
    \/ Crash

Spec == Init /\ [][Next]_vars

-----------------------------------------------------------------------------
Rows == [id : Nat, from : Systems, to : Systems]
Ops == [kind : {"idle", "add", "update", "remove", "import", "validate", "discover"},
        at : {"idle", "resolve", "first", "second", "scan", "delete", "load", "next"},
        link : Links \cup {<<>>}, old : Keys \cup {{}}, todo : SUBSET Keys,
        doomed : SUBSET Nat, view : SUBSET Links, upTo : Nat, no : Nat, first : Nat]
Notes == [upTo : Nat, freed : Keys \cup {{}}, no : Nat]

\* Every variable has its type, ids are not reused, and a row joins two systems
\* (the table and the operations of jumpbridges.go, discovery.go, validation.go).
TypeOK ==
    /\ lastId \in Nat /\ begun \in Nat
    /\ rows \in SUBSET Rows
    /\ \A r \in rows : r.from # r.to /\ r.id \in 1..lastId
    /\ \A r, q \in rows : r.id = q.id => r = q
    /\ op \in [Writers -> Ops]
    /\ took \in [Ids(rows) -> Notes]
    /\ loose \subseteq Ids(rows)

\* A pair is never half stored without a cause: if a row has no mirror, then its
\* second row is still to be saved, or a writer that loaded it is still to delete
\* it, or a save, a deletion or the process failed between the two rows, or a
\* removal loaded the first row before the second was saved (savePair, RemovePair
\* and deleteExistingJumpbridgeRows in jumpbridges.go).
HalfPairsHaveACause ==
    \A r \in rows :
        \/ \E q \in rows : Mirrors(r, q)
        \/ \E w \in Writers : op[w].at = "second" /\ op[w].first = r.id
        \/ \E w \in Writers : r.id \in op[w].doomed
        \/ r.id \in loose

\* An older row r and a younger row q give a system two partners.
Clash(r, q) == r.id < q.id /\ r.from \in Ends(q) /\ Ends(r) # Ends(q)

\* w, who wrote q, is replacing the pair of r.
ReplacedBy(r, q, w) ==
    op[w].kind = "update" /\ op[w].no = took[q.id].no /\ op[w].old = Ends(r)

\* A system is never given a second partner knowingly: if a row leads a system to
\* one partner and a younger row gives it another, then the writer of the younger
\* row read the table before the older one was there, or is still replacing the
\* older pair, or replaced another pair of that system, or one of the two rows was
\* left by a writer that failed (the checks of AddPairWithContext, updatePairState,
\* resolveUpdatePairEndpoints and pairedElsewhere, and the order of replacePair
\* and of the import).
LinkedTwiceHasACause ==
    \A r, q \in rows : Clash(r, q) =>
        \/ took[q.id].upTo < r.id
        \/ \E w \in Writers : ReplacedBy(r, q, w)
        \/ r.from \in took[q.id].freed /\ Ends(r) # took[q.id].freed
        \/ {r.id, q.id} \cap loose # {}

-----------------------------------------------------------------------------
(* The inductive invariant.                                                  *)

Doomed(i) == \E w \in Writers : i \in op[w].doomed
BeingSaved(i) == \E w \in Writers : op[w].at = "second" /\ op[w].first = i

\* What the step a writer is at says of its other fields.
OpInv ==
    \A w \in Writers :
        LET o == op[w] IN
        /\ o.upTo <= lastId /\ o.no <= begun /\ o.first <= lastId
        /\ o.doomed \subseteq 1..lastId
        /\ o.doomed # {} => o.at = "delete"
        /\ o.at \in {"resolve", "first", "second"} =>
             o.link \in Links /\ o.kind \in {"add", "update", "import", "discover"}
        /\ o.at = "second" => \A r \in rows : r.id = o.first => <<r.from, r.to>> = o.link
        /\ o.kind = "update" => o.at \in {"resolve", "first", "second", "scan", "delete"}
        /\ o.at = "scan" => o.kind \in {"update", "remove", "import", "validate"}
        /\ o.kind \in {"add", "import", "discover", "idle"} => o.old = {}
        /\ \A v \in Writers : o.kind # "idle" /\ o.no = op[v].no => v = w
        /\ o.kind # "idle" => o.no > 0

\* A row that is not loose has a mirror nobody deletes, or is not finished.
MirrorInv ==
    \A r \in rows :
        \/ \E q \in rows : Mirrors(r, q) /\ ~Doomed(q.id)
        \/ BeingSaved(r.id)
        \/ Doomed(r.id)
        \/ r.id \in loose

\* What writer w still knows of the rows it read.
Remembers(w) ==
    \A r \in rows :
        LET o == op[w] IN
        r.id <= o.upTo =>
            /\ (o.at \in {"resolve", "first", "second"} /\ Ends(r) # Key(o.link)
                   /\ r.from \in Key(o.link)) =>
                 r.id \in loose \/ (o.kind = "update" /\ r.from \in o.old)
            /\ o.kind = "discover" => <<r.from, r.to>> \in o.view
            /\ o.kind = "import" => r.id \in o.doomed \cup loose
            /\ (o.kind = "update" /\ o.at = "delete" /\ Ends(r) = o.old) => r.id \in o.doomed

ViewInv == \A w \in Writers : Remembers(w)

\* The rows an update has saved so far.
OwnInv ==
    /\ \A r \in rows : took[r.id].no <= begun
    /\ \A w \in Writers : \A r \in rows :
         (op[w].kind = "update" /\ took[r.id].no = op[w].no) =>
             /\ op[w].at \notin {"resolve", "first"}
             /\ op[w].at = "second" => r.id = op[w].first
             /\ took[r.id].upTo = op[w].upTo

IInv == TypeOK /\ OpInv /\ MirrorInv /\ ViewInv /\ OwnInv /\ LinkedTwiceHasACause
=============================================================================
