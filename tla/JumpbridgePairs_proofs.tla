----------------------- MODULE JumpbridgePairs_proofs -----------------------
(***************************************************************************)
(* The invariants of the two modules on the jumpbridge job, proved for any *)
(* systems, writers, structures, characters and bounds: first those of     *)
(* JumpbridgePairs, where each part of the inductive invariant has a lemma *)
(* that says every step keeps it, then those of StructureSearch.           *)
(***************************************************************************)
EXTENDS JumpbridgePairs, StructureSearch, WellFoundedInduction, TLAPS

-----------------------------------------------------------------------------
(* Types.                                                                    *)

\* A writer that becomes another keeps to itself.
LEMMA BecomeAlone ==
    ASSUME op \in [Writers -> Ops], NEW w \in Writers, NEW o, Become(w, o)
    PROVE  op'[w] = o /\ \A v \in Writers \ {w} : op'[v] = op[v]
PROOF
  BY DEF Become

\* Every step keeps the types of the operations.
LEMMA OpsStep ==
    TypeOK /\ OpInv /\ [Next]_vars => op' \in [Writers -> Ops]
PROOF
<1> SUFFICES ASSUME TypeOK, OpInv, [Next]_vars PROVE op' \in [Writers -> Ops]
    OBVIOUS
<1> DEFINE Goal == op' \in [Writers -> Ops]
<1>a. op \in [Writers -> Ops] /\ lastId \in Nat /\ begun \in Nat
    BY DEF TypeOK
<1>b. ASSUME NEW w \in Writers PROVE op[w] \in Ops
    BY <1>a
<1>c. ASSUME NEW w \in Writers, NEW o \in Ops, Become(w, o) PROVE Goal
    BY <1>a, <1>c DEF Become
<1>d. Idle \in Ops
    BY DEF Idle, Ops
<1>e. ASSUME NEW w \in Writers PROVE Finished(w) \in Ops /\ Onward(w) \in Ops
  <2>1. op[w].no \in Nat
    BY <1>b DEF Ops
  <2>2. [Idle EXCEPT !.kind = "discover", !.at = "load", !.no = op[w].no] \in Ops
    BY <1>d, <2>1 DEF Ops
  <2>3. Onward(w) \in Ops
    BY <1>b DEF Onward, Ops
  <2>4. QED
    BY <1>d, <2>2, <2>3 DEF Finished
<1>f. ASSUME NEW w \in Writers, NEW o \in Ops, Begin(w, o) PROVE Goal
  <2>1. begun' \in Nat /\ Become(w, [o EXCEPT !.no = begun'])
    BY <1>a, <1>f DEF Begin
  <2>2. [o EXCEPT !.no = begun'] \in Ops
    BY <2>1 DEF Ops
  <2>3. QED
    BY <1>c, <2>1, <2>2
<1>g. ASSUME NEW r \in rows
      PROVE  Ends(r) \in Keys /\ <<r.from, r.to>> \in Links /\ r.id \in Nat
    BY <1>g DEF TypeOK, Rows, Ends, Keys, Links, Key
<1>1. ASSUME NEW w \in Writers, StaffRequest(w) PROVE Goal
  <2>1. ASSUME NEW l \in Systems \X Systems, AddPair(w, l) PROVE Goal
    <3>1. l \in Links
      BY <2>1 DEF AddPair, Links
    <3>2. [Idle EXCEPT !.kind = "add", !.at = "resolve", !.link = l, !.upTo = lastId] \in Ops
      BY <1>a, <1>d, <3>1 DEF Ops
    <3>3. QED
      BY <1>f, <2>1, <3>2 DEF AddPair
  <2>2. ASSUME NEW l \in Systems \X Systems, NEW k \in Keys, UpdatePair(w, k, l) PROVE Goal
    <3>1. l \in Links
      BY <2>2 DEF UpdatePair, Links
    <3>2. [Idle EXCEPT !.kind = "update", !.at = "resolve", !.link = l, !.old = k,
                       !.upTo = lastId] \in Ops
      BY <1>a, <1>d, <3>1 DEF Ops
    <3>3. QED
      BY <1>f, <2>2, <3>2 DEF UpdatePair
  <2>3. ASSUME NEW k \in Keys, RemovePair(w, k) PROVE Goal
    <3>1. [Idle EXCEPT !.kind = "remove", !.at = "scan", !.old = k] \in Ops
      BY <1>d DEF Ops
    <3>2. QED
      BY <1>f, <2>3, <3>1 DEF RemovePair
  <2>4. ASSUME NEW S \in SUBSET Keys, Import(w, S) PROVE Goal
    <3>1. [Idle EXCEPT !.kind = "import", !.at = "scan", !.todo = S] \in Ops
      BY <1>d DEF Ops
    <3>2. QED
      BY <1>f, <2>4, <3>1 DEF Import
  <2>5. QED
    BY <1>1, <2>1, <2>2, <2>3, <2>4 DEF StaffRequest
<1>2. ASSUME NEW w \in Writers, JobStep(w) PROVE Goal
  <2>1. CASE Validate(w)
    <3>1. {Ends(r) : r \in rows} \subseteq Keys
      BY <1>g
    <3>2. [Idle EXCEPT !.kind = "validate", !.at = "next", !.todo = {Ends(r) : r \in rows}] \in Ops
      BY <1>d, <3>1 DEF Ops
    <3>3. QED
      BY <1>f, <2>1, <3>2 DEF Validate
  <2>2. CASE ValidationFails(w) \/ DiscoveryFails(w)
    BY <1>c, <1>d, <1>e, <2>2 DEF ValidationFails, DiscoveryFails
  <2>3. ASSUME NEW S \in SUBSET Keys, Discover(w, S) PROVE Goal
    <3>1. Stored \subseteq Links
      BY <1>g DEF Stored
    <3>2. [op[w] EXCEPT !.at = "next", !.todo = S, !.view = Stored, !.upTo = lastId] \in Ops
      BY <1>a, <1>b, <3>1 DEF Ops
    <3>3. QED
      BY <1>c, <2>3, <3>2 DEF Discover
  <2>4. ASSUME NEW k \in op[w].todo, Keep(w, k) \/ SkipProposal(w, k) PROVE Goal
    <3>1. [op[w] EXCEPT !.todo = @ \ {k}] \in Ops
      BY <1>b DEF Ops
    <3>2. QED
      BY <1>c, <2>4, <3>1 DEF Keep, SkipProposal
  <2>5. ASSUME NEW k \in op[w].todo, Reject(w, k) PROVE Goal
    <3>1. [op[w] EXCEPT !.todo = @ \ {k}, !.old = k, !.at = "scan"] \in Ops
      BY <1>b DEF Ops
    <3>2. QED
      BY <1>c, <2>5, <3>1 DEF Reject
  <2>6. ASSUME NEW l \in Links, TakeProposal(w, l) PROVE Goal
    <3>1. [op[w] EXCEPT !.todo = @ \ {Key(l)}, !.link = l, !.at = "resolve"] \in Ops
      BY <1>b DEF Ops
    <3>2. QED
      BY <1>c, <2>6, <3>1 DEF TakeProposal
  <2>7. QED
    BY <1>2, <2>1, <2>2, <2>3, <2>4, <2>5, <2>6 DEF JobStep
<1>3. ASSUME NEW w \in Writers, Write(w) PROVE Goal
  <2>1. ASSUME NEW l \in Links, ImportNext(w, l) PROVE Goal
    <3>1. [op[w] EXCEPT !.todo = @ \ {Key(l)}, !.link = l, !.at = "first"] \in Ops
      BY <1>b DEF Ops
    <3>2. QED
      BY <1>c, <2>1, <3>1 DEF ImportNext
  <2>2. CASE NoneLeft(w)
    BY <1>c, <1>e, <2>2 DEF NoneLeft
  <2>3. CASE Resolve(w)
    <3>1. [op[w] EXCEPT !.at = "first"] \in Ops
      BY <1>b DEF Ops
    <3>2. QED
      BY <1>c, <2>3, <3>1 DEF Resolve, Goto
  <2>4. CASE Unresolved(w) \/ SaveFails(w)
    BY <1>c, <1>d, <1>e, <2>4 DEF Unresolved, SaveFails, AfterSkip
  <2>5. CASE SaveFirst(w)
    <3>1. \A n \in Nat : [op[w] EXCEPT !.at = "second", !.first = n] \in Ops
      BY <1>b DEF Ops
    <3>2. lastId + 1 \in Nat
      BY <1>a
    <3>3. QED
      BY <1>c, <2>5, <3>1, <3>2 DEF SaveFirst
  <2>6. CASE SaveSecond(w)
    <3>1. op[w].kind \in {"add", "update", "import", "discover"} /\ op[w].link \in Links
      BY <2>6 DEF OpInv, SaveSecond
    <3>2. [op[w] EXCEPT !.at = "scan", !.first = 0] \in Ops
      BY <1>b DEF Ops
    <3>3. {op[w].link, <<op[w].link[2], op[w].link[1]>>} \subseteq Links
      BY <3>1 DEF Links
    <3>4. [Onward(w) EXCEPT !.view = @ \cup {op[w].link, <<op[w].link[2], op[w].link[1]>>}] \in Ops
      BY <1>e, <3>3 DEF Ops
    <3>5. AfterSave(w) \in Ops
      BY <1>d, <1>e, <3>1, <3>2, <3>4 DEF AfterSave
    <3>6. QED
      BY <1>c, <2>6, <3>5 DEF SaveSecond
  <2>7. CASE Scan(w)
    <3>1. Ids(Found(w)) \subseteq Nat
      BY <1>g DEF Ids, Found, RowsOf
    <3>2. [op[w] EXCEPT !.at = "delete", !.doomed = Ids(Found(w)),
                        !.upTo = IF op[w].kind = "import" THEN lastId ELSE @] \in Ops
      BY <1>a, <1>b, <3>1 DEF Ops
    <3>3. QED
      BY <1>c, <2>7, <3>2 DEF Scan
  <2>8. CASE ScanFails(w)
    BY <1>c, <1>e, <2>8 DEF ScanFails
  <2>9. CASE Deleted(w)
    <3>1. [Onward(w) EXCEPT !.old = {}] \in Ops
      BY <1>e DEF Ops
    <3>2. QED
      BY <1>c, <1>d, <2>9, <3>1 DEF Deleted
  <2>10. ASSUME NEW i \in op[w].doomed, DeleteRow(w, i) \/ DeleteFails(w, i) PROVE Goal
    <3>1. [op[w] EXCEPT !.doomed = @ \ {i}] \in Ops
      BY <1>b DEF Ops
    <3>2. QED
      BY <1>c, <1>e, <2>10, <3>1 DEF DeleteRow, DeleteFails
  <2>11. QED
    BY <1>3, <2>1, <2>2, <2>3, <2>4, <2>5, <2>6, <2>7, <2>8, <2>9, <2>10 DEF Write
<1>4. CASE Crash
    BY <1>d, <1>4 DEF Crash
<1>5. CASE UNCHANGED vars
    BY <1>a, <1>5 DEF vars
<1>6. QED
    BY <1>1, <1>2, <1>3, <1>4, <1>5 DEF Next

\* Storing a row adds one with a new id, and notes what its writer had read.
LEMMA StoreEffect ==
    ASSUME TypeOK, NEW w \in Writers, NEW l \in Links, Store(w, l[1], l[2])
    PROVE  /\ lastId' = lastId + 1
           /\ \E new \in Rows :
                /\ new.id = lastId + 1 /\ <<new.from, new.to>> = l
                /\ rows' = rows \cup {new}
           /\ Ids(rows') = Ids(rows) \cup {lastId + 1}
           /\ \A r \in rows : took'[r.id] = took[r.id] /\ r.id \in Nat /\ r.id <= lastId
           /\ took'[lastId + 1] = [upTo |-> op[w].upTo, freed |-> op[w].old, no |-> op[w].no]
           /\ took' \in [Ids(rows') -> Notes]
PROOF
<1>1. PICK new \in Rows : /\ new.id = lastId + 1 /\ new.from = l[1] /\ new.to = l[2]
                          /\ rows' = rows \cup {new}
  <2> DEFINE r == [id |-> lastId + 1, from |-> l[1], to |-> l[2]]
  <2>1. lastId + 1 \in Nat /\ l[1] \in Systems /\ l[2] \in Systems
    BY DEF TypeOK, Links
  <2>2. r \in Rows /\ r.id = lastId + 1 /\ r.from = l[1] /\ r.to = l[2]
    BY <2>1 DEF Rows
  <2>3. rows' = rows \cup {r}
    BY DEF Store
  <2>4. QED
    BY <2>2, <2>3
<1>2. Ids(rows') = Ids(rows) \cup {lastId + 1}
    BY <1>1 DEF Ids
<1>3. \A r \in rows : r.id \in Nat /\ r.id <= lastId /\ r.id \in Ids(rows)
    BY DEF TypeOK, Ids
<1>4. lastId \in Nat /\ lastId + 1 \notin Ids(rows)
    BY <1>3 DEF TypeOK, Ids
<1>5. took' = [i \in Ids(rows') |-> IF i \in Ids(rows) THEN took[i]
                                   ELSE [upTo |-> op[w].upTo, freed |-> op[w].old,
                                         no |-> op[w].no]]
    BY DEF Store
<1>6. [upTo |-> op[w].upTo, freed |-> op[w].old, no |-> op[w].no] \in Notes
    BY DEF TypeOK, Ops, Notes
<1>7. took' \in [Ids(rows') -> Notes]
    BY <1>5, <1>6 DEF TypeOK
<1>8. l = <<new.from, new.to>>
    BY <1>1 DEF Links
<1>9. /\ \A r \in rows : took'[r.id] = took[r.id]
      /\ took'[lastId + 1] = [upTo |-> op[w].upTo, freed |-> op[w].old, no |-> op[w].no]
    BY <1>2, <1>3, <1>4, <1>5
<1>10. QED
    BY <1>1, <1>2, <1>3, <1>7, <1>8, <1>9 DEF Store

\* Every step keeps the types.
LEMMA TypeStep ==
    TypeOK /\ OpInv /\ [Next]_vars => TypeOK'
PROOF
<1> SUFFICES ASSUME TypeOK, OpInv, [Next]_vars PROVE TypeOK'
    OBVIOUS
<1>1. op' \in [Writers -> Ops]
    BY OpsStep
<1>2. CASE UNCHANGED <<rows, lastId, took, loose>> /\ begun' \in {begun, begun + 1}
    BY <1>1, <1>2 DEF TypeOK, Ids
<1>3. ASSUME NEW w \in Writers, NEW l \in Links, Store(w, l[1], l[2]),
             loose' \subseteq loose \cup {lastId + 1}, begun' = begun
      PROVE  TypeOK'
  <2>0. lastId \in Nat /\ begun \in Nat /\ lastId' = lastId + 1
    BY <1>3, StoreEffect DEF TypeOK
  <2>1. PICK new \in Rows : new.id = lastId + 1 /\ <<new.from, new.to>> = l /\ rows' = rows \cup {new}
    BY <1>3, StoreEffect
  <2>2. rows' \in SUBSET Rows /\ lastId' \in Nat /\ begun' \in Nat
    BY <1>3, <2>0, <2>1 DEF TypeOK
  <2>3. new.from # new.to
    BY <2>1 DEF Links
  <2>4. \A r \in rows : r.from # r.to /\ r.id \in Nat /\ r.id <= lastId /\ r.id >= 1
    BY DEF TypeOK, Rows
  <2>5. \A r \in rows' : r.from # r.to /\ r.id \in 1..lastId'
    BY <2>0, <2>1, <2>3, <2>4
  <2>6. \A r, q \in rows' : r.id = q.id => r = q
    BY <2>0, <2>1, <2>4 DEF TypeOK
  <2>7. took' \in [Ids(rows') -> Notes] /\ loose' \subseteq Ids(rows')
    BY <1>3, StoreEffect DEF TypeOK
  <2>8. QED
    BY <1>1, <2>2, <2>5, <2>6, <2>7 DEF TypeOK
<1>4. ASSUME NEW w \in Writers, SaveFirst(w) \/ SaveSecond(w) PROVE TypeOK'
  <2>1. op[w].link \in Links /\ <<op[w].link[2], op[w].link[1]>> \in Links
    BY <1>4 DEF OpInv, SaveFirst, SaveSecond, Links
  <2>2. QED
    BY <1>3, <1>4, <2>1 DEF SaveFirst, SaveSecond
<1>5. CASE UNCHANGED <<rows, lastId, took, begun>> /\ loose' \subseteq loose \cup Ids(rows)
    BY <1>1, <1>5 DEF TypeOK, Ids
<1>6. ASSUME NEW w \in Writers, NEW i \in op[w].doomed, DeleteRow(w, i) PROVE TypeOK'
  <2>1. rows' = {r \in rows : r.id # i} /\ Ids(rows') = Ids(rows) \ {i}
    BY <1>6 DEF DeleteRow, Ids
  <2>2. took' \in [Ids(rows') -> Notes]
    BY <1>6, <2>1 DEF DeleteRow, TypeOK
  <2>3. QED
    BY <1>1, <1>6, <2>1, <2>2 DEF DeleteRow, TypeOK
<1>7. ASSUME NEW w \in Writers, StaffRequest(w) \/ JobStep(w) PROVE TypeOK'
    BY <1>2, <1>7 DEF StaffRequest, JobStep, AddPair, UpdatePair, RemovePair, Import,
       Validate, ValidationFails, DiscoveryFails, Discover, Keep, Reject, SkipProposal,
       TakeProposal, Begin
<1>8. ASSUME NEW w \in Writers, Write(w) PROVE TypeOK'
  <2>1. CASE NoneLeft(w) \/ Resolve(w) \/ Unresolved(w) \/ Scan(w) \/ Deleted(w)
             \/ \E l \in Links : ImportNext(w, l)
    BY <1>2, <2>1 DEF NoneLeft, Resolve, Unresolved, Scan, Deleted, ImportNext
  <2>2. CASE SaveFails(w) \/ ScanFails(w) \/ \E i \in op[w].doomed : DeleteFails(w, i)
    BY <1>5, <2>2 DEF SaveFails, ScanFails, DeleteFails, Found, RowsOf, Ids
  <2>3. QED
    BY <1>4, <1>6, <1>8, <2>1, <2>2 DEF Write
<1>9. CASE Crash
    BY <1>5, <1>9 DEF Crash
<1>10. CASE UNCHANGED vars
    BY <1>2, <1>10 DEF vars
<1>11. QED
    BY <1>7, <1>8, <1>9, <1>10 DEF Next


\* Every step keeps what a writer's step says of its other fields.
LEMMA OpStep ==
    TypeOK /\ OpInv /\ [Next]_vars => OpInv'
PROOF
<1> SUFFICES ASSUME TypeOK, OpInv, [Next]_vars PROVE OpInv'
    OBVIOUS
<1>1. ASSUME NEW w \in Writers, NEW l \in Systems \X Systems, AddPair(w, l) PROVE OpInv'
    BY <1>1 DEF AddPair, Become, Begin, TypeOK, OpInv, Ops, Idle, Links
<1>2. ASSUME NEW w \in Writers, NEW l \in Systems \X Systems, NEW k \in Keys, UpdatePair(w, k, l)
      PROVE  OpInv'
    BY <1>2 DEF UpdatePair, Become, Begin, TypeOK, OpInv, Ops, Idle, Links
<1>3. ASSUME NEW w \in Writers, NEW k \in Keys, RemovePair(w, k) PROVE OpInv'
    BY <1>3 DEF RemovePair, Become, Begin, TypeOK, OpInv, Ops, Idle
<1>4. ASSUME NEW w \in Writers, NEW S \in SUBSET Keys, Import(w, S) PROVE OpInv'
    BY <1>4 DEF Import, Become, Begin, TypeOK, OpInv, Ops, Idle
<1>5. ASSUME NEW w \in Writers, Validate(w) PROVE OpInv'
    BY <1>5 DEF Validate, Become, Begin, TypeOK, OpInv, Ops, Idle
<1>6. ASSUME NEW w \in Writers, ValidationFails(w) PROVE OpInv'
    BY <1>6 DEF ValidationFails, Become, Finished, TypeOK, OpInv, Ops, Idle
<1>7. ASSUME NEW w \in Writers, DiscoveryFails(w) PROVE OpInv'
    BY <1>7 DEF DiscoveryFails, Become, TypeOK, OpInv, Ops, Idle
<1>8. ASSUME NEW w \in Writers, NEW S \in SUBSET Keys, Discover(w, S) PROVE OpInv'
    BY <1>8 DEF Discover, Become, Stored, TypeOK, OpInv, Ops, Idle
<1>9. ASSUME NEW w \in Writers, NEW k \in op[w].todo, Keep(w, k) PROVE OpInv'
    BY <1>9 DEF Keep, Become, TypeOK, OpInv, Ops, Idle
<1>10. ASSUME NEW w \in Writers, NEW k \in op[w].todo, Reject(w, k) PROVE OpInv'
    BY <1>10 DEF Reject, Become, TypeOK, OpInv, Ops, Idle
<1>11. ASSUME NEW w \in Writers, NEW k \in op[w].todo, SkipProposal(w, k) PROVE OpInv'
    BY <1>11 DEF SkipProposal, Become, TypeOK, OpInv, Ops, Idle
<1>12. ASSUME NEW w \in Writers, NEW l \in Links, TakeProposal(w, l) PROVE OpInv'
    BY <1>12 DEF TakeProposal, Become, TypeOK, OpInv, Ops, Idle
<1>13. ASSUME NEW w \in Writers, NEW l \in Links, ImportNext(w, l) PROVE OpInv'
    BY <1>13 DEF ImportNext, Become, TypeOK, OpInv, Ops, Idle
<1>14. ASSUME NEW w \in Writers, NoneLeft(w) PROVE OpInv'
    BY <1>14 DEF NoneLeft, Become, Finished, TypeOK, OpInv, Ops, Idle
<1>15. ASSUME NEW w \in Writers, Resolve(w) PROVE OpInv'
    BY <1>15 DEF Resolve, Become, Goto, TypeOK, OpInv, Ops, Idle
<1>16. ASSUME NEW w \in Writers, Unresolved(w) PROVE OpInv'
    BY <1>16 DEF Unresolved, Become, AfterSkip, Onward, TypeOK, OpInv, Ops, Idle
<1>17. ASSUME NEW w \in Writers, SaveFirst(w) PROVE OpInv'
    BY <1>17 DEF SaveFirst, Become, Store, TypeOK, OpInv, Ops, Idle, Links, Rows
<1>18. ASSUME NEW w \in Writers, SaveSecond(w) PROVE OpInv'
    BY <1>18 DEF SaveSecond, Become, Store, AfterSave, Onward, Going, TypeOK, OpInv, Ops,
       Idle
<1>19. ASSUME NEW w \in Writers, SaveFails(w) PROVE OpInv'
    BY <1>19 DEF SaveFails, Become, AfterSkip, Onward, TypeOK, OpInv, Ops, Idle
<1>20. ASSUME NEW w \in Writers, Scan(w) PROVE OpInv'
    BY <1>20 DEF Scan, Become, Found, RowsOf, TypeOK, OpInv, Ops, Idle, Ids, Rows
<1>21. ASSUME NEW w \in Writers, ScanFails(w) PROVE OpInv'
    BY <1>21 DEF ScanFails, Become, Onward, Finished, Found, RowsOf, TypeOK, OpInv, Ops,
       Idle
<1>22. ASSUME NEW w \in Writers, Deleted(w) PROVE OpInv'
    BY <1>22 DEF Deleted, Become, Onward, TypeOK, OpInv, Ops, Idle
<1>23. ASSUME NEW w \in Writers, NEW i \in op[w].doomed, DeleteRow(w, i) PROVE OpInv'
    BY <1>23 DEF DeleteRow, Become, TypeOK, OpInv, Ops, Idle
<1>24. ASSUME NEW w \in Writers, NEW i \in op[w].doomed, DeleteFails(w, i) PROVE OpInv'
  <2>1. UNCHANGED <<rows, lastId, begun>> /\ op[w] \in Ops /\ op \in [Writers -> Ops]
    BY <1>24 DEF DeleteFails, TypeOK
  <2>2. CASE op[w].kind = "import"
    <3>1. /\ op'[w] = [op[w] EXCEPT !.doomed = op[w].doomed \ {i}]
          /\ \A v \in Writers \ {w} : op'[v] = op[v]
      BY <1>24, <2>1, <2>2, BecomeAlone DEF DeleteFails
    <3>2. op'[w].doomed \subseteq op[w].doomed /\ op[w].doomed # {}
      BY <1>24, <2>1, <3>1 DEF Ops
    <3>3. \A f \in {"kind", "at", "link", "old", "upTo", "no", "first"} : op'[w][f] = op[w][f]
      BY <2>1, <3>1 DEF Ops
    <3>4. op[w].at = "delete" /\ op'[w].doomed \subseteq 1..lastId
      BY <3>2 DEF OpInv
    <3>5. SUFFICES ASSUME NEW v \in Writers
          PROVE  LET o == op'[v] IN
                 /\ o.upTo <= lastId' /\ o.no <= begun' /\ o.first <= lastId'
                 /\ o.doomed \subseteq 1..lastId'
                 /\ o.doomed # {} => o.at = "delete"
                 /\ o.at \in {"resolve", "first", "second"} =>
                      o.link \in Links /\ o.kind \in {"add", "update", "import", "discover"}
                 /\ o.at = "second" => \A r \in rows' : r.id = o.first => <<r.from, r.to>> = o.link
                 /\ o.kind = "update" => o.at \in {"resolve", "first", "second", "scan", "delete"}
                 /\ o.at = "scan" => o.kind \in {"update", "remove", "import", "validate"}
                 /\ o.kind \in {"add", "import", "discover", "idle"} => o.old = {}
                 /\ \A u \in Writers : o.kind # "idle" /\ o.no = op'[u].no => u = v
                 /\ o.kind # "idle" => o.no > 0
      BY DEF OpInv
    <3>6. \A u \in Writers : op'[v].kind # "idle" /\ op'[v].no = op'[u].no => u = v
      <4>1. \A u \in Writers : op'[u].kind = op[u].kind /\ op'[u].no = op[u].no
        BY <3>1, <3>3
      <4>2. QED
        BY <4>1 DEF OpInv
    <3>7. CASE v = w
      BY <2>1, <3>3, <3>4, <3>6, <3>7 DEF OpInv
    <3>8. CASE v # w
      <4>1. op'[v] = op[v]
        BY <3>1, <3>8
      <4>2. QED
        BY <2>1, <3>6, <4>1 DEF OpInv
    <3>9. QED
      BY <3>7, <3>8
  <2>3. CASE op[w].kind # "import"
    <3>1. op'[w] = Finished(w) /\ \A v \in Writers \ {w} : op'[v] = op[v]
      BY <1>24, <2>1, <2>3, BecomeAlone DEF DeleteFails
    <3>2. /\ op'[w].upTo = 0 /\ op'[w].first = 0 /\ op'[w].doomed = {} /\ op'[w].old = {}
          /\ \/ op'[w].kind = "idle" /\ op'[w].at = "idle" /\ op'[w].no = 0
             \/ /\ op'[w].kind = "discover" /\ op'[w].at = "load" /\ op'[w].no = op[w].no
                /\ op[w].kind = "validate"
      BY <3>1 DEF Finished, Idle
    <3>3. \A v \in Writers : op[v].no \in Nat
      BY <2>1 DEF Ops
    <3>4. lastId \in Nat /\ begun \in Nat
      BY DEF TypeOK
    <3>5. QED
      BY <2>1, <3>1, <3>2, <3>3, <3>4 DEF OpInv
  <2>4. QED
    BY <2>2, <2>3
<1>25. CASE Crash
    BY <1>25 DEF Crash, TypeOK, OpInv, Idle, Ids
<1>26. CASE UNCHANGED vars
    BY <1>26 DEF vars, OpInv
<1>27. QED
    BY <1>1, <1>2, <1>3, <1>4, <1>5, <1>6, <1>7, <1>8, <1>9, <1>10, <1>11, <1>12, <1>13,
       <1>14, <1>15, <1>16, <1>17, <1>18, <1>19, <1>20, <1>21, <1>22, <1>23, <1>24, <1>25,
       <1>26 DEF Next, StaffRequest, JobStep, Write

-----------------------------------------------------------------------------
(* Steps that touch no row.                                                  *)

\* w decides what to do next: no row changes, none of its rows is half done
\* before or after, and it does not give up the rows it replaces.
Quiet(w) ==
    /\ UNCHANGED <<rows, lastId, took, loose>> /\ begun' \in {begun, begun + 1}
    /\ \A v \in Writers \ {w} : op'[v] = op[v]
    /\ op[w].doomed = {} /\ op'[w].doomed = {}
    /\ op[w].at # "second" /\ op'[w].at # "second"
    /\ op[w].kind = "update" =>
         \/ op[w].at = "delete" /\ op'[w].kind # "update"
         \/ op[w].at = "resolve" /\ op'[w].kind # "update"
         \/ op[w].at = "resolve" /\ op'[w] = [op[w] EXCEPT !.at = "first"]
    /\ op'[w].kind = "update" /\ op[w].kind # "update" =>
         op'[w].no = begun + 1 /\ op'[w].at = "resolve"

\* The steps that decide are quiet.
LEMMA QuietSteps ==
    ASSUME TypeOK, OpInv, NEW w \in Writers,
           \/ StaffRequest(w) \/ JobStep(w) \/ \E l \in Links : ImportNext(w, l)
           \/ NoneLeft(w) \/ Resolve(w) \/ Unresolved(w) \/ Deleted(w)
    PROVE  Quiet(w)
PROOF
<1>1. ASSUME NEW l \in Systems \X Systems, AddPair(w, l) PROVE Quiet(w)
    BY <1>1 DEF AddPair, Become, Begin, Quiet, TypeOK, OpInv, Ops, Idle
<1>2. ASSUME NEW l \in Systems \X Systems, NEW k \in Keys, UpdatePair(w, k, l)
      PROVE  Quiet(w)
    BY <1>2 DEF UpdatePair, Become, Begin, Quiet, TypeOK, OpInv, Ops, Idle
<1>3. ASSUME NEW k \in Keys, RemovePair(w, k) PROVE Quiet(w)
    BY <1>3 DEF RemovePair, Become, Begin, Quiet, TypeOK, OpInv, Ops, Idle
<1>4. ASSUME NEW S \in SUBSET Keys, Import(w, S) PROVE Quiet(w)
    BY <1>4 DEF Import, Become, Begin, Quiet, TypeOK, OpInv, Ops, Idle
<1>5. ASSUME Validate(w) PROVE Quiet(w)
    BY <1>5 DEF Validate, Become, Begin, Quiet, TypeOK, OpInv, Ops, Idle
<1>6. ASSUME ValidationFails(w) PROVE Quiet(w)
    BY <1>6 DEF ValidationFails, Become, Finished, Quiet, TypeOK, OpInv, Ops, Idle
<1>7. ASSUME DiscoveryFails(w) PROVE Quiet(w)
    BY <1>7 DEF DiscoveryFails, Become, Quiet, TypeOK, OpInv, Ops, Idle
<1>8. ASSUME NEW S \in SUBSET Keys, Discover(w, S) PROVE Quiet(w)
    BY <1>8 DEF Discover, Become, Stored, Quiet, TypeOK, OpInv, Ops, Idle
<1>9. ASSUME NEW k \in op[w].todo, Keep(w, k) PROVE Quiet(w)
    BY <1>9 DEF Keep, Become, Quiet, TypeOK, OpInv, Ops, Idle
<1>10. ASSUME NEW k \in op[w].todo, Reject(w, k) PROVE Quiet(w)
    BY <1>10 DEF Reject, Become, Quiet, TypeOK, OpInv, Ops, Idle
<1>11. ASSUME NEW k \in op[w].todo, SkipProposal(w, k) PROVE Quiet(w)
    BY <1>11 DEF SkipProposal, Become, Quiet, TypeOK, OpInv, Ops, Idle
<1>12. ASSUME NEW l \in Links, TakeProposal(w, l) PROVE Quiet(w)
    BY <1>12 DEF TakeProposal, Become, Quiet, TypeOK, OpInv, Ops, Idle
<1>13. ASSUME NEW l \in Links, ImportNext(w, l) PROVE Quiet(w)
    BY <1>13 DEF ImportNext, Become, Quiet, TypeOK, OpInv, Ops, Idle
<1>14. ASSUME NoneLeft(w) PROVE Quiet(w)
    BY <1>14 DEF NoneLeft, Become, Finished, Quiet, TypeOK, OpInv, Ops, Idle
<1>15. ASSUME Resolve(w) PROVE Quiet(w)
    BY <1>15 DEF Resolve, Become, Goto, Quiet, TypeOK, OpInv, Ops, Idle
<1>16. ASSUME Unresolved(w) PROVE Quiet(w)
    BY <1>16 DEF Unresolved, Become, AfterSkip, Onward, Quiet, TypeOK, OpInv, Ops, Idle
<1>17. ASSUME Deleted(w) PROVE Quiet(w)
    BY <1>17 DEF Deleted, Become, Onward, Quiet, TypeOK, OpInv, Ops, Idle
<1>18. QED
    BY <1>1, <1>2, <1>3, <1>4, <1>5, <1>6, <1>7, <1>8, <1>9, <1>10, <1>11, <1>12, <1>13,
       <1>14, <1>15, <1>16, <1>17 DEF StaffRequest, JobStep

\* Every step decides, writes, scans, deletes or stops.
LEMMA StepCases ==
    ASSUME TypeOK, OpInv, [Next]_vars
    PROVE  \/ UNCHANGED vars
           \/ Crash
           \/ \E w \in Writers :
                \/ Quiet(w) \/ SaveFirst(w) \/ SaveSecond(w) \/ SaveFails(w)
                \/ Scan(w) \/ ScanFails(w)
                \/ \E i \in op[w].doomed : DeleteRow(w, i) \/ DeleteFails(w, i)
PROOF
<1>1. ASSUME NEW w \in Writers, StaffRequest(w) \/ JobStep(w) PROVE Quiet(w)
    BY <1>1, QuietSteps
<1>2. ASSUME NEW w \in Writers, Write(w)
      PROVE  \/ Quiet(w) \/ SaveFirst(w) \/ SaveSecond(w) \/ SaveFails(w)
             \/ Scan(w) \/ ScanFails(w)
             \/ \E i \in op[w].doomed : DeleteRow(w, i) \/ DeleteFails(w, i)
    BY <1>2, QuietSteps DEF Write
<1>3. QED
    BY <1>1, <1>2 DEF Next

\* What saving the first row makes of the writer and the others.
LEMMA SaveFirstEffect ==
    ASSUME TypeOK, OpInv, NEW w \in Writers, SaveFirst(w)
    PROVE  /\ op'[w] = [op[w] EXCEPT !.at = "second", !.first = lastId + 1]
           /\ op[w] \in Ops /\ op[w].at = "first"
           /\ op[w].doomed = {} /\ op'[w].doomed = {}
           /\ \A v \in Writers \ {w} : op'[v] = op[v]
           /\ op[w].link \in Links /\ Store(w, op[w].link[1], op[w].link[2])
           /\ UNCHANGED <<loose, begun>>
PROOF
<1>1. /\ op[w] \in Ops /\ op[w].at = "first" /\ op[w].link \in Links /\ op[w].doomed = {}
    BY DEF SaveFirst, TypeOK, OpInv
<1>2. /\ op'[w] = [op[w] EXCEPT !.at = "second", !.first = lastId + 1]
      /\ \A v \in Writers \ {w} : op'[v] = op[v]
    BY BecomeAlone DEF SaveFirst, TypeOK
<1>3. op'[w].doomed = {}
    BY <1>1, <1>2 DEF Ops
<1>4. QED
    BY <1>1, <1>2, <1>3 DEF SaveFirst

\* What saving the second row makes of them.
LEMMA SaveSecondEffect ==
    ASSUME TypeOK, OpInv, NEW w \in Writers, SaveSecond(w)
    PROVE  /\ op'[w] = AfterSave(w) /\ op'[w] \in Ops
           /\ op[w] \in Ops /\ op[w].at = "second"
           /\ op[w].kind \in {"add", "update", "import", "discover"}
           /\ op[w].doomed = {} /\ op'[w].doomed = {} /\ op'[w].at # "second"
           /\ \A v \in Writers \ {w} : op'[v] = op[v]
           /\ op[w].link \in Links /\ <<op[w].link[2], op[w].link[1]>> \in Links
           /\ Store(w, op[w].link[2], op[w].link[1])
           /\ begun' = begun
PROOF
<1>1. /\ op[w] \in Ops /\ op[w].at = "second" /\ op[w].link \in Links
      /\ op[w].kind \in {"add", "update", "import", "discover"} /\ op[w].doomed = {}
    BY DEF SaveSecond, TypeOK, OpInv
<1>2. op'[w] = AfterSave(w) /\ \A v \in Writers \ {w} : op'[v] = op[v]
    BY BecomeAlone DEF SaveSecond, TypeOK
<1>3. op'[w].doomed = {} /\ op'[w].at # "second"
    BY <1>1, <1>2 DEF AfterSave, Onward, Idle, Ops
<1>4. op' \in [Writers -> Ops]
  <2>1. Next
    BY DEF Next, Write
  <2>2. QED
    BY <2>1, OpsStep
<1>5. <<op[w].link[2], op[w].link[1]>> \in Links
    BY <1>1 DEF Links
<1>6. QED
    BY <1>1, <1>2, <1>3, <1>4, <1>5 DEF SaveSecond

-----------------------------------------------------------------------------
(* Mirrors.                                                                  *)

\* Every step keeps a row mirrored, unfinished, about to be deleted or loose.
LEMMA MirrorStep ==
    TypeOK /\ OpInv /\ MirrorInv /\ [Next]_vars => MirrorInv'
PROOF
<1> SUFFICES ASSUME TypeOK, OpInv, MirrorInv, [Next]_vars PROVE MirrorInv'
    OBVIOUS
<1>1. CASE UNCHANGED vars
    BY <1>1 DEF vars, MirrorInv, Doomed, BeingSaved
<1>2. CASE Crash
  <2>1. \A i : ~Doomed(i)'
    BY <1>2 DEF Crash, Doomed, Idle
  <2>2. ASSUME NEW r \in rows, Doomed(r.id) \/ BeingSaved(r.id) PROVE r.id \in loose'
    BY <1>2, <2>2 DEF Crash, Doomed, BeingSaved, LeftBy, Ids
  <2>3. QED
    BY <1>2, <2>1, <2>2 DEF Crash, MirrorInv
<1>3. ASSUME NEW w \in Writers, Quiet(w) PROVE MirrorInv'
  <2>1. \A i : (Doomed(i)' <=> Doomed(i)) /\ (BeingSaved(i) => BeingSaved(i)')
    BY <1>3 DEF Quiet, Doomed, BeingSaved
  <2>2. QED
    BY <1>3, <2>1 DEF Quiet, MirrorInv
<1>4. ASSUME NEW w \in Writers, SaveFirst(w) PROVE MirrorInv'
  <2>0. op[w].link \in Links /\ Store(w, op[w].link[1], op[w].link[2])
    BY <1>4, SaveFirstEffect
  <2>1. PICK new \in Rows : new.id = lastId + 1 /\ rows' = rows \cup {new}
    BY <2>0, StoreEffect
  <2>2. BeingSaved(new.id)'
    BY <1>4, <2>1, SaveFirstEffect DEF BeingSaved, Ops
  <2>3. \A i : (Doomed(i)' <=> Doomed(i)) /\ (BeingSaved(i) => BeingSaved(i)')
    BY <1>4, SaveFirstEffect DEF Doomed, BeingSaved
  <2>4. loose' = loose
    BY <1>4 DEF SaveFirst
  <2>5. QED
    BY <2>1, <2>2, <2>3, <2>4 DEF MirrorInv
<1>5. ASSUME NEW w \in Writers, SaveSecond(w) PROVE MirrorInv'
  <2>1. PICK new \in Rows : /\ new.id = lastId + 1 /\ rows' = rows \cup {new}
                            /\ <<new.from, new.to>> = <<op[w].link[2], op[w].link[1]>>
    BY <1>5, SaveSecondEffect, StoreEffect
  <2>2. \A i : Doomed(i)' <=> Doomed(i)
    BY <1>5, SaveSecondEffect DEF Doomed
  <2>3. ASSUME NEW r \in rows, r.id = op[w].first PROVE Mirrors(r, new) /\ Mirrors(new, r)
    <3>1. op[w].link = <<r.from, r.to>>
      BY <1>5, <2>3, SaveSecondEffect DEF OpInv
    <3>2. QED
      BY <2>1, <3>1 DEF Mirrors
  <2>4. ~Doomed(new.id)
    BY <2>1 DEF Doomed, OpInv, TypeOK
  <2>5. loose \subseteq loose' /\ (Going(op[w].first) => new.id \in loose')
    BY <1>5, <2>1 DEF SaveSecond
  <2>6. ASSUME NEW r \in rows, BeingSaved(r.id)
        PROVE  r.id = op[w].first \/ BeingSaved(r.id)'
    BY <1>5, <2>6, SaveSecondEffect DEF BeingSaved
  <2>7. ASSUME ~Going(op[w].first)
        PROVE  \E r \in rows : r.id = op[w].first /\ ~Doomed(r.id)
    BY <2>7 DEF Going, Doomed, Ids
  <2>8. QED
    BY <2>1, <2>2, <2>3, <2>4, <2>5, <2>6, <2>7 DEF MirrorInv
<1>6. ASSUME NEW w \in Writers, SaveFails(w) PROVE MirrorInv'
  <2>1. /\ op'[w] = AfterSkip(w) /\ op[w].doomed = {} /\ op[w] \in Ops
        /\ \A v \in Writers \ {w} : op'[v] = op[v]
    BY <1>6, BecomeAlone DEF SaveFails, TypeOK, OpInv
  <2>2. op'[w].doomed = {}
    BY <2>1 DEF AfterSkip, Onward, Idle, Ops
  <2>3. \A i : Doomed(i)' <=> Doomed(i)
    BY <2>1, <2>2 DEF Doomed
  <2>4. ASSUME NEW r \in rows, BeingSaved(r.id) PROVE r.id \in loose' \/ BeingSaved(r.id)'
    BY <1>6, <2>1, <2>4 DEF SaveFails, BeingSaved, Ids
  <2>5. QED
    BY <1>6, <2>3, <2>4 DEF SaveFails, MirrorInv
<1>7. ASSUME NEW w \in Writers, Scan(w) PROVE MirrorInv'
  <2>1. /\ op'[w].doomed = Ids(Found(w)) /\ op[w].doomed = {}
        /\ op[w].at = "scan" /\ \A v \in Writers \ {w} : op'[v] = op[v]
    <3>1. op[w] \in Ops /\ op[w].at = "scan" /\ op[w].doomed = {}
      BY <1>7 DEF Scan, TypeOK, OpInv
    <3>2. /\ op'[w] = [op[w] EXCEPT !.at = "delete", !.doomed = Ids(Found(w)),
                         !.upTo = IF op[w].kind = "import" THEN lastId ELSE @]
          /\ \A v \in Writers \ {w} : op'[v] = op[v]
      BY <1>7, BecomeAlone DEF Scan, TypeOK
    <3>3. QED
      BY <3>1, <3>2 DEF Ops
  <2>2. ASSUME NEW r \in rows, NEW q \in rows, Mirrors(r, q), q.id \in Ids(Found(w))
        PROVE  r.id \in Ids(Found(w))
    <3>1. q \in Found(w)
      BY <2>2 DEF Ids, Found, RowsOf, TypeOK
    <3>2. Ends(r) = Ends(q)
      BY <2>2 DEF Mirrors, Ends
    <3>3. QED
      BY <3>1, <3>2 DEF Ids, Found, RowsOf
  <2>3. \A i : Doomed(i)' <=> (Doomed(i) \/ i \in Ids(Found(w)))
    BY <2>1 DEF Doomed
  <2>4. \A i : BeingSaved(i) => BeingSaved(i)'
    BY <2>1 DEF BeingSaved
  <2>5. QED
    BY <1>7, <2>2, <2>3, <2>4 DEF Scan, MirrorInv
<1>8. ASSUME NEW w \in Writers, ScanFails(w) PROVE MirrorInv'
  <2>1. /\ op[w].at = "scan" /\ op[w].doomed = {} /\ op[w] \in Ops
        /\ op'[w] = (IF op[w].kind = "import" THEN Onward(w) ELSE Finished(w))
        /\ \A v \in Writers \ {w} : op'[v] = op[v]
    BY <1>8, BecomeAlone DEF ScanFails, TypeOK, OpInv
  <2>2. op'[w].doomed = {}
    BY <2>1 DEF Onward, Finished, Idle, Ops
  <2>3. \A i : (Doomed(i)' <=> Doomed(i)) /\ (BeingSaved(i) => BeingSaved(i)')
    BY <2>1, <2>2 DEF Doomed, BeingSaved
  <2>4. QED
    BY <1>8, <2>3 DEF ScanFails, MirrorInv
<1>9. ASSUME NEW w \in Writers, NEW i \in op[w].doomed, DeleteRow(w, i) PROVE MirrorInv'
  <2>1. /\ op'[w].doomed = op[w].doomed \ {i} /\ op[w].at = "delete"
        /\ \A v \in Writers \ {w} : op'[v] = op[v]
    BY <1>9, BecomeAlone DEF DeleteRow, TypeOK, Ops
  <2>2. \A j : (Doomed(j)' => Doomed(j)) /\ (Doomed(j) /\ j # i => Doomed(j)')
    BY <2>1 DEF Doomed
  <2>3. \A j : BeingSaved(j) => BeingSaved(j)'
    BY <2>1 DEF BeingSaved
  <2>4. Doomed(i)
    BY DEF Doomed
  <2>5. rows' = {r \in rows : r.id # i} /\ loose' = loose \ {i}
    BY <1>9 DEF DeleteRow
  <2>6. QED
    BY <2>2, <2>3, <2>4, <2>5 DEF MirrorInv
<1>10. ASSUME NEW w \in Writers, NEW i \in op[w].doomed, DeleteFails(w, i) PROVE MirrorInv'
  <2>1. op[w] \in Ops /\ op[w].at = "delete" /\ rows' = rows /\ loose \subseteq loose'
    BY <1>10 DEF DeleteFails, TypeOK
  <2>2. /\ \A v \in Writers \ {w} : op'[v] = op[v]
        /\ op'[w].doomed \subseteq op[w].doomed
        /\ \A j \in op[w].doomed \ op'[w].doomed : j \in Ids(rows) => j \in loose'
    <3>1. CASE op[w].kind = "import"
      BY <1>10, <2>1, <3>1, BecomeAlone DEF DeleteFails, TypeOK, Ops
    <3>2. CASE op[w].kind # "import"
      <4>1. op'[w] = Finished(w) /\ \A v \in Writers \ {w} : op'[v] = op[v]
        BY <1>10, <3>2, BecomeAlone DEF DeleteFails, TypeOK
      <4>2. op'[w].doomed = {}
        BY <4>1 DEF Finished, Idle
      <4>3. QED
        BY <1>10, <3>2, <4>1, <4>2 DEF DeleteFails
    <3>3. QED
      BY <3>1, <3>2
  <2>3. \A j : (Doomed(j)' => Doomed(j)) /\ (BeingSaved(j) => BeingSaved(j)')
    BY <2>1, <2>2 DEF Doomed, BeingSaved
  <2>4. ASSUME NEW r \in rows, Doomed(r.id) PROVE Doomed(r.id)' \/ r.id \in loose'
    BY <2>2, <2>4 DEF Doomed, Ids
  <2>5. QED
    BY <2>1, <2>3, <2>4 DEF MirrorInv
<1>11. QED
    BY <1>1, <1>2, <1>3, <1>4, <1>5, <1>6, <1>7, <1>8, <1>9, <1>10, StepCases

-----------------------------------------------------------------------------
(* What the writers remember.                                                *)

\* New rows and rows that become loose are no news to a writer that does not move.
LEMMA OthersRemember ==
    ASSUME TypeOK, OpInv, ViewInv, NEW v \in Writers, op'[v] = op[v],
           \A r \in rows' : r \in rows \/ r.id = lastId + 1,
           \A r \in rows' : r.id \in loose => r.id \in loose'
    PROVE  Remembers(v)'
PROOF
<1>1. ASSUME NEW r \in rows', r.id <= op'[v].upTo PROVE r \in rows
    BY <1>1 DEF OpInv, TypeOK, Ops
<1>2. QED
    BY <1>1 DEF ViewInv, Remembers

\* A writer that read nothing remembers nothing.
LEMMA NothingRead ==
    ASSUME TypeOK, NEW w \in Writers, rows' \subseteq rows, op'[w].upTo = 0
    PROVE  Remembers(w)'
PROOF
<1>1. \A r \in rows' : r.id \in Nat /\ r.id > 0
    BY DEF TypeOK
<1>2. QED
    BY <1>1 DEF Remembers

\* A decision leaves true what its writer remembers.
LEMMA QuietRemember ==
    ASSUME TypeOK, OpInv, ViewInv, NEW w \in Writers,
           \/ StaffRequest(w) \/ JobStep(w) \/ \E l \in Links : ImportNext(w, l)
           \/ NoneLeft(w) \/ Resolve(w) \/ Unresolved(w) \/ Deleted(w)
    PROVE  Remembers(w)'
PROOF
<1> op[w] \in Ops /\ op \in [Writers -> Ops] /\ Remembers(w)
    BY DEF TypeOK, ViewInv
<1> USE DEF Become, Begin, Idle
<1>1. ASSUME NEW l \in Systems \X Systems, AddPair(w, l) PROVE Remembers(w)'
  <2>1. /\ op'[w].at = "resolve" /\ op'[w].kind = "add" /\ op'[w].link = l
        /\ rows' = rows
    BY <1>1 DEF AddPair
  <2>2. \A r \in rows : r.from \notin Key(l)
    BY <1>1 DEF AddPair, Linked, Stored
  <2>3. QED
    BY <2>1, <2>2 DEF Remembers
<1>2. ASSUME NEW l \in Systems \X Systems, NEW k \in Keys, UpdatePair(w, k, l)
      PROVE  Remembers(w)'
  <2>1. /\ op'[w].at = "resolve" /\ op'[w].kind = "update" /\ op'[w].link = l
        /\ op'[w].old = k /\ rows' = rows
    BY <1>2 DEF UpdatePair
  <2>2. ASSUME NEW r \in rows, r.from \in Key(l) PROVE r.from \in k
    <3>1. Linked(Stored, r.from)
      <4>1. <<r.from, r.to>> \in Stored /\ <<r.from, r.to>>[1] = r.from
        BY DEF Stored
      <4>2. QED
        BY <4>1 DEF Linked
    <3>2. QED
      BY <1>2, <2>2, <3>1 DEF UpdatePair, Freed
  <2>3. QED
    BY <2>1, <2>2 DEF Remembers
<1>3. ASSUME \/ \E k \in Keys : RemovePair(w, k)
             \/ \E S \in SUBSET Keys : Import(w, S)
             \/ Validate(w) \/ ValidationFails(w) \/ DiscoveryFails(w) \/ NoneLeft(w)
      PROVE  Remembers(w)'
  <2>1. op'[w].upTo = 0 /\ rows' = rows
    <3>1. CASE \/ \E k \in Keys : RemovePair(w, k)
               \/ \E S \in SUBSET Keys : Import(w, S)
               \/ Validate(w)
      BY <3>1 DEF RemovePair, Import, Validate
    <3>2. CASE ValidationFails(w) \/ DiscoveryFails(w) \/ NoneLeft(w)
      <4>1. Finished(w).upTo = 0 /\ Idle.upTo = 0
        BY DEF Finished
      <4>2. QED
        BY <3>2, <4>1 DEF ValidationFails, DiscoveryFails, NoneLeft
    <3>3. QED
      BY <1>3, <3>1, <3>2
  <2>2. QED
    BY <2>1, NothingRead
<1>4. ASSUME NEW S \in SUBSET Keys, Discover(w, S) PROVE Remembers(w)'
  <2>1. /\ op'[w].at = "next" /\ op'[w].kind = "discover" /\ op'[w].view = Stored
        /\ rows' = rows
    BY <1>4 DEF Discover, Ops
  <2>2. QED
    BY <2>1 DEF Remembers, Stored
<1>5. ASSUME NEW k \in op[w].todo, Keep(w, k) \/ Reject(w, k) \/ SkipProposal(w, k)
      PROVE  Remembers(w)'
  <2>1. /\ op'[w].at \in {"next", "scan"} /\ op'[w].kind = op[w].kind
        /\ op[w].kind \in {"validate", "discover"}
        /\ op'[w].view = op[w].view /\ op'[w].upTo = op[w].upTo /\ rows' = rows
    <3>1. CASE Keep(w, k) \/ SkipProposal(w, k)
      BY <3>1 DEF Keep, SkipProposal, Ops
    <3>2. CASE Reject(w, k)
      BY <3>2 DEF Reject, Ops
    <3>3. QED
      BY <1>5, <3>1, <3>2
  <2>2. QED
    BY <2>1 DEF Remembers
<1>6. ASSUME NEW l \in Links, TakeProposal(w, l) PROVE Remembers(w)'
  <2>1. /\ op'[w].kind = "discover" /\ op[w].kind = "discover" /\ op'[w].link = l
        /\ op'[w].view = op[w].view /\ op'[w].upTo = op[w].upTo /\ rows' = rows
    BY <1>6 DEF TakeProposal, Ops
  <2>2. \A r \in rows : r.id <= op[w].upTo => r.from \notin Key(l)
    BY <1>6, <2>1 DEF TakeProposal, Linked, Remembers
  <2>3. QED
    BY <2>1, <2>2 DEF Remembers
<1>7. ASSUME NEW l \in Links, ImportNext(w, l) PROVE Remembers(w)'
  <2>1. /\ op'[w].kind = "import" /\ op[w].kind = "import" /\ op[w].doomed = {}
        /\ op'[w].upTo = op[w].upTo /\ rows' = rows /\ loose' = loose
    BY <1>7 DEF ImportNext, Ops, OpInv
  <2>2. QED
    BY <2>1 DEF Remembers
<1>8. CASE Resolve(w)
  <2>1. /\ op[w].at = "resolve" /\ op'[w] = [op[w] EXCEPT !.at = "first"]
        /\ rows' = rows /\ loose' = loose
    BY <1>8 DEF Resolve, Goto
  <2>2. QED
    BY <2>1 DEF Remembers, Ops
<1>9. CASE Unresolved(w)
  <2>1. /\ op[w].at = "resolve" /\ rows' = rows /\ loose' = loose
        /\ op'[w] = AfterSkip(w)
    BY <1>9 DEF Unresolved
  <2>2. CASE op[w].kind \in {"import", "discover"}
    BY <2>1, <2>2 DEF AfterSkip, Onward, Remembers, Ops
  <2>3. CASE op[w].kind \notin {"import", "discover"}
    BY <2>1, <2>3, NothingRead DEF AfterSkip
  <2>4. QED
    BY <2>2, <2>3
<1>10. CASE Deleted(w)
  <2>1. /\ op[w].doomed = {} /\ rows' = rows /\ loose' = loose
        /\ op'[w] = IF op[w].kind \in {"import", "validate"}
                      THEN [Onward(w) EXCEPT !.old = {}] ELSE Idle
    BY <1>10 DEF Deleted
  <2>2. CASE op[w].kind \in {"import", "validate"}
    BY <2>1, <2>2 DEF Onward, Remembers, Ops
  <2>3. CASE op[w].kind \notin {"import", "validate"}
    BY <2>1, <2>3, NothingRead
  <2>4. QED
    BY <2>2, <2>3
<1>11. QED
    BY <1>1, <1>2, <1>3, <1>4, <1>5, <1>6, <1>7, <1>8, <1>9, <1>10 DEF StaffRequest, JobStep

\* Every step keeps what the writers remember.
LEMMA ViewStep ==
    TypeOK /\ OpInv /\ ViewInv /\ [Next]_vars => ViewInv'
PROOF
<1> SUFFICES ASSUME TypeOK, OpInv, ViewInv, [Next]_vars PROVE ViewInv'
    OBVIOUS
<1>a. ASSUME NEW w \in Writers, Remembers(w)', \A v \in Writers \ {w} : op'[v] = op[v],
             \A r \in rows' : r \in rows \/ r.id = lastId + 1,
             \A r \in rows' : r.id \in loose => r.id \in loose'
      PROVE  ViewInv'
  <2>1. ASSUME NEW v \in Writers PROVE Remembers(v)'
    BY <1>a, OthersRemember
  <2>2. QED
    BY <2>1 DEF ViewInv
<1>b. ASSUME NEW w \in Writers PROVE op[w] \in Ops /\ Remembers(w)
    BY DEF TypeOK, ViewInv
<1>c. lastId \in Nat /\ \A r \in rows : r.id \in Nat /\ r.id <= lastId
    BY DEF TypeOK
<1>1. CASE UNCHANGED vars
    BY <1>1 DEF vars, ViewInv, Remembers
<1>2. CASE Crash
  <2>1. \A w \in Writers : op'[w].upTo = 0
    BY <1>2 DEF Crash, Idle
  <2>2. rows' \subseteq rows
    BY <1>2 DEF Crash
  <2>3. \A w \in Writers : Remembers(w)'
    BY <2>1, <2>2, NothingRead
  <2>4. QED
    BY <2>3 DEF ViewInv
<1>3. ASSUME NEW w \in Writers,
             \/ StaffRequest(w) \/ JobStep(w) \/ \E l \in Links : ImportNext(w, l)
             \/ NoneLeft(w) \/ Resolve(w) \/ Unresolved(w) \/ Deleted(w)
      PROVE  ViewInv'
  <2>1. Remembers(w)'
    BY <1>3, QuietRemember
  <2>2. UNCHANGED <<rows, loose>> /\ \A v \in Writers \ {w} : op'[v] = op[v]
    BY <1>3, QuietSteps DEF Quiet
  <2>3. QED
    BY <1>a, <2>1, <2>2
<1>4. ASSUME NEW w \in Writers, SaveFirst(w) PROVE ViewInv'
  <2>1. op[w].link \in Links /\ Store(w, op[w].link[1], op[w].link[2])
    BY <1>4, SaveFirstEffect
  <2>2. PICK new \in Rows : new.id = lastId + 1 /\ rows' = rows \cup {new}
    BY <2>1, StoreEffect
  <2>3. /\ op[w].at = "first" /\ loose' = loose
        /\ op'[w] = [op[w] EXCEPT !.at = "second", !.first = lastId + 1]
        /\ \A v \in Writers \ {w} : op'[v] = op[v]
    BY <1>4, SaveFirstEffect
  <2>4. ~(new.id <= op[w].upTo)
    BY <1>b, <1>c, <2>2 DEF OpInv, Ops
  <2>5. Remembers(w)'
    BY <1>b, <2>2, <2>3, <2>4 DEF Remembers, Ops
  <2>6. QED
    BY <1>a, <2>2, <2>3, <2>5
<1>5. ASSUME NEW w \in Writers, SaveSecond(w) PROVE ViewInv'
  <2>1. <<op[w].link[2], op[w].link[1]>> \in Links /\ Store(w, op[w].link[2], op[w].link[1])
    BY <1>5, SaveSecondEffect
  <2>2. PICK new \in Rows : new.id = lastId + 1 /\ rows' = rows \cup {new}
    BY <2>1, StoreEffect
  <2>3. /\ op'[w] = AfterSave(w) /\ \A v \in Writers \ {w} : op'[v] = op[v]
        /\ op[w].kind \in {"add", "update", "import", "discover"}
        /\ op[w].doomed = {} /\ loose \subseteq loose'
    BY <1>5, SaveSecondEffect DEF SaveSecond
  <2>4. ~(new.id <= op[w].upTo)
    BY <1>b, <1>c, <2>2 DEF OpInv, Ops
  <2>5. Remembers(w)'
    <3>1. CASE op[w].kind = "add"
      <4>1. op'[w].at = "idle" /\ op'[w].kind = "idle"
        BY <2>3, <3>1 DEF AfterSave, Idle
      <4>2. QED
        BY <4>1 DEF Remembers
    <3>2. CASE op[w].kind = "update"
      <4>1. op'[w].at = "scan" /\ op'[w].kind = "update"
        BY <1>b, <2>3, <3>2 DEF AfterSave, Ops
      <4>2. QED
        BY <4>1 DEF Remembers
    <3>3. CASE op[w].kind = "import"
      <4>1. op'[w].at = "next" /\ op'[w].kind = "import" /\ op'[w].upTo = op[w].upTo
        BY <1>b, <2>3, <3>3 DEF AfterSave, Onward, Ops
      <4>2. QED
        BY <1>b, <2>2, <2>3, <2>4, <3>3, <4>1 DEF Remembers
    <3>4. CASE op[w].kind = "discover"
      <4>1. /\ op'[w].at = "next" /\ op'[w].kind = "discover" /\ op'[w].upTo = op[w].upTo
            /\ op[w].view \subseteq op'[w].view
        <5>1. op'[w] = [Onward(w) EXCEPT !.view =
                          @ \cup {op[w].link, <<op[w].link[2], op[w].link[1]>>}]
          BY <2>3, <3>4 DEF AfterSave
        <5>2. /\ Onward(w) \in Ops /\ Onward(w).at = "next" /\ Onward(w).kind = "discover"
              /\ Onward(w).upTo = op[w].upTo /\ Onward(w).view = op[w].view
          BY <1>b, <3>4 DEF Onward, Ops
        <5>3. QED
          BY <5>1, <5>2 DEF Ops
      <4>2. QED
        BY <1>b, <2>2, <2>4, <3>4, <4>1 DEF Remembers
    <3>5. QED
      BY <2>3, <3>1, <3>2, <3>3, <3>4
  <2>6. QED
    BY <1>a, <2>2, <2>3, <2>5
<1>6. ASSUME NEW w \in Writers, SaveFails(w) PROVE ViewInv'
  <2>1. /\ op'[w] = AfterSkip(w) /\ \A v \in Writers \ {w} : op'[v] = op[v]
        /\ rows' = rows /\ loose \subseteq loose'
    BY <1>6, BecomeAlone DEF SaveFails, TypeOK
  <2>2. CASE op[w].kind \in {"import", "discover"}
    <3>1. /\ op'[w].at = "next" /\ op'[w].kind = op[w].kind /\ op'[w].upTo = op[w].upTo
          /\ op'[w].view = op[w].view /\ op'[w].doomed = op[w].doomed
      BY <1>b, <2>1, <2>2 DEF AfterSkip, Onward, Ops
    <3>2. Remembers(w)'
      BY <1>b, <2>1, <2>2, <3>1 DEF Remembers
    <3>3. QED
      BY <1>a, <2>1, <3>2
  <2>3. CASE op[w].kind \notin {"import", "discover"}
    <3>1. Remembers(w)'
      BY <2>1, <2>3, NothingRead DEF AfterSkip, Idle
    <3>2. QED
      BY <1>a, <2>1, <3>1
  <2>4. QED
    BY <2>2, <2>3
<1>7. ASSUME NEW w \in Writers, Scan(w) PROVE ViewInv'
  <2>1. /\ op'[w] = [op[w] EXCEPT !.at = "delete", !.doomed = Ids(Found(w)),
                       !.upTo = IF op[w].kind = "import" THEN lastId ELSE @]
        /\ \A v \in Writers \ {w} : op'[v] = op[v]
        /\ op[w].at = "scan" /\ rows' = rows /\ loose' = loose
    BY <1>7, BecomeAlone DEF Scan, TypeOK
  <2>2. /\ op'[w].at = "delete" /\ op'[w].kind = op[w].kind /\ op'[w].old = op[w].old
        /\ op'[w].doomed = Ids(Found(w)) /\ op[w].kind # "discover"
    BY <1>b, <2>1 DEF OpInv, Ops
  <2>3. ASSUME NEW r \in rows, op[w].kind = "import" \/ Ends(r) = op[w].old
        PROVE  r.id \in op'[w].doomed
    BY <2>2, <2>3 DEF Found, RowsOf, Ids
  <2>4. Remembers(w)'
    BY <2>1, <2>2, <2>3 DEF Remembers
  <2>5. QED
    BY <1>a, <2>1, <2>4
<1>8. ASSUME NEW w \in Writers, ScanFails(w) PROVE ViewInv'
  <2>1. /\ op'[w] = (IF op[w].kind = "import" THEN Onward(w) ELSE Finished(w))
        /\ \A v \in Writers \ {w} : op'[v] = op[v]
        /\ rows' = rows /\ loose \subseteq loose'
        /\ op[w].kind = "import" => \A r \in rows : r.id \in loose'
    BY <1>8, BecomeAlone DEF ScanFails, TypeOK, Found, Ids
  <2>2. CASE op[w].kind = "import"
    <3>1. op'[w].at = "next" /\ op'[w].kind = "import"
      BY <1>b, <2>1, <2>2 DEF Onward, Ops
    <3>2. Remembers(w)'
      BY <2>1, <2>2, <3>1 DEF Remembers
    <3>3. QED
      BY <1>a, <2>1, <3>2
  <2>3. CASE op[w].kind # "import"
    <3>1. op'[w].upTo = 0
      BY <2>1, <2>3 DEF Finished, Idle
    <3>2. Remembers(w)'
      BY <2>1, <3>1, NothingRead
    <3>3. QED
      BY <1>a, <2>1, <3>2
  <2>4. QED
    BY <2>2, <2>3
<1>9. ASSUME NEW w \in Writers, NEW i \in op[w].doomed, DeleteRow(w, i) PROVE ViewInv'
  <2>1. /\ op'[w] = [op[w] EXCEPT !.doomed = @ \ {i}] /\ op[w].at = "delete"
        /\ \A v \in Writers \ {w} : op'[v] = op[v]
        /\ rows' = {r \in rows : r.id # i} /\ loose' = loose \ {i}
    BY <1>9, BecomeAlone DEF DeleteRow, TypeOK
  <2>2. Remembers(w)'
    BY <1>b, <2>1 DEF Remembers, Ops
  <2>3. QED
    BY <1>a, <2>1, <2>2
<1>10. ASSUME NEW w \in Writers, NEW i \in op[w].doomed, DeleteFails(w, i) PROVE ViewInv'
  <2>1. rows' = rows /\ loose \subseteq loose' /\ op[w].at = "delete"
    BY <1>10 DEF DeleteFails
  <2>2. CASE op[w].kind = "import"
    <3>1. /\ op'[w] = [op[w] EXCEPT !.doomed = @ \ {i}]
          /\ \A v \in Writers \ {w} : op'[v] = op[v]
          /\ \A r \in rows : r.id = i => r.id \in loose'
      BY <1>10, <2>2, BecomeAlone DEF DeleteFails, TypeOK, Ids
    <3>2. Remembers(w)'
      BY <1>b, <2>1, <2>2, <3>1 DEF Remembers, Ops
    <3>3. QED
      BY <1>a, <2>1, <3>1, <3>2
  <2>3. CASE op[w].kind # "import"
    <3>1. op'[w] = Finished(w) /\ \A v \in Writers \ {w} : op'[v] = op[v]
      BY <1>10, <2>3, BecomeAlone DEF DeleteFails, TypeOK
    <3>2. op'[w].upTo = 0
      BY <3>1 DEF Finished, Idle
    <3>3. Remembers(w)'
      BY <2>1, <3>2, NothingRead
    <3>4. QED
      BY <1>a, <2>1, <3>1, <3>3
  <2>4. QED
    BY <2>2, <2>3
<1>11. QED
    BY <1>1, <1>2, <1>3, <1>4, <1>5, <1>6, <1>7, <1>8, <1>9, <1>10 DEF Next, Write

-----------------------------------------------------------------------------
(* The rows an update has saved, and the causes of a second partner.         *)

\* Storing a row of the pair a writer is to save keeps OwnInv.
LEMMA OwnStored ==
    ASSUME TypeOK, OpInv, OwnInv, NEW w \in Writers, NEW l \in Links, Store(w, l[1], l[2]),
           begun' = begun, \A v \in Writers \ {w} : op'[v] = op[v],
           op[w].at \in {"first", "second"},
           op'[w].kind = "update" =>
               /\ op[w].kind = "update" /\ op'[w].no = op[w].no /\ op'[w].upTo = op[w].upTo
               /\ op'[w].at \notin {"resolve", "first"}
               /\ op'[w].at = "second" => op[w].at = "first" /\ op'[w].first = lastId + 1
    PROVE  OwnInv'
PROOF
<1>1. PICK new \in Rows : new.id = lastId + 1 /\ rows' = rows \cup {new}
    BY StoreEffect
<1>2. /\ \A r \in rows : took'[r.id] = took[r.id]
      /\ took'[new.id].no = op[w].no /\ took'[new.id].upTo = op[w].upTo
  <2>1. /\ \A r \in rows : took'[r.id] = took[r.id]
        /\ took'[lastId + 1] = [upTo |-> op[w].upTo, freed |-> op[w].old, no |-> op[w].no]
    BY StoreEffect
  <2>2. QED
    BY <1>1, <2>1
<1>3. op[w].no <= begun /\ op[w].kind # "idle"
    BY DEF OpInv
<1>4. \A r \in rows' : took'[r.id].no <= begun'
    BY <1>1, <1>2, <1>3 DEF OwnInv
<1>5. ASSUME NEW v \in Writers, v # w, op[v].kind = "update"
      PROVE  op[v].no # op[w].no
    BY <1>3, <1>5 DEF OpInv
<1>6. ASSUME NEW v \in Writers, NEW r \in rows', op'[v].kind = "update",
             took'[r.id].no = op'[v].no
      PROVE  /\ op'[v].at \notin {"resolve", "first"}
             /\ op'[v].at = "second" => r.id = op'[v].first
             /\ took'[r.id].upTo = op'[v].upTo
  <2>1. CASE v = w
    <3>1. CASE r = new
      BY <1>1, <1>2, <1>6, <2>1, <3>1
    <3>2. CASE r \in rows
      <4>1. took[r.id].no = op[w].no /\ op[w].kind = "update"
        BY <1>2, <1>6, <2>1, <3>2
      <4>2. op[w].at # "first" /\ took[r.id].upTo = op[w].upTo
        BY <3>2, <4>1 DEF OwnInv
      <4>3. QED
        BY <1>2, <1>6, <2>1, <3>2, <4>2
    <3>3. QED
      BY <1>1, <3>1, <3>2
  <2>2. CASE v # w
    <3>1. r \in rows
      BY <1>1, <1>2, <1>5, <1>6, <2>2
    <3>2. QED
      BY <1>2, <1>6, <2>2, <3>1 DEF OwnInv
  <2>3. QED
    BY <2>1, <2>2
<1>7. QED
    BY <1>4, <1>6 DEF OwnInv

\* No step but a save makes a row an update's own.
LEMMA OwnKept ==
    ASSUME TypeOK, OwnInv, begun' \in Nat, begun' >= begun,
           rows' \subseteq rows, \A r \in rows' : took'[r.id] = took[r.id],
           NEW w \in Writers, \A v \in Writers \ {w} : op'[v] = op[v],
           \/ op'[w].kind # "update"
           \/ op'[w].no > begun
           \/ /\ op[w].kind = "update" /\ op'[w].no = op[w].no /\ op'[w].upTo = op[w].upTo
              /\ op'[w].at # "second"
              /\ op'[w].at \in {"resolve", "first"} => op[w].at \in {"resolve", "first"}
    PROVE  OwnInv'
PROOF
<1>1. \A r \in rows : took[r.id].no \in Nat /\ took[r.id].no <= begun
    BY DEF TypeOK, Ids, Notes, OwnInv
<1>2. begun \in Nat
    BY DEF TypeOK
<1>3. \A r \in rows' : took'[r.id].no <= begun'
    BY <1>1, <1>2
<1>4. ASSUME NEW v \in Writers, NEW r \in rows', op'[v].kind = "update",
             took'[r.id].no = op'[v].no
      PROVE  /\ op'[v].at \notin {"resolve", "first"}
             /\ op'[v].at = "second" => r.id = op'[v].first
             /\ took'[r.id].upTo = op'[v].upTo
  <2>1. r \in rows /\ took'[r.id] = took[r.id] /\ ~(op'[v].no > begun)
    BY <1>1, <1>2, <1>4
  <2>2. CASE v = w
    BY <1>4, <2>1, <2>2 DEF OwnInv
  <2>3. CASE v # w
    BY <1>4, <2>1, <2>3 DEF OwnInv
  <2>4. QED
    BY <2>2, <2>3
<1>5. QED
    BY <1>3, <1>4 DEF OwnInv

\* Every step keeps what an update has saved apart from what the others have.
LEMMA OwnStep ==
    TypeOK /\ OpInv /\ OwnInv /\ [Next]_vars => OwnInv'
PROOF
<1> SUFFICES ASSUME TypeOK, OpInv, OwnInv, [Next]_vars PROVE OwnInv'
    OBVIOUS
<1>a. begun \in Nat /\ \A w \in Writers : op[w] \in Ops
    BY DEF TypeOK
<1>1. CASE UNCHANGED vars
    BY <1>1 DEF vars, OwnInv
<1>2. CASE Crash
  <2>1. \A w \in Writers : op'[w].kind = "idle"
    BY <1>2 DEF Crash, Idle
  <2>2. QED
    BY <1>2, <2>1 DEF Crash, OwnInv
<1>3. ASSUME NEW w \in Writers, Quiet(w) PROVE OwnInv'
  <2>1. CASE op'[w].kind # "update"
    BY <1>3, <1>a, <2>1, OwnKept DEF Quiet
  <2>2. CASE op'[w].kind = "update" /\ op[w].kind # "update"
    BY <1>3, <1>a, <2>2, OwnKept DEF Quiet
  <2>3. CASE op'[w].kind = "update" /\ op[w].kind = "update"
    <3>1. op[w].at = "resolve" /\ op'[w] = [op[w] EXCEPT !.at = "first"]
      BY <1>3, <2>3 DEF Quiet
    <3>2. /\ op'[w].no = op[w].no /\ op'[w].upTo = op[w].upTo /\ op'[w].at = "first"
      BY <1>a, <3>1 DEF Ops
    <3>3. /\ op'[w].at # "second"
          /\ op'[w].at \in {"resolve", "first"} => op[w].at \in {"resolve", "first"}
      BY <3>1, <3>2
    <3>4. /\ begun' \in Nat /\ begun' >= begun /\ rows' \subseteq rows
          /\ \A r \in rows' : took'[r.id] = took[r.id]
          /\ \A v \in Writers \ {w} : op'[v] = op[v]
      BY <1>3, <1>a DEF Quiet
    <3>5. QED
      BY <2>3, <3>2, <3>3, <3>4, OwnKept
  <2>4. QED
    BY <2>1, <2>2, <2>3
<1>4. ASSUME NEW w \in Writers, SaveFirst(w) PROVE OwnInv'
  <2>1. /\ op[w].link \in Links /\ Store(w, op[w].link[1], op[w].link[2])
        /\ op'[w] = [op[w] EXCEPT !.at = "second", !.first = lastId + 1]
        /\ op[w].at = "first" /\ begun' = begun
        /\ \A v \in Writers \ {w} : op'[v] = op[v]
    BY <1>4, SaveFirstEffect
  <2>2. /\ op'[w].kind = op[w].kind /\ op'[w].no = op[w].no /\ op'[w].upTo = op[w].upTo
        /\ op'[w].at = "second" /\ op'[w].first = lastId + 1
    BY <1>a, <2>1 DEF Ops
  <2>3. QED
    BY <2>1, <2>2, OwnStored
<1>5. ASSUME NEW w \in Writers, SaveSecond(w) PROVE OwnInv'
  <2>1. /\ <<op[w].link[2], op[w].link[1]>> \in Links
        /\ Store(w, op[w].link[2], op[w].link[1])
        /\ op'[w] = AfterSave(w) /\ op[w].at = "second" /\ begun' = begun
        /\ op[w].kind \in {"add", "update", "import", "discover"}
        /\ \A v \in Writers \ {w} : op'[v] = op[v]
    BY <1>5, SaveSecondEffect
  <2>2. op'[w].kind = "update" =>
          /\ op[w].kind = "update" /\ op'[w].no = op[w].no /\ op'[w].upTo = op[w].upTo
          /\ op'[w].at = "scan"
    BY <1>a, <2>1 DEF AfterSave, Onward, Idle, Ops
  <2>3. \A l \in Links : l = <<op[w].link[2], op[w].link[1]>> => Store(w, l[1], l[2])
    BY <2>1
  <2>4. QED
    BY <2>1, <2>2, <2>3, OwnStored
<1>6. ASSUME NEW w \in Writers, SaveFails(w) PROVE OwnInv'
  <2>1. /\ op'[w] = AfterSkip(w) /\ \A v \in Writers \ {w} : op'[v] = op[v]
        /\ UNCHANGED <<rows, took, begun>>
    BY <1>6, BecomeAlone DEF SaveFails, TypeOK
  <2>2. op'[w].kind # "update"
    BY <1>a, <2>1 DEF AfterSkip, Onward, Idle, Ops
  <2>3. QED
    BY <1>a, <2>1, <2>2, OwnKept
<1>7. ASSUME NEW w \in Writers, Scan(w) PROVE OwnInv'
  <2>1. /\ op'[w] = [op[w] EXCEPT !.at = "delete", !.doomed = Ids(Found(w)),
                       !.upTo = IF op[w].kind = "import" THEN lastId ELSE @]
        /\ \A v \in Writers \ {w} : op'[v] = op[v]
    BY <1>7, BecomeAlone DEF Scan, TypeOK
  <2>2. /\ op'[w].kind = op[w].kind /\ op'[w].no = op[w].no /\ op'[w].at = "delete"
        /\ op[w].kind = "update" => op'[w].upTo = op[w].upTo
    BY <1>a, <2>1 DEF Ops
  <2>3. UNCHANGED <<rows, took, begun>>
    BY <1>7 DEF Scan
  <2>4. /\ op'[w].at # "second"
        /\ op'[w].at \in {"resolve", "first"} => op[w].at \in {"resolve", "first"}
    BY <2>2
  <2>5. /\ begun' \in Nat /\ begun' >= begun /\ rows' \subseteq rows
        /\ \A r \in rows' : took'[r.id] = took[r.id]
    BY <1>a, <2>3
  <2>6. QED
    BY <2>1, <2>2, <2>4, <2>5, OwnKept
<1>8. ASSUME NEW w \in Writers, ScanFails(w) PROVE OwnInv'
  <2>1. /\ op'[w] = (IF op[w].kind = "import" THEN Onward(w) ELSE Finished(w))
        /\ \A v \in Writers \ {w} : op'[v] = op[v]
    BY <1>8, BecomeAlone DEF ScanFails, TypeOK
  <2>2. op'[w].kind # "update"
    BY <1>a, <2>1 DEF Onward, Finished, Idle, Ops
  <2>3. UNCHANGED <<rows, took, begun>>
    BY <1>8 DEF ScanFails
  <2>4. QED
    BY <1>a, <2>1, <2>2, <2>3, OwnKept
<1>9. ASSUME NEW w \in Writers, NEW i \in op[w].doomed, DeleteRow(w, i) PROVE OwnInv'
  <2>1. /\ op'[w] = [op[w] EXCEPT !.doomed = @ \ {i}] /\ op[w].at = "delete"
        /\ \A v \in Writers \ {w} : op'[v] = op[v]
    BY <1>9, BecomeAlone DEF DeleteRow, TypeOK
  <2>2. /\ op'[w].kind = op[w].kind /\ op'[w].no = op[w].no /\ op'[w].upTo = op[w].upTo
        /\ op'[w].at = "delete"
    BY <1>a, <2>1 DEF Ops
  <2>3. /\ rows' \subseteq rows /\ begun' = begun
        /\ \A r \in rows' : took'[r.id] = took[r.id]
    BY <1>9 DEF DeleteRow, Ids
  <2>4. /\ op'[w].at # "second"
        /\ op'[w].at \in {"resolve", "first"} => op[w].at \in {"resolve", "first"}
    BY <2>2
  <2>5. /\ begun' \in Nat /\ begun' >= begun /\ rows' \subseteq rows
        /\ \A r \in rows' : took'[r.id] = took[r.id]
    BY <1>a, <2>3
  <2>6. QED
    BY <2>1, <2>2, <2>4, <2>5, OwnKept
<1>10. ASSUME NEW w \in Writers, NEW i \in op[w].doomed, DeleteFails(w, i) PROVE OwnInv'
  <2>1. UNCHANGED <<rows, took, begun>>
    BY <1>10 DEF DeleteFails
  <2>2. op'[w].kind # "update" /\ \A v \in Writers \ {w} : op'[v] = op[v]
    <3>1. CASE op[w].kind = "import"
      <4>1. /\ op'[w] = [op[w] EXCEPT !.doomed = @ \ {i}]
            /\ \A v \in Writers \ {w} : op'[v] = op[v]
        BY <1>10, <3>1, BecomeAlone DEF DeleteFails, TypeOK
      <4>2. QED
        BY <1>a, <3>1, <4>1 DEF Ops
    <3>2. CASE op[w].kind # "import"
      <4>1. op'[w] = Finished(w) /\ \A v \in Writers \ {w} : op'[v] = op[v]
        BY <1>10, <3>2, BecomeAlone DEF DeleteFails, TypeOK
      <4>2. QED
        BY <4>1 DEF Finished, Idle
    <3>3. QED
      BY <3>1, <3>2
  <2>3. QED
    BY <1>a, <2>1, <2>2, OwnKept
<1>11. QED
    BY <1>1, <1>2, <1>3, <1>4, <1>5, <1>6, <1>7, <1>8, <1>9, <1>10, StepCases

\* A writer that saves a row knows of no other partner it may not replace.
LEMMA LinkedStored ==
    ASSUME TypeOK, OpInv, ViewInv, LinkedTwiceHasACause,
           NEW w \in Writers, NEW l \in Links, Store(w, l[1], l[2]),
           Key(l) = Key(op[w].link), op[w].at \in {"first", "second"},
           loose \subseteq loose', \A v \in Writers \ {w} : op'[v] = op[v],
           op[w].kind = "update" =>
               op'[w].kind = "update" /\ op'[w].no = op[w].no /\ op'[w].old = op[w].old
    PROVE  LinkedTwiceHasACause'
PROOF
<1>1. PICK new \in Rows : new.id = lastId + 1 /\ <<new.from, new.to>> = l /\ rows' = rows \cup {new}
    BY StoreEffect
<1>2. /\ \A r \in rows : took'[r.id] = took[r.id] /\ r.id \in Nat /\ r.id <= lastId
      /\ took'[lastId + 1] = [upTo |-> op[w].upTo, freed |-> op[w].old, no |-> op[w].no]
    BY StoreEffect
<1>3. Ends(new) = Key(op[w].link) /\ lastId \in Nat /\ op[w].upTo \in Nat
    BY <1>1 DEF Ends, Key, TypeOK, Ops
<1>4. ASSUME NEW r \in rows', NEW q \in rows', Clash(r, q)
      PROVE  \/ took'[q.id].upTo < r.id
             \/ \E v \in Writers : ReplacedBy(r, q, v)'
             \/ r.from \in took'[q.id].freed /\ Ends(r) # took'[q.id].freed
             \/ {r.id, q.id} \cap loose' # {}
  <2>1. r \in rows
    BY <1>1, <1>2, <1>3, <1>4 DEF Clash
  <2>2. CASE q \in rows
    <3>1. ASSUME NEW v \in Writers, ReplacedBy(r, q, v) PROVE ReplacedBy(r, q, v)'
      <4>1. took'[q.id] = took[q.id]
        BY <1>2, <2>2
      <4>2. CASE v = w
        BY <3>1, <4>1, <4>2 DEF ReplacedBy, Ends
      <4>3. CASE v # w
        BY <3>1, <4>1, <4>3 DEF ReplacedBy, Ends
      <4>4. QED
        BY <4>2, <4>3
    <3>2. took'[q.id] = took[q.id]
      BY <1>2, <2>2
    <3>3. \/ took[q.id].upTo < r.id
          \/ \E v \in Writers : ReplacedBy(r, q, v)
          \/ r.from \in took[q.id].freed /\ Ends(r) # took[q.id].freed
          \/ {r.id, q.id} \cap loose # {}
      BY <1>4, <2>1, <2>2 DEF LinkedTwiceHasACause
    <3>4. QED
      BY <3>1, <3>2, <3>3
  <2>3. CASE q = new
    <3>1. took'[q.id].upTo = op[w].upTo /\ took'[q.id].freed = op[w].old /\ took'[q.id].no = op[w].no
      BY <1>1, <1>2, <2>3
    <3>2. CASE op[w].upTo < r.id
      BY <3>1, <3>2
    <3>3. CASE r.id <= op[w].upTo
      <4>1. r.from \in Key(op[w].link) /\ Ends(r) # Key(op[w].link)
        BY <1>3, <1>4, <2>3 DEF Clash
      <4>2. r.id \in loose \/ (op[w].kind = "update" /\ r.from \in op[w].old)
        BY <2>1, <3>3, <4>1 DEF ViewInv, Remembers
      <4>3. ASSUME op[w].kind = "update", Ends(r) = op[w].old PROVE ReplacedBy(r, q, w)'
        BY <3>1, <4>3 DEF ReplacedBy, Ends
      <4>4. QED
        BY <3>1, <4>2, <4>3
    <3>4. QED
      BY <1>2, <1>3, <2>1, <3>2, <3>3
  <2>4. QED
    BY <1>1, <2>2, <2>3
<1>5. QED
    BY <1>4 DEF LinkedTwiceHasACause, Clash, Ends

\* Without a new row, only a writer that gives up a replacement needs a new cause.
LEMMA LinkedKept ==
    ASSUME LinkedTwiceHasACause, rows' \subseteq rows,
           \A r \in rows' : took'[r.id] = took[r.id] /\ (r.id \in loose => r.id \in loose'),
           NEW w \in Writers, \A v \in Writers \ {w} : op'[v] = op[v],
           \A r, q \in rows' : Clash(r, q) /\ ReplacedBy(r, q, w) =>
               \/ op'[w].kind = "update" /\ op'[w].no = op[w].no /\ op'[w].old = op[w].old
               \/ took[q.id].upTo < r.id
               \/ {r.id, q.id} \cap loose' # {}
    PROVE  LinkedTwiceHasACause'
PROOF
<1>1. ASSUME NEW r \in rows', NEW q \in rows', Clash(r, q)
      PROVE  \/ took'[q.id].upTo < r.id
             \/ \E v \in Writers : ReplacedBy(r, q, v)'
             \/ r.from \in took'[q.id].freed /\ Ends(r) # took'[q.id].freed
             \/ {r.id, q.id} \cap loose' # {}
  <2>1. took'[q.id] = took[q.id]
    OBVIOUS
  <2>2. \/ took[q.id].upTo < r.id
        \/ \E v \in Writers : ReplacedBy(r, q, v)
        \/ r.from \in took[q.id].freed /\ Ends(r) # took[q.id].freed
        \/ {r.id, q.id} \cap loose # {}
    BY <1>1 DEF LinkedTwiceHasACause
  <2>3. ASSUME NEW v \in Writers, ReplacedBy(r, q, v)
        PROVE  \/ ReplacedBy(r, q, v)'
               \/ took[q.id].upTo < r.id
               \/ {r.id, q.id} \cap loose' # {}
    <3>1. CASE v = w
      <4>1. \/ op'[w].kind = "update" /\ op'[w].no = op[w].no /\ op'[w].old = op[w].old
            \/ took[q.id].upTo < r.id
            \/ {r.id, q.id} \cap loose' # {}
        BY <1>1, <2>3, <3>1
      <4>2. QED
        BY <2>1, <2>3, <3>1, <4>1 DEF ReplacedBy, Ends
    <3>2. CASE v # w
      BY <2>1, <2>3, <3>2 DEF ReplacedBy, Ends
    <3>3. QED
      BY <3>1, <3>2
  <2>4. {r.id, q.id} \cap loose # {} => {r.id, q.id} \cap loose' # {}
    OBVIOUS
  <2>5. QED
    BY <2>1, <2>2, <2>3, <2>4
<1>2. QED
    BY <1>1 DEF LinkedTwiceHasACause, Clash, Ends

\* Every step keeps the causes of a second partner.
LEMMA LinkedStep ==
    TypeOK /\ OpInv /\ ViewInv /\ OwnInv /\ LinkedTwiceHasACause /\ [Next]_vars
        => LinkedTwiceHasACause'
PROOF
<1> SUFFICES ASSUME TypeOK, OpInv, ViewInv, OwnInv, LinkedTwiceHasACause, [Next]_vars
             PROVE  LinkedTwiceHasACause'
    OBVIOUS
<1>a. ASSUME NEW w \in Writers PROVE op[w] \in Ops
    BY DEF TypeOK
<1>b. ASSUME NEW w \in Writers, NEW r \in rows, NEW q \in rows, ReplacedBy(r, q, w)
      PROVE  /\ op[w].kind = "update" /\ op[w].old = Ends(r)
             /\ op[w].at \notin {"resolve", "first"}
             /\ op[w].at = "second" => q.id = op[w].first
             /\ took[q.id].upTo = op[w].upTo
    BY <1>b DEF ReplacedBy, OwnInv
<1>c. ASSUME NEW w \in Writers, NEW r \in rows, NEW q \in rows, ReplacedBy(r, q, w),
             op[w].at = "delete"
      PROVE  r.id \in op[w].doomed \/ took[q.id].upTo < r.id
  <2>1. r.id \in Nat /\ op[w].upTo \in Nat
    BY <1>a DEF TypeOK, Ops
  <2>2. r.id <= op[w].upTo => r.id \in op[w].doomed
    BY <1>b, <1>c DEF ViewInv, Remembers
  <2>3. QED
    BY <1>b, <1>c, <2>1, <2>2
<1>1. CASE UNCHANGED vars
    BY <1>1 DEF vars, LinkedTwiceHasACause, Clash, ReplacedBy, Ends
<1>2. CASE Crash
  <2>1. ASSUME NEW r \in rows, NEW q \in rows, NEW w \in Writers, ReplacedBy(r, q, w)
        PROVE  r.id \in loose'
    <3>1. r.id \in Ids(RowsOf(op[w].old)) /\ op[w].kind = "update" /\ r.id \in Ids(rows)
      BY <1>b, <2>1 DEF RowsOf, Ids
    <3>2. r.id \in LeftBy(w)
      BY <3>1 DEF LeftBy
    <3>3. QED
      BY <1>2, <3>1, <3>2 DEF Crash
  <2>2. UNCHANGED <<rows, took>> /\ loose \subseteq loose'
    BY <1>2 DEF Crash
  <2>3. QED
    BY <2>1, <2>2 DEF LinkedTwiceHasACause, Clash, Ends
<1>3. ASSUME NEW w \in Writers, Quiet(w) PROVE LinkedTwiceHasACause'
  <2>1. UNCHANGED <<rows, took, loose>> /\ \A v \in Writers \ {w} : op'[v] = op[v]
    BY <1>3 DEF Quiet
  <2>2. ASSUME NEW r \in rows, NEW q \in rows, ReplacedBy(r, q, w)
        PROVE  took[q.id].upTo < r.id
    <3>1. op[w].at = "delete" /\ op[w].doomed = {}
      BY <1>3, <1>b, <2>2 DEF Quiet
    <3>2. QED
      BY <1>c, <2>2, <3>1
  <2>3. QED
    BY <2>1, <2>2, LinkedKept
<1>4. ASSUME NEW w \in Writers, SaveFirst(w) PROVE LinkedTwiceHasACause'
  <2>1. /\ op[w].link \in Links /\ Store(w, op[w].link[1], op[w].link[2])
        /\ op'[w] = [op[w] EXCEPT !.at = "second", !.first = lastId + 1]
        /\ op[w].at = "first" /\ loose' = loose
        /\ \A v \in Writers \ {w} : op'[v] = op[v]
    BY <1>4, SaveFirstEffect
  <2>2. op'[w].kind = op[w].kind /\ op'[w].no = op[w].no /\ op'[w].old = op[w].old
    BY <1>a, <2>1 DEF Ops
  <2>3. QED
    BY <2>1, <2>2, LinkedStored
<1>5. ASSUME NEW w \in Writers, SaveSecond(w) PROVE LinkedTwiceHasACause'
  <2>1. /\ <<op[w].link[2], op[w].link[1]>> \in Links
        /\ Store(w, op[w].link[2], op[w].link[1])
        /\ op'[w] = AfterSave(w) /\ op[w].at = "second"
        /\ \A v \in Writers \ {w} : op'[v] = op[v]
    BY <1>5, SaveSecondEffect
  <2>2. op[w].kind = "update" =>
          op'[w].kind = "update" /\ op'[w].no = op[w].no /\ op'[w].old = op[w].old
    BY <1>a, <2>1 DEF AfterSave, Ops
  <2>3. loose \subseteq loose'
    BY <1>5 DEF SaveSecond
  <2>4. PICK l \in Links : l = <<op[w].link[2], op[w].link[1]>>
    BY <2>1
  <2>5. Store(w, l[1], l[2]) /\ Key(l) = Key(op[w].link)
    BY <2>1, <2>4 DEF Key
  <2>6. QED
    BY <2>1, <2>2, <2>3, <2>5, LinkedStored
<1>6. ASSUME NEW w \in Writers, SaveFails(w) PROVE LinkedTwiceHasACause'
  <2>1. /\ op[w].at \in {"first", "second"} /\ UNCHANGED <<rows, took>>
        /\ loose \subseteq loose' /\ \A v \in Writers \ {w} : op'[v] = op[v]
        /\ op[w].at = "second" => {op[w].first} \cap Ids(rows) \subseteq loose'
    BY <1>6, BecomeAlone DEF SaveFails, TypeOK
  <2>2. ASSUME NEW r \in rows, NEW q \in rows, ReplacedBy(r, q, w) PROVE q.id \in loose'
    <3>1. q.id = op[w].first /\ op[w].at = "second"
      BY <1>b, <2>1, <2>2
    <3>2. QED
      BY <2>1, <3>1 DEF Ids
  <2>3. QED
    BY <2>1, <2>2, LinkedKept
<1>7. ASSUME NEW w \in Writers, Scan(w) PROVE LinkedTwiceHasACause'
  <2>1. /\ op'[w] = [op[w] EXCEPT !.at = "delete", !.doomed = Ids(Found(w)),
                       !.upTo = IF op[w].kind = "import" THEN lastId ELSE @]
        /\ \A v \in Writers \ {w} : op'[v] = op[v]
        /\ UNCHANGED <<rows, took, loose>>
    BY <1>7, BecomeAlone DEF Scan, TypeOK
  <2>2. op'[w].kind = op[w].kind /\ op'[w].no = op[w].no /\ op'[w].old = op[w].old
    BY <1>a, <2>1 DEF Ops
  <2>3. QED
    BY <1>b, <2>1, <2>2, LinkedKept
<1>8. ASSUME NEW w \in Writers, ScanFails(w) PROVE LinkedTwiceHasACause'
  <2>1. /\ UNCHANGED <<rows, took>> /\ loose \subseteq loose'
        /\ \A v \in Writers \ {w} : op'[v] = op[v]
        /\ op[w].kind = "update" => Ids(RowsOf(op[w].old)) \subseteq loose'
    BY <1>8, BecomeAlone DEF ScanFails, TypeOK, Found
  <2>2. ASSUME NEW r \in rows, NEW q \in rows, ReplacedBy(r, q, w) PROVE r.id \in loose'
    BY <1>b, <2>1, <2>2 DEF Ids, RowsOf
  <2>3. QED
    BY <2>1, <2>2, LinkedKept
<1>9. ASSUME NEW w \in Writers, NEW i \in op[w].doomed, DeleteRow(w, i)
      PROVE  LinkedTwiceHasACause'
  <2>1. /\ op'[w] = [op[w] EXCEPT !.doomed = @ \ {i}]
        /\ \A v \in Writers \ {w} : op'[v] = op[v]
    BY <1>9, BecomeAlone DEF DeleteRow, TypeOK
  <2>2. op'[w].kind = op[w].kind /\ op'[w].no = op[w].no /\ op'[w].old = op[w].old
    BY <1>a, <2>1 DEF Ops
  <2>3. /\ rows' \subseteq rows
        /\ \A r \in rows' : took'[r.id] = took[r.id] /\ (r.id \in loose => r.id \in loose')
    BY <1>9 DEF DeleteRow, Ids
  <2>4. QED
    BY <1>b, <2>1, <2>2, <2>3, LinkedKept
<1>10. ASSUME NEW w \in Writers, NEW i \in op[w].doomed, DeleteFails(w, i)
       PROVE  LinkedTwiceHasACause'
  <2>1. /\ op[w].at = "delete" /\ UNCHANGED <<rows, took>> /\ loose \subseteq loose'
        /\ op[w].kind # "import" => op[w].doomed \cap Ids(rows) \subseteq loose'
    BY <1>10 DEF DeleteFails
  <2>2. \A v \in Writers \ {w} : op'[v] = op[v]
    BY <1>10, BecomeAlone DEF DeleteFails, TypeOK
  <2>3. ASSUME NEW r \in rows, NEW q \in rows, ReplacedBy(r, q, w)
        PROVE  took[q.id].upTo < r.id \/ r.id \in loose'
    BY <1>b, <1>c, <2>1, <2>3 DEF Ids
  <2>4. QED
    BY <2>1, <2>2, <2>3, LinkedKept
<1>11. QED
    BY <1>1, <1>2, <1>3, <1>4, <1>5, <1>6, <1>7, <1>8, <1>9, <1>10, StepCases

-----------------------------------------------------------------------------
(* The theorems.                                                             *)

\* The table starts empty or with one pair, and nobody is at work.
LEMMA InitIInv ==
    Init => IInv
PROOF
<1> SUFFICES ASSUME Init PROVE IInv
    OBVIOUS
<1>1. op = [w \in Writers |-> Idle] /\ loose = {} /\ begun = 0
    BY DEF Init
<1>2. /\ \A w \in Writers : /\ op[w].kind = "idle" /\ op[w].at = "idle" /\ op[w].doomed = {}
                            /\ op[w].upTo = 0 /\ op[w].no = 0 /\ op[w].first = 0 /\ op[w].old = {}
      /\ op \in [Writers -> Ops]
    BY <1>1 DEF Idle, Ops
<1>3. took = [i \in Ids(rows) |-> [upTo |-> 0, freed |-> {}, no |-> 0]]
    BY DEF Init
<1>4. took \in [Ids(rows) -> Notes]
    BY <1>3 DEF Notes
<1>5. \A r \in rows : took[r.id].no = 0
    BY <1>3 DEF Ids
<1>6. CASE rows = {} /\ lastId = 0
    BY <1>1, <1>2, <1>4, <1>5, <1>6 DEF IInv, TypeOK, OpInv, MirrorInv, ViewInv, Remembers,
       OwnInv, LinkedTwiceHasACause, Ids
<1>7. ASSUME NEW l \in Links, rows = PairOf(l, 1), lastId = 2 PROVE IInv
  <2> DEFINE a == [id |-> 1, from |-> l[1], to |-> l[2]]
             b == [id |-> 2, from |-> l[2], to |-> l[1]]
  <2>1. rows = {a, b}
    BY <1>7 DEF PairOf
  <2>2. l[1] \in Systems /\ l[2] \in Systems /\ l[1] # l[2]
    BY DEF Links
  <2>3. /\ a \in Rows /\ a.id = 1 /\ a.from = l[1] /\ a.to = l[2]
        /\ b \in Rows /\ b.id = 2 /\ b.from = l[2] /\ b.to = l[1]
    BY <2>2 DEF Rows
  <2> HIDE DEF a, b
  <2>4. TypeOK
    BY <1>1, <1>2, <1>4, <1>7, <2>1, <2>2, <2>3 DEF TypeOK
  <2>5. OpInv
    BY <1>1, <1>2, <1>7 DEF OpInv
  <2>6. MirrorInv
    BY <1>2, <2>1, <2>3 DEF MirrorInv, Mirrors, Doomed
  <2>7. ViewInv
    BY <1>2, <2>1, <2>3 DEF ViewInv, Remembers
  <2>8. OwnInv
    BY <1>1, <1>2, <1>5 DEF OwnInv
  <2>9. LinkedTwiceHasACause
    BY <2>1, <2>3 DEF LinkedTwiceHasACause, Clash, Ends
  <2>10. QED
    BY <2>4, <2>5, <2>6, <2>7, <2>8, <2>9 DEF IInv
<1>8. QED
    BY <1>6, <1>7 DEF Init

\* Every behaviour of the table keeps the inductive invariant (all writers of
\* backend/internal/jumpbridges).
THEOREM Invariant ==
    Spec => []IInv
PROOF
<1>1. Init => IInv
    BY InitIInv
<1>2. IInv /\ [Next]_vars => IInv'
    BY TypeStep, OpStep, MirrorStep, ViewStep, OwnStep, LinkedStep DEF IInv
<1>3. QED
    BY <1>1, <1>2, PTL DEF Spec

\* Variables keep their types, ids are not reused and a row joins two systems.
THEOREM TypeCorrect ==
    Spec => []TypeOK
PROOF
<1>1. IInv => TypeOK
    BY DEF IInv
<1>2. QED
    BY <1>1, Invariant, PTL

\* For any number of writers and requests, a pair is half stored only for a cause:
\* its second row is still to be saved, a writer that loaded the row is still to
\* delete it, or a save, a deletion or the process failed between the rows
\* (savePair, RemovePair and deleteExistingJumpbridgeRows).
THEOREM HalfPairs ==
    Spec => []HalfPairsHaveACause
PROOF
<1>1. IInv => HalfPairsHaveACause
    BY DEF IInv, MirrorInv, HalfPairsHaveACause, Doomed, BeingSaved
<1>2. QED
    BY <1>1, Invariant, PTL

\* For any number of writers and requests, a system is given a second partner only
\* by a writer that read the table before, that replaces the older pair or another
\* of the system, or that failed (AddPairWithContext, updatePairState,
\* resolveUpdatePairEndpoints, pairedElsewhere, replacePair and the import).
THEOREM SecondPartners ==
    Spec => []LinkedTwiceHasACause
PROOF
<1>1. IInv => LinkedTwiceHasACause
    BY DEF IInv
<1>2. QED
    BY <1>1, Invariant, PTL

-----------------------------------------------------------------------------
(* StructureSearch.  The inductive invariant SearchInv says what a run has    *)
(* found out so far.  Most steps turn the job into another, so the lemmas are *)
(* about jobs: Good(j) is a job in order, Follows(j, k) says that k is in     *)
(* order too, of j's kind and with what j knows.  A step then has a lemma     *)
(* that finds its job in order, and Eve's steps leave it so.                  *)

\* Any numbers have a least one.
LEMMA LeastOf ==
    ASSUME NEW T \in SUBSET Nat, T # {}
    PROVE  \E n \in T : \A m \in T : n <= m
PROOF
<1> DEFINE R == OpToRel(<, Nat)
<1>1. IsWellFoundedOn(R, Nat)
  BY NatLessThanWellFounded
<1>2. \A x, y \in Nat : x < y => <<x, y>> \in R
  BY DEF OpToRel
<1> HIDE DEF R
<1>3. T \subseteq Nat OBVIOUS
<1>4. PICK x \in T : \A y \in T : ~ (<<y, x>> \in R)
  BY <1>1, <1>3, WFMin
<1>5. \A y \in T : ~ (y < x)
  BY <1>2, <1>3, <1>4
<1>6. x \in Nat /\ \A y \in T : x <= y
  BY <1>3, <1>5
<1> QED
  BY <1>6

\* The least of some numbers is one of them.
LEMMA MinOf ==
    ASSUME NEW T \in SUBSET Nat, T # {}
    PROVE  Min(T) \in T
PROOF
<1>1. PICK n \in T : \A m \in T : n <= m
  BY LeastOf
<1> QED
  BY <1>1 DEF Min

\* The lesser and the greater of two numbers.
LEMMA MinMaxOfTwo ==
    ASSUME NEW a \in Nat, NEW b \in Nat
    PROVE  Min({a, b}) \in {a, b} /\ Max({a, b}) \in {a, b}
PROOF
<1>1. CASE a <= b
  BY <1>1 DEF Min, Max
<1>2. CASE b <= a
  BY <1>2 DEF Min, Max
<1> QED
  BY <1>1, <1>2

\* Nobody has found anything at first.
LEMMA NothingFound ==
    /\ Nothing \in [{1, 2} -> StructureIds] /\ Nothing[1] = NoId /\ Nothing[2] = NoId
    /\ Unsaid \in [{1, 2} -> {"none", "yes", "no", "unsure"}]
    /\ NoPair \in Between(SolarSystems \cup {Nowhere}) /\ NoId \in StructureIds
PROOF
  BY DEF Nothing, Unsaid, NoPair, Between, StructureIds

-----------------------------------------------------------------------------
(* What a job carries from step to step.                                     *)

\* A job in order.
Good(j) == j \in Jobs(j) /\ JobInv(j)

\* What becomes of a job: one in order, of its kind and with what it knows.
Follows(j, k) == Good(k) /\ k.kind = j.kind /\ k.firm = j.firm

\* What is left to do beside the pair at hand, what is known of structures, and the
\* pair at hand whose ends are being resolved.
PairTodo(j) ==
    /\ j.kind = "validate" => \A k \in j.todo : \E a, b \in SolarSystems : k = {a, b}
    /\ j.kind = "discover" => \A p \in j.todo : Proposal(j, p)
Cached(j) == \A s \in DOMAIN j.cache : j.cache[s] # NoId => BridgeIn(j.cache[s], s)
GotIds(j) == \A i \in {1, 2} : j.got[i] # NoId => BridgeIn(j.got[i], End(j, i))
Carried(j) ==
    /\ j \in Jobs(j) /\ j.kind # "none" /\ j.picked # {} /\ (j.err = "broken" => j.bad)
    /\ Cached(j) /\ \A p \in j.found : Proposal(j, p)
Pairing(j) ==
    /\ Carried(j) /\ PairTodo(j) /\ GotIds(j) /\ (j.side = 2 => j.got[1] # NoId)
    /\ j.why \notin {"look", "name"}
    /\ j.kind = "discover" => /\ Proposal(j, j.pair)
                              /\ j.calm /\ j.side = 2 => j.pair.fromId \in {NoId, j.got[1]}

\* A proposal is one of the characters' that found it and of a run's peace.
LEMMA ProposalOf ==
    ASSUME NEW j, NEW k, k.picked = j.picked, k.calm => j.calm, NEW p, Proposal(j, p)
    PROVE  Proposal(k, p)
PROOF
  BY DEF Proposal, OfOurs

\* The next pair's turn.
LEMMA PairDoneFields ==
    ASSUME NEW j, NEW k, k = PairDone(j), j \in Jobs(j)
    PROVE  /\ k \in Jobs(k)
           /\ k.at = "next" /\ k.why = "none" /\ k.side = 1 /\ k.err = "none" /\ k.got = Nothing
           /\ k.kind = j.kind /\ k.todo = j.todo /\ k.picked = j.picked /\ k.calm = j.calm
           /\ k.found = j.found /\ k.cache = j.cache /\ k.bad = j.bad
           /\ k.finders = j.finders /\ k.firm = j.firm
PROOF
<1> DEFINE m == PairDone(j)
<1>1. /\ m \in Jobs(m)
  <2>1. "next" \in Asking
    BY DEF Asking
  <2> QED
    BY NothingFound, <2>1, ZenonT(60) DEF PairDone, Jobs
<1>2. /\ m.at = "next" /\ m.why = "none" /\ m.side = 1 /\ m.err = "none" /\ m.got = Nothing
      /\ m.kind = j.kind /\ m.todo = j.todo /\ m.picked = j.picked /\ m.calm = j.calm
  BY DEF PairDone, Jobs
<1>3. /\ m.found = j.found /\ m.cache = j.cache /\ m.bad = j.bad
      /\ m.finders = j.finders /\ m.firm = j.firm
  BY DEF PairDone, Jobs
<1> HIDE DEF m
<1>4. k = m
  BY DEF m
<1> QED
  BY <1>1, <1>2, <1>3, <1>4

\* All are asked for a structure, the first of them first.
LEMMA AskAllFields ==
    ASSUME NEW j, NEW why, NEW t, NEW k, k = AskAll(j, why, t),
           j \in Jobs(j), t \in StructureIds,
           why \in {"none", "prefer", "confirm", "owner", "look", "name"}
    PROVE  /\ k \in Jobs(k)
           /\ k.at = "fetch" /\ k.why = why /\ k.ask = t /\ k.err = "none" /\ k.left = j.picked
           /\ k.kind = j.kind /\ k.todo = j.todo /\ k.picked = j.picked /\ k.calm = j.calm
           /\ k.found = j.found /\ k.cache = j.cache /\ k.bad = j.bad /\ k.pair = j.pair
           /\ k.side = j.side /\ k.got = j.got /\ k.said = j.said /\ k.firm = j.firm
           /\ k.finders = j.finders /\ k.rest = j.rest
PROOF
<1> DEFINE m == AskAll(j, why, t)
<1>1. /\ m \in Jobs(m)
  BY ZenonT(60) DEF AskAll, Jobs
<1>2. /\ m.at = "fetch" /\ m.why = why /\ m.ask = t /\ m.err = "none" /\ m.left = j.picked
      /\ m.kind = j.kind /\ m.todo = j.todo /\ m.picked = j.picked /\ m.calm = j.calm
  BY DEF AskAll, Jobs
<1>3. /\ m.found = j.found /\ m.cache = j.cache /\ m.bad = j.bad /\ m.pair = j.pair
      /\ m.side = j.side /\ m.got = j.got /\ m.said = j.said /\ m.firm = j.firm
      /\ m.finders = j.finders /\ m.rest = j.rest
  BY DEF AskAll, Jobs
<1> HIDE DEF m
<1>4. k = m
  BY DEF m
<1> QED
  BY <1>1, <1>2, <1>3, <1>4

-----------------------------------------------------------------------------
(* The pair at hand.                                                         *)

\* A pair that is done leaves a job in order.
LEMMA PairDoneGood ==
    ASSUME NEW j, Carried(j), PairTodo(j)
    PROVE  Follows(j, PairDone(j))
PROOF
<1> DEFINE k == PairDone(j)
<1>1. j \in Jobs(j)
  BY DEF Carried
<1>2. /\ k \in Jobs(k)
      /\ k.at = "next" /\ k.why = "none" /\ k.side = 1 /\ k.err = "none" /\ k.got = Nothing
      /\ k.kind = j.kind /\ k.firm = j.firm /\ k.todo = j.todo /\ k.picked = j.picked /\ k.calm = j.calm
      /\ k.found = j.found /\ k.cache = j.cache /\ k.bad = j.bad
  BY <1>1, PairDoneFields
<1> HIDE DEF k
<1>3. \A p : Proposal(j, p) => Proposal(k, p)
  BY <1>2, ProposalOf
<1>4. GotInv(k)
  BY <1>2, NothingFound DEF GotInv, Carried, Cached, Asking, Ending, Prefers
<1>5. AskInv(k)
  BY <1>2 DEF AskInv, Carried
<1>6. ConcludeInv(k)
  BY <1>2 DEF ConcludeInv
<1>7. ProposeInv(k)
  BY <1>2, <1>3 DEF ProposeInv, Carried, Resolves, Prefers, Ending, Asking
<1>8. TodoInv(k)
  BY <1>2, <1>3 DEF TodoInv, PairTodo, Named
<1> QED
  BY <1>2, <1>4, <1>5, <1>6, <1>7, <1>8 DEF Follows, Good, JobInv, k

\* A structure stored for the pair is asked for, to hear whether it is gone.
LEMMA ConfirmGood ==
    ASSUME NEW j, Carried(j), PairTodo(j), GotIds(j), j.kind = "validate",
           NoId \notin {j.pair.fromId, j.pair.toId}
    PROVE  Follows(j, AskAll(j, "confirm", StoredId(j)))
PROOF
<1> DEFINE k == AskAll(j, "confirm", StoredId(j))
<1>1. j \in Jobs(j)
  BY DEF Carried
<1>2. StoredId(j) \in StructureIds /\ StoredId(j) # NoId
  BY <1>1 DEF StoredId, Jobs, Between
<1>a. k = AskAll(j, "confirm", StoredId(j))
  OBVIOUS
<1> HIDE DEF k
<1>3. /\ k \in Jobs(k)
      /\ k.at = "fetch" /\ k.why = "confirm" /\ k.ask = StoredId(j) /\ k.err = "none"
      /\ k.left = j.picked /\ k.kind = j.kind /\ k.firm = j.firm /\ k.todo = j.todo /\ k.picked = j.picked
      /\ k.calm = j.calm /\ k.found = j.found /\ k.cache = j.cache /\ k.bad = j.bad
      /\ k.pair = j.pair /\ k.side = j.side /\ k.got = j.got
  BY <1>1, <1>2, <1>a, AskAllFields
<1>4. \A p : Proposal(j, p) => Proposal(k, p)
  BY <1>3, ProposalOf
<1>5. GotInv(k)
  BY <1>3 DEF GotInv, GotIds, Carried, Cached, Asking, Ending, Prefers, End
<1>6. AskInv(k)
  BY <1>2, <1>3 DEF AskInv, Carried, StoredId
<1>7. ConcludeInv(k)
  BY <1>3 DEF ConcludeInv
<1>8. ProposeInv(k)
  BY <1>3, <1>4 DEF ProposeInv, Carried, Resolves, Prefers, Ending, Asking
<1>9. TodoInv(k)
  BY <1>3 DEF TodoInv, PairTodo, Named
<1> QED
  BY <1>3, <1>5, <1>6, <1>7, <1>8, <1>9 DEF Follows, Good, JobInv, k

\* What a job carries on is carried by a job that differs elsewhere only.
LEMMA CarriedOn ==
    ASSUME NEW j, NEW k, Carried(j), k \in Jobs(k),
           k.kind = j.kind, k.picked = j.picked, k.found = j.found, k.cache = j.cache,
           k.calm => j.calm, k.err = "broken" => k.bad
    PROVE  Carried(k)
PROOF
<1>1. \A p : Proposal(j, p) => Proposal(k, p)
  BY ProposalOf
<1> QED
  BY <1>1 DEF Carried, Cached

\* What is left to do is so for a job that differs elsewhere only.
LEMMA TodoOn ==
    ASSUME NEW j, NEW k, PairTodo(j),
           k.kind = j.kind, k.picked = j.picked, k.todo = j.todo, k.calm => j.calm
    PROVE  PairTodo(k)
PROOF
<1>1. \A p : Proposal(j, p) => Proposal(k, p)
  BY ProposalOf
<1> QED
  BY <1>1 DEF PairTodo

\* The owner of a structure found is asked for.
LEMMA OwnerGood ==
    ASSUME NEW j, Carried(j), PairTodo(j), GotIds(j), j.kind = "validate",
           NoId \notin {j.got[1], j.got[2]},
           j.side = 2 => j.said[1] # "none" /\ (j.said[1] = "no" => No(j, 1))
    PROVE  Follows(j, AskAll(j, "owner", j.got[j.side]))
PROOF
<1> DEFINE k == AskAll(j, "owner", j.got[j.side])
<1>1. j \in Jobs(j)
  BY DEF Carried
<1>2. j.got[j.side] \in StructureIds /\ j.got[j.side] # NoId
  BY <1>1 DEF Jobs
<1>a. k = AskAll(j, "owner", j.got[j.side])
  OBVIOUS
<1> HIDE DEF k
<1>3. /\ k \in Jobs(k)
      /\ k.at = "fetch" /\ k.why = "owner" /\ k.ask = j.got[j.side] /\ k.err = "none"
      /\ k.left = j.picked /\ k.kind = j.kind /\ k.firm = j.firm /\ k.todo = j.todo /\ k.picked = j.picked
      /\ k.calm = j.calm /\ k.found = j.found /\ k.cache = j.cache /\ k.bad = j.bad
      /\ k.pair = j.pair /\ k.side = j.side /\ k.got = j.got /\ k.said = j.said
  BY <1>1, <1>2, <1>a, AskAllFields
<1>4. Carried(k)
  BY <1>3, CarriedOn
<1>5. GotInv(k)
  BY <1>3 DEF GotInv, GotIds, Carried, Cached, Asking, Ending, Prefers, End
<1>6. AskInv(k)
  BY <1>2, <1>3, <1>4 DEF AskInv, Carried
<1>7. ConcludeInv(k)
  BY <1>3 DEF ConcludeInv, No
<1>8. ProposeInv(k)
  BY <1>3, <1>4 DEF ProposeInv, Carried, Resolves, Prefers, Ending, Asking
<1>9. TodoInv(k)
  BY <1>3 DEF TodoInv, PairTodo, Named
<1> QED
  BY <1>3, <1>5, <1>6, <1>7, <1>8, <1>9 DEF Follows, Good, JobInv, k

\* An end of the pair is given up.
LEMMA EndUnresolvedGood ==
    ASSUME NEW j, NEW e, Carried(j), PairTodo(j), GotIds(j)
    PROVE  Follows(j, EndUnresolved(j, e))
PROOF
<1> DEFINE settled == j.kind = "discover" \/ e = "unsure" \/ NoId \in {j.pair.fromId, j.pair.toId}
<1>1. CASE settled
  BY <1>1, PairDoneGood DEF EndUnresolved, Follows
<1>2. CASE ~settled
  <2> DEFINE k == [j EXCEPT !.side = 1]
  <2>1. j \in Jobs(j) /\ j.kind = "validate"
    BY <1>2 DEF Carried, Jobs
  <2>2. k \in Jobs(k)
    BY <2>1 DEF Jobs
  <2>3. /\ k.kind = j.kind /\ k.firm = j.firm /\ k.picked = j.picked /\ k.found = j.found /\ k.cache = j.cache
        /\ k.calm = j.calm /\ k.err = j.err /\ k.bad = j.bad /\ k.todo = j.todo
        /\ k.pair = j.pair /\ k.got = j.got /\ k.side = 1
    BY <2>1 DEF Jobs
  <2>4. EndUnresolved(j, e) = AskAll(k, "confirm", j.pair.fromId)
    BY <1>2 DEF EndUnresolved
  <2> HIDE DEF k
  <2>5. Carried(k) /\ PairTodo(k)
    BY <2>2, <2>3, CarriedOn, TodoOn DEF Carried
  <2>6. GotIds(k) /\ StoredId(k) = j.pair.fromId
    BY <2>3 DEF GotIds, End, StoredId
  <2> QED
    BY <1>2, <2>1, <2>3, <2>4, <2>5, <2>6, ConfirmGood DEF Follows
<1> QED
  BY <1>1, <1>2

\* A structure is found for the end at hand.
WithFound(j, t) == [j EXCEPT !.got[j.side] = t, !.left = {}, !.hits = {}, !.err = "none"]

\* What finding a structure changes.
LEMMA FoundFields ==
    ASSUME NEW j, NEW t, NEW k, k = WithFound(j, t),
           j \in Jobs(j), t \in StructureIds
    PROVE  /\ k \in Jobs(k)
           /\ k.got[j.side] = t /\ \A i \in {1, 2} : i # j.side => k.got[i] = j.got[i]
           /\ k.kind = j.kind /\ k.firm = j.firm /\ k.picked = j.picked /\ k.found = j.found
           /\ k.cache = j.cache /\ k.calm = j.calm /\ k.err = "none" /\ k.bad = j.bad /\ k.todo = j.todo
           /\ k.pair = j.pair /\ k.side = j.side /\ k.why = j.why /\ k.left = {}
PROOF
<1> DEFINE m == WithFound(j, t)
<1>1. m \in Jobs(m)
  BY ZenonT(60) DEF Jobs, WithFound
<1>2. m.got[j.side] = t /\ \A i \in {1, 2} : i # j.side => m.got[i] = j.got[i]
  BY DEF Jobs, WithFound
<1>3. /\ m.kind = j.kind /\ m.firm = j.firm /\ m.picked = j.picked /\ m.found = j.found /\ m.cache = j.cache
      /\ m.calm = j.calm /\ m.err = "none" /\ m.bad = j.bad /\ m.todo = j.todo
      /\ m.pair = j.pair /\ m.side = j.side /\ m.why = j.why /\ m.left = {}
  BY DEF Jobs, WithFound
<1> HIDE DEF m
<1>4. k = m
  BY DEF m
<1> QED
  BY <1>1, <1>2, <1>3, <1>4

\* An end of the pair is at hand, and perhaps searched for.
LEMMA EndingGood ==
    ASSUME NEW j, NEW m, Pairing(j), m \in Jobs(m), m.at \in Ending,
           m.kind = j.kind, m.firm = j.firm, m.picked = j.picked, m.found = j.found,
           m.cache = j.cache, m.todo = j.todo, m.pair = j.pair, m.why = j.why, m.got = j.got,
           m.side = j.side, m.calm => j.calm, m.err = "broken" => m.bad,
           m.kind = "discover" /\ m.calm /\ m.at # "end" => StoredId(j) = NoId
    PROVE  Follows(j, m)
PROOF
<1>1. Carried(m) /\ PairTodo(m)
  BY CarriedOn, TodoOn DEF Pairing
<1>2. \A p : Proposal(j, p) => Proposal(m, p)
  BY ProposalOf
<1>3. GotInv(m)
  BY <1>1 DEF GotInv, GotIds, Carried, Cached, Asking, Ending, End, Pairing
<1>4. AskInv(m)
  BY <1>1 DEF AskInv, Carried, Pairing, Ending
<1>5. ConcludeInv(m)
  BY DEF ConcludeInv, Ending
<1>6. ProposeInv(m)
  <2>1. m.kind = "discover" => Proposal(m, m.pair)
    BY <1>2 DEF Pairing
  <2>2. m.kind = "discover" /\ m.calm =>
          /\ m.at # "end" => StoredId(m) = NoId
          /\ m.side = 2 => m.pair.fromId \in {NoId, m.got[1]}
    BY DEF StoredId, Pairing
  <2> QED
    <3>1. /\ m.at \in {"end", "search", "match"} /\ m.why \notin {"look", "name"}
          /\ \A p \in m.found : Proposal(m, p)
      BY <1>1 DEF Ending, Carried, Pairing
    <3> QED
      BY <2>1, <2>2, <3>1 DEF ProposeInv, Asking
<1>7. TodoInv(m)
  BY <1>1 DEF TodoInv, PairTodo, Named, Pairing, Ending
<1> QED
  BY <1>3, <1>4, <1>5, <1>6, <1>7 DEF Follows, Good, JobInv

\* An end of the pair is resolved.
LEMMA ResolvedGood ==
    ASSUME NEW j, NEW t \in StructureIds, Pairing(j), t # NoId => BridgeIn(t, Here(j)),
           j.kind = "discover" /\ j.calm /\ t # NoId => StoredId(j) \in {NoId, t}
    PROVE  Follows(j, Resolved(j, t))
PROOF
<1> DEFINE k == WithFound(j, t)
<1>1. /\ j \in Jobs(j) /\ j.kind \in {"validate", "discover"} /\ j.side \in {1, 2}
      /\ Carried(j) /\ PairTodo(j) /\ GotIds(j)
  BY DEF Pairing, Carried, Jobs
<1>a. k = WithFound(j, t)
  OBVIOUS
<1>b. Resolved(j, t) =
        CASE t = NoId -> EndUnresolved(j, "broken")
          [] t # NoId /\ j.side = 1 -> [k EXCEPT !.side = 2, !.at = "end"]
          [] t # NoId /\ j.side = 2 /\ j.kind = "discover" -> [k EXCEPT !.at = "save"]
          [] t # NoId /\ j.side = 2 /\ j.kind = "validate" ->
               AskAll([k EXCEPT !.side = 1], "owner", k.got[1])
  BY DEF Resolved, WithFound
<1> HIDE DEF k
<1>2. /\ k \in Jobs(k)
      /\ k.got[j.side] = t /\ \A i \in {1, 2} : i # j.side => k.got[i] = j.got[i]
      /\ k.kind = j.kind /\ k.firm = j.firm /\ k.picked = j.picked /\ k.found = j.found /\ k.cache = j.cache
      /\ k.calm = j.calm /\ k.err = "none" /\ k.bad = j.bad /\ k.todo = j.todo
      /\ k.pair = j.pair /\ k.side = j.side /\ k.why = j.why /\ k.left = {}
  BY <1>1, <1>a, FoundFields
<1>3. Carried(k) /\ PairTodo(k)
  BY <1>1, <1>2, CarriedOn, TodoOn
<1>4. t # NoId => GotIds(k)
  BY <1>1, <1>2 DEF GotIds, End, Here
<1>5. CASE t = NoId
  <2>1. Resolved(j, t) = EndUnresolved(j, "broken")
    BY <1>5, <1>b
  <2> QED
    BY <2>1, <1>1, EndUnresolvedGood DEF Follows
<1>6. CASE t # NoId /\ j.side = 1
  <2> DEFINE m == [k EXCEPT !.side = 2, !.at = "end"]
  <2>1. m \in Jobs(m)
    BY <1>2, ZenonT(60) DEF Jobs, Ending
  <2>2. /\ m.kind = j.kind /\ m.firm = j.firm /\ m.picked = j.picked /\ m.found = j.found /\ m.cache = j.cache
        /\ m.calm = j.calm /\ m.err = "none" /\ m.bad = j.bad /\ m.todo = j.todo
        /\ m.pair = j.pair /\ m.why = j.why /\ m.got = k.got /\ m.side = 2 /\ m.at = "end"
    BY <1>2 DEF Jobs
  <2>3. Resolved(j, t) = m
    BY <1>6, <1>b
  <2> HIDE DEF m
  <2>4. Carried(m) /\ PairTodo(m)
    BY <1>1, <2>1, <2>2, CarriedOn, TodoOn
  <2>5. \A p : Proposal(j, p) => Proposal(m, p)
    BY <2>2, ProposalOf
  <2>6. Pairing(m)
    <3>1. m.got[1] # NoId /\ GotIds(m)
      BY <1>2, <1>4, <1>6, <2>2 DEF GotIds, End
    <3>2. m.kind = "discover" => Proposal(m, m.pair) /\ (m.calm => m.pair.fromId \in {NoId, m.got[1]})
      BY <1>2, <1>6, <2>2, <2>5 DEF Pairing, StoredId
    <3> QED
      BY <2>2, <2>4, <3>1, <3>2 DEF Pairing
  <2>7. Follows(m, m)
    BY <2>1, <2>2, <2>6, EndingGood DEF Ending
  <2> QED
    BY <2>2, <2>3, <2>7 DEF Follows
<1>7. CASE t # NoId /\ j.side = 2 /\ j.kind = "discover"
  <2> DEFINE m == [k EXCEPT !.at = "save"]
  <2>1. m \in Jobs(m)
    BY <1>2 DEF Jobs
  <2>2. /\ m.kind = j.kind /\ m.firm = j.firm /\ m.picked = j.picked /\ m.found = j.found /\ m.cache = j.cache
        /\ m.calm = j.calm /\ m.err = "none" /\ m.bad = j.bad /\ m.todo = j.todo
        /\ m.pair = j.pair /\ m.why = j.why /\ m.got = k.got /\ m.side = 2 /\ m.at = "save"
    BY <1>2, <1>7 DEF Jobs
  <2>3. Resolved(j, t) = m
    BY <1>7, <1>b
  <2> HIDE DEF m
  <2>4. Carried(m) /\ PairTodo(m)
    BY <1>1, <2>1, <2>2, CarriedOn, TodoOn
  <2>5. \A p : Proposal(j, p) => Proposal(m, p)
    BY <2>2, ProposalOf
  <2>6. GotInv(m)
    BY <1>2, <1>4, <1>7, <2>2, <2>4
       DEF GotInv, GotIds, Carried, Cached, Asking, End, Pairing, Ending, Prefers
  <2>7. AskInv(m)
    BY <2>2, <2>4 DEF AskInv, Carried, Pairing
  <2>8. ConcludeInv(m)
    BY <2>2 DEF ConcludeInv
  <2>9. ProposeInv(m)
    <3>1. Proposal(m, m.pair)
      BY <1>7, <2>2, <2>5 DEF Pairing
    <3>2. m.calm => m.pair.fromId \in {NoId, m.got[1]} /\ m.pair.toId \in {NoId, m.got[2]}
      BY <1>2, <1>7, <2>2 DEF StoredId, Pairing
    <3> QED
      BY <2>2, <2>4, <3>1, <3>2 DEF ProposeInv, Carried, Pairing, Asking
  <2>10. TodoInv(m)
    BY <2>2, <2>4 DEF TodoInv, PairTodo, Named, Pairing
  <2> QED
    BY <2>1, <2>2, <2>3, <2>6, <2>7, <2>8, <2>9, <2>10 DEF Follows, Good, JobInv
<1>8. CASE t # NoId /\ j.side = 2 /\ j.kind = "validate"
  <2> DEFINE m == [k EXCEPT !.side = 1]
  <2>1. m \in Jobs(m)
    BY <1>2 DEF Jobs
  <2>2. /\ m.kind = j.kind /\ m.firm = j.firm /\ m.picked = j.picked /\ m.found = j.found /\ m.cache = j.cache
        /\ m.calm = j.calm /\ m.err = "none" /\ m.bad = j.bad /\ m.todo = j.todo
        /\ m.pair = j.pair /\ m.got = k.got /\ m.side = 1
    BY <1>2 DEF Jobs
  <2>3. Resolved(j, t) = AskAll(m, "owner", m.got[m.side])
    BY <1>8, <1>b, <2>2
  <2> HIDE DEF m
  <2>4. Carried(m) /\ PairTodo(m)
    BY <1>1, <2>1, <2>2, CarriedOn, TodoOn
  <2>5. GotIds(m) /\ NoId \notin {m.got[1], m.got[2]}
    BY <1>2, <1>4, <1>8, <2>2 DEF GotIds, End, Pairing
  <2> QED
    BY <1>8, <2>2, <2>3, <2>4, <2>5, OwnerGood DEF Follows
<1> QED
  BY <1>1, <1>5, <1>6, <1>7, <1>8

\* What is found for a system is kept for the run.
LEMMA InCacheGood ==
    ASSUME NEW j, NEW t \in StructureIds, Pairing(j), t # NoId => BridgeIn(t, Here(j)),
           j.kind = "discover" /\ j.calm /\ t # NoId => StoredId(j) \in {NoId, t}
    PROVE  Follows(j, InCache(j, t))
PROOF
<1> DEFINE c == [s \in DOMAIN j.cache \cup {Here(j)} |-> IF s = Here(j) THEN t ELSE j.cache[s]]
           k == [j EXCEPT !.cache = c]
<1>1. j \in Jobs(j) /\ Carried(j)
  BY DEF Pairing, Carried
<1>2. \A s \in DOMAIN c : c[s] # NoId => BridgeIn(c[s], s)
  BY <1>1 DEF Carried, Cached
<1>3. InCache(j, t) = Resolved(k, t)
  BY <1>1 DEF InCache, Jobs
<1> HIDE DEF c
<1>4. k \in Jobs(k)
  BY <1>1 DEF Jobs
<1>5. /\ k.kind = j.kind /\ k.firm = j.firm /\ k.picked = j.picked /\ k.found = j.found /\ k.cache = c
      /\ k.calm = j.calm /\ k.err = j.err /\ k.bad = j.bad /\ k.todo = j.todo
      /\ k.pair = j.pair /\ k.got = j.got /\ k.side = j.side /\ k.why = j.why
  BY <1>1 DEF Jobs
<1> HIDE DEF k
<1>6. \A p : Proposal(j, p) => Proposal(k, p)
  BY <1>5, ProposalOf
<1>7. Carried(k)
  BY <1>1, <1>2, <1>4, <1>5, <1>6 DEF Carried, Cached
<1>8. Pairing(k)
  BY <1>5, <1>6, <1>7 DEF Pairing, PairTodo, GotIds, End
<1>9. Here(k) = Here(j) /\ StoredId(k) = StoredId(j)
  BY <1>5 DEF Here, StoredId
<1> QED
  BY <1>3, <1>5, <1>8, <1>9, ResolvedGood DEF Follows

\* What is in the cache counts; otherwise the characters search.
LEMMA FromCacheGood ==
    ASSUME NEW j, Pairing(j), j.kind = "discover" /\ j.calm => StoredId(j) = NoId
    PROVE  Follows(j, FromCache(j))
PROOF
<1>1. j \in Jobs(j) /\ Carried(j)
  BY DEF Pairing, Carried
<1>2. CASE Here(j) \in DOMAIN j.cache
  <2>1. j.cache[Here(j)] # NoId => BridgeIn(j.cache[Here(j)], Here(j))
    BY <1>1, <1>2 DEF Carried, Cached
  <2>2. j.cache[Here(j)] \in StructureIds
    BY <2>1, StructureSearchAssumption DEF StructureSearchAssumption, StructureIds, BridgeIn
  <2> QED
    BY <1>2, <2>1, <2>2, ResolvedGood DEF FromCache, Follows
<1>3. CASE Here(j) \notin DOMAIN j.cache
  <2> DEFINE m == [j EXCEPT !.at = "search", !.left = j.picked, !.err = "none", !.heard = FALSE]
  <2>1. m \in Jobs(m)
    BY <1>1, ZenonT(60) DEF Jobs, Ending
  <2>2. /\ m.kind = j.kind /\ m.firm = j.firm /\ m.picked = j.picked /\ m.found = j.found
        /\ m.cache = j.cache /\ m.calm = j.calm /\ m.err = "none" /\ m.bad = j.bad
        /\ m.todo = j.todo /\ m.pair = j.pair /\ m.why = j.why /\ m.got = j.got
        /\ m.side = j.side /\ m.at = "search"
    BY <1>1 DEF Jobs
  <2>3. FromCache(j) = m
    BY <1>3 DEF FromCache
  <2> HIDE DEF m
  <2> QED
    BY <2>1, <2>2, <2>3, EndingGood DEF Ending
<1> QED
  BY <1>2, <1>3

-----------------------------------------------------------------------------
(* Answers.                                                                  *)

\* A pair is to be removed or filled in.
LEMMA SidedGood ==
    ASSUME NEW j, NEW m, Carried(j), PairTodo(j), GotIds(j), j.why \notin {"look", "name"},
           m \in Jobs(m),
           m.kind = j.kind, m.firm = j.firm, m.picked = j.picked, m.found = j.found, m.cache = j.cache,
           m.calm = j.calm, m.err = j.err, m.bad = j.bad, m.todo = j.todo, m.pair = j.pair,
           m.why = j.why, m.got = j.got, m.at \in {"fill", "remove"}, m.at = "remove" => CauseIn(m)
    PROVE  Follows(j, m)
PROOF
<1>1. Carried(m) /\ PairTodo(m)
  BY CarriedOn, TodoOn DEF Carried
<1>2. GotInv(m)
  BY <1>1 DEF GotInv, GotIds, Carried, Cached, Asking, Ending, Prefers, End
<1>3. AskInv(m)
  BY <1>1 DEF AskInv, Carried
<1>4. ConcludeInv(m)
  BY DEF ConcludeInv
<1>5. ProposeInv(m)
  BY <1>1 DEF ProposeInv, Carried, Resolves, Prefers, Ending, Asking
<1>6. TodoInv(m)
  BY <1>1 DEF TodoInv, PairTodo, Named
<1> QED
  BY <1>2, <1>3, <1>4, <1>5, <1>6 DEF Follows, Good, JobInv

\* What is said of the owner of the structure at hand.
WithSaid(j, v) == [j EXCEPT !.said[j.side] = v]

\* What a verdict on one owner changes.
LEMMA SaidFields ==
    ASSUME NEW j, NEW v, NEW k, k = WithSaid(j, v), j \in Jobs(j), v \in {"yes", "no", "unsure"}
    PROVE  /\ k \in Jobs(k)
           /\ k.said[j.side] = v /\ \A i \in {1, 2} : i # j.side => k.said[i] = j.said[i]
           /\ k.kind = j.kind /\ k.firm = j.firm /\ k.picked = j.picked /\ k.found = j.found
           /\ k.cache = j.cache /\ k.calm = j.calm /\ k.err = j.err /\ k.bad = j.bad /\ k.todo = j.todo
           /\ k.pair = j.pair /\ k.side = j.side /\ k.why = j.why /\ k.got = j.got
PROOF
<1> DEFINE m == WithSaid(j, v)
<1>1. m \in Jobs(m)
  BY DEF Jobs, WithSaid
<1>2. m.said[j.side] = v /\ \A i \in {1, 2} : i # j.side => m.said[i] = j.said[i]
  BY DEF Jobs, WithSaid
<1>3. /\ m.kind = j.kind /\ m.firm = j.firm /\ m.picked = j.picked /\ m.found = j.found /\ m.cache = j.cache
      /\ m.calm = j.calm /\ m.err = j.err /\ m.bad = j.bad /\ m.todo = j.todo
      /\ m.pair = j.pair /\ m.side = j.side /\ m.why = j.why /\ m.got = j.got
  BY DEF Jobs, WithSaid
<1> HIDE DEF m
<1>4. k = m
  BY DEF m
<1> QED
  BY <1>1, <1>2, <1>3, <1>4

\* A verdict on one owner: the other is asked about, or validation concludes.
LEMMA SaidGood ==
    ASSUME NEW j, NEW v \in {"yes", "no", "unsure"},
           Carried(j), PairTodo(j), GotIds(j), j.kind = "validate", j.why = "owner",
           NoId \notin {j.got[1], j.got[2]}, v = "no" => No(j, j.side),
           j.side = 2 => j.said[1] # "none" /\ (j.said[1] = "no" => No(j, 1))
    PROVE  Follows(j, Said(j, v))
PROOF
<1> DEFINE k == WithSaid(j, v)
<1>1. j \in Jobs(j) /\ j.side \in {1, 2} /\ j.said[1] \in {"none", "yes", "no", "unsure"}
  BY DEF Carried, Jobs
<1>a. k = WithSaid(j, v)
  OBVIOUS
<1>b. Said(j, v) =
        CASE j.side = 1 -> AskAll([k EXCEPT !.side = 2], "owner", k.got[2])
          [] j.side = 2 /\ (v = "yes" \/ j.said[1] = "yes") -> [k EXCEPT !.at = "fill"]
          [] j.side = 2 /\ "yes" \notin {v, j.said[1]} ->
               IF "unsure" \in {v, j.said[1]} THEN PairDone(j) ELSE [k EXCEPT !.at = "remove"]
  BY DEF Said, WithSaid
<1> HIDE DEF k
<1>2. /\ k \in Jobs(k)
      /\ k.said[j.side] = v /\ \A i \in {1, 2} : i # j.side => k.said[i] = j.said[i]
      /\ k.kind = j.kind /\ k.firm = j.firm /\ k.picked = j.picked /\ k.found = j.found /\ k.cache = j.cache
      /\ k.calm = j.calm /\ k.err = j.err /\ k.bad = j.bad /\ k.todo = j.todo
      /\ k.pair = j.pair /\ k.side = j.side /\ k.why = j.why /\ k.got = j.got
  BY <1>1, <1>a, SaidFields
<1>3. CASE j.side = 1
  <2> DEFINE m == [k EXCEPT !.side = 2]
  <2>1. m \in Jobs(m)
    BY <1>2 DEF Jobs
  <2>2. /\ m.kind = j.kind /\ m.firm = j.firm /\ m.picked = j.picked /\ m.found = j.found /\ m.cache = j.cache
        /\ m.calm = j.calm /\ m.err = j.err /\ m.bad = j.bad /\ m.todo = j.todo
        /\ m.pair = j.pair /\ m.got = j.got /\ m.said = k.said /\ m.side = 2
    BY <1>2 DEF Jobs
  <2>3. Said(j, v) = AskAll(m, "owner", m.got[m.side])
    BY <1>2, <1>3, <1>b, <2>2
  <2> HIDE DEF m
  <2>4. Carried(m) /\ PairTodo(m)
    BY <2>1, <2>2, CarriedOn, TodoOn DEF Carried
  <2>5. GotIds(m) /\ NoId \notin {m.got[1], m.got[2]}
    BY <2>2 DEF GotIds, End
  <2>6. m.said[1] # "none" /\ (m.said[1] = "no" => No(m, 1))
    BY <1>2, <1>3, <2>2 DEF No
  <2> QED
    BY <2>2, <2>3, <2>4, <2>5, <2>6, OwnerGood DEF Follows
<1>4. CASE j.side = 2 /\ (v = "yes" \/ j.said[1] = "yes")
  <2> DEFINE m == [k EXCEPT !.at = "fill"]
  <2>1. m \in Jobs(m)
    BY <1>2 DEF Jobs
  <2>2. /\ m.kind = j.kind /\ m.firm = j.firm /\ m.picked = j.picked /\ m.found = j.found /\ m.cache = j.cache
        /\ m.calm = j.calm /\ m.err = j.err /\ m.bad = j.bad /\ m.todo = j.todo
        /\ m.pair = j.pair /\ m.got = j.got /\ m.why = j.why /\ m.at = "fill"
    BY <1>2 DEF Jobs
  <2>3. Said(j, v) = m
    BY <1>4, <1>b
  <2> HIDE DEF m
  <2> QED
    BY <2>1, <2>2, <2>3, SidedGood DEF Follows
<1>5. CASE j.side = 2 /\ "yes" \notin {v, j.said[1]} /\ "unsure" \in {v, j.said[1]}
  <2>1. Said(j, v) = PairDone(j)
    BY <1>5, <1>b
  <2> QED
    BY <2>1, PairDoneGood DEF Follows
<1>6. CASE j.side = 2 /\ "yes" \notin {v, j.said[1]} /\ "unsure" \notin {v, j.said[1]}
  <2> DEFINE m == [k EXCEPT !.at = "remove"]
  <2>1. m \in Jobs(m)
    BY <1>2 DEF Jobs
  <2>2. /\ m.kind = j.kind /\ m.firm = j.firm /\ m.picked = j.picked /\ m.found = j.found /\ m.cache = j.cache
        /\ m.calm = j.calm /\ m.err = j.err /\ m.bad = j.bad /\ m.todo = j.todo
        /\ m.pair = j.pair /\ m.got = j.got /\ m.why = j.why /\ m.at = "remove"
    BY <1>2 DEF Jobs
  <2>3. Said(j, v) = m
    BY <1>6, <1>b
  <2> HIDE DEF m
  <2>4. No(j, 1) /\ No(j, 2)
    BY <1>1, <1>6
  <2>5. CauseIn(m)
    BY <2>2, <2>4 DEF CauseIn, No
  <2> QED
    BY <2>1, <2>2, <2>3, <2>5, SidedGood DEF Follows
<1> QED
  BY <1>1, <1>3, <1>4, <1>5, <1>6

\* An answer on a structure that may be gone.
LEMMA ConfirmedGood ==
    ASSUME NEW j, NEW r, Carried(j), PairTodo(j), GotIds(j), j.kind = "validate",
           j.why = "confirm", NoId \notin {j.pair.fromId, j.pair.toId},
           r = "gone" => StoredId(j) \notin there
    PROVE  Follows(j, Confirmed(j, r))
PROOF
<1>1. j \in Jobs(j) /\ j.side \in {1, 2}
  BY DEF Carried, Jobs
<1>2. CASE r = "gone"
  <2> DEFINE m == [j EXCEPT !.at = "remove"]
  <2>1. m \in Jobs(m)
    BY <1>1 DEF Jobs
  <2>2. /\ m.kind = j.kind /\ m.firm = j.firm /\ m.picked = j.picked /\ m.found = j.found /\ m.cache = j.cache
        /\ m.calm = j.calm /\ m.err = j.err /\ m.bad = j.bad /\ m.todo = j.todo
        /\ m.pair = j.pair /\ m.got = j.got /\ m.why = j.why /\ m.at = "remove"
    BY <1>1 DEF Jobs
  <2>3. Confirmed(j, r) = m
    BY <1>2 DEF Confirmed
  <2> HIDE DEF m
  <2>4. StoredId(j) \in {m.pair.fromId, m.pair.toId} /\ StoredId(j) # NoId
    BY <2>2 DEF StoredId
  <2>5. CauseIn(m)
    BY <1>2, <2>4 DEF CauseIn
  <2> QED
    BY <2>1, <2>2, <2>3, <2>5, SidedGood DEF Follows
<1>3. CASE r # "gone" /\ j.side = 1
  <2> DEFINE m == [j EXCEPT !.side = 2]
  <2>1. m \in Jobs(m)
    BY <1>1 DEF Jobs
  <2>2. /\ m.kind = j.kind /\ m.firm = j.firm /\ m.picked = j.picked /\ m.found = j.found /\ m.cache = j.cache
        /\ m.calm = j.calm /\ m.err = j.err /\ m.bad = j.bad /\ m.todo = j.todo
        /\ m.pair = j.pair /\ m.got = j.got /\ m.side = 2
    BY <1>1 DEF Jobs
  <2>3. Confirmed(j, r) = AskAll(m, "confirm", StoredId(m))
    BY <1>3, <2>2 DEF Confirmed, StoredId
  <2> HIDE DEF m
  <2>4. Carried(m) /\ PairTodo(m)
    BY <2>1, <2>2, CarriedOn, TodoOn DEF Carried
  <2>5. GotIds(m)
    BY <2>2 DEF GotIds, End
  <2> QED
    BY <2>2, <2>3, <2>4, <2>5, ConfirmGood DEF Follows
<1>4. CASE r # "gone" /\ j.side = 2
  <2>1. Confirmed(j, r) = PairDone(j)
    BY <1>4 DEF Confirmed
  <2> QED
    BY <2>1, PairDoneGood DEF Follows
<1> QED
  BY <1>1, <1>2, <1>3, <1>4

\* A structure looked at for discovery is left, taken or not.
Looking(j) ==
    /\ Carried(j) /\ j.kind = "discover" /\ j.why \in {"look", "name"}
    /\ j.got = Nothing /\ j.side = 1 /\ (j.why = "name" => j.rest # {})
    /\ j.why = "look" => j.todo \subseteq {f[1] : f \in j.finders}
    /\ j.why = "name" => j.todo \subseteq SolarSystems

\* The next structure has its turn.
LEMMA NextHitGood ==
    ASSUME NEW j, Looking(j)
    PROVE  Follows(j, NextHit(j))
PROOF
<1> DEFINE m == NextHit(j)
<1>1. j \in Jobs(j) /\ Carried(j)
  BY DEF Looking, Carried
<1>2. m \in Jobs(m)
  <2> DEFINE at == IF j.why = "name" THEN "each" ELSE "next"
             n == [j EXCEPT !.at = at, !.ask = NoId, !.left = {}, !.err = "none"]
  <2>1. at \in Asking /\ NoId \in StructureIds
    BY DEF Asking, StructureIds
  <2>2. m = n
    BY DEF NextHit
  <2> HIDE DEF at, m
  <2>3. n \in Jobs(n)
    BY <1>1, <2>1, ZenonT(60) DEF Jobs
  <2> QED
    BY <2>2, <2>3
<1>3. /\ m.kind = j.kind /\ m.firm = j.firm /\ m.picked = j.picked /\ m.found = j.found /\ m.cache = j.cache
      /\ m.calm = j.calm /\ m.err = "none" /\ m.bad = j.bad /\ m.todo = j.todo
      /\ m.why = j.why /\ m.got = j.got /\ m.side = j.side /\ m.rest = j.rest
      /\ m.finders = j.finders /\ m.at = IF j.why = "name" THEN "each" ELSE "next"
  BY <1>1 DEF NextHit, Jobs
<1> HIDE DEF m
<1>4. Carried(m)
  BY <1>1, <1>2, <1>3, CarriedOn
<1>5. GotInv(m)
  BY <1>3, <1>4, NothingFound DEF GotInv, Carried, Cached, Asking, Ending, Prefers, Looking
<1>6. AskInv(m)
  BY <1>3, <1>4 DEF AskInv, Carried, Looking
<1>7. ConcludeInv(m)
  BY <1>3 DEF ConcludeInv
<1>8. ProposeInv(m)
  BY <1>3, <1>4 DEF ProposeInv, Carried, Resolves, Prefers, Ending, Asking, Looking
<1>9. TodoInv(m)
  BY <1>3 DEF TodoInv, Named, Looking
<1> QED
  BY <1>2, <1>3, <1>5, <1>6, <1>7, <1>8, <1>9 DEF Follows, Good, JobInv, m

\* A bridge that is ours makes proposals of ours.
LEMMA MergeOurs ==
    ASSUME NEW j, NEW found, NEW t \in Structures, NEW first,
           \A p \in found : Proposal(j, p), OfOurs(j, t, Place[t]), Leads[t] \notin {Nowhere, Place[t]}
    PROVE  \A p \in Merge(found, t, first) : Proposal(j, p)
PROOF
<1> DEFINE old == {p \in found : EndsOf(p) = SystemsOf(t)}
           q == IF old = {} THEN [from |-> Place[t], to |-> Leads[t], fromId |-> NoId, toId |-> NoId]
                ELSE CHOOSE o \in old : TRUE
           Put(id) == IF first /\ id # NoId THEN id ELSE t
           new == IF Place[t] = q.from THEN [q EXCEPT !.fromId = Put(@)] ELSE [q EXCEPT !.toId = Put(@)]
<1>1. Place[t] \in SolarSystems /\ Leads[t] \in SolarSystems /\ t # NoId
  BY StructureSearchAssumption DEF StructureSearchAssumption
<1>2. /\ q \in Between(SolarSystems)
      /\ q.fromId # NoId => OfOurs(j, q.fromId, q.from)
      /\ q.toId # NoId => OfOurs(j, q.toId, q.to)
      /\ {q.from, q.to} = {Place[t], Leads[t]}
  <2>1. CASE old = {}
    BY <1>1, <2>1 DEF Between, StructureIds
  <2>2. CASE old # {}
    <3>1. q \in old
      BY <2>2
    <3> HIDE DEF q
    <3> QED
      BY <3>1 DEF Proposal, EndsOf, SystemsOf
  <2> QED
    BY <2>1, <2>2
<1>3. Merge(found, t, first) = (found \ old) \cup {new}
  BY DEF Merge
<1> HIDE DEF q, old
<1>4. Proposal(j, new)
  <2>1. CASE Place[t] = q.from
    <3>1. CASE first /\ q.fromId # NoId
      <4>1. new = q
        BY <1>2, <2>1, <3>1 DEF Between
      <4> QED
        BY <1>2, <3>1, <4>1 DEF Proposal
    <3>2. CASE ~(first /\ q.fromId # NoId)
      <4>1. /\ new.from = q.from /\ new.to = q.to /\ new.fromId = t /\ new.toId = q.toId
            /\ new \in Between(SolarSystems)
        BY <1>2, <2>1, <3>2 DEF Between, StructureIds
      <4> QED
        BY <1>1, <1>2, <2>1, <4>1 DEF Proposal
    <3> QED
      BY <3>1, <3>2
  <2>2. CASE Place[t] # q.from
    <3>0. q.to = Place[t]
      BY <1>2, <2>2
    <3>1. CASE first /\ q.toId # NoId
      <4>1. new = q
        BY <1>2, <2>2, <3>1 DEF Between
      <4> QED
        BY <1>2, <3>1, <4>1 DEF Proposal
    <3>2. CASE ~(first /\ q.toId # NoId)
      <4>1. /\ new.from = q.from /\ new.to = q.to /\ new.fromId = q.fromId /\ new.toId = t
            /\ new \in Between(SolarSystems)
        BY <1>2, <2>2, <3>2 DEF Between, StructureIds
      <4> QED
        BY <1>1, <1>2, <3>0, <4>1 DEF Proposal
    <3> QED
      BY <3>1, <3>2
  <2> QED
    BY <2>1, <2>2
<1> HIDE DEF new
<1> QED
  BY <1>3, <1>4

\* What is known of a structure that answered.
Asked(j) ==
    /\ Carried(j) /\ j.at = "fetch" /\ GotInv(j) /\ ConcludeInv(j) /\ TodoInv(j)
    /\ j.ask # NoId /\ j.why # "none" /\ (j.why \in {"prefer", "confirm"} => j.ask = StoredId(j))
    /\ j.why = "name" => j.rest # {}
    /\ j.why \in {"look", "name"} => j.kind = "discover"
    /\ j.kind = "discover" /\ j.why = "prefer" =>
         Proposal(j, j.pair) /\ (j.calm /\ j.side = 2 => j.pair.fromId \in {NoId, j.got[1]})

\* While a preferred structure is fetched the ends of the pair are resolved.
LEMMA AskedPairing ==
    ASSUME NEW j, Asked(j), j.why = "prefer"
    PROVE  Pairing(j)
PROOF
<1>1. PairTodo(j)
  BY DEF Asked, PairTodo, TodoInv, Named
<1>2. GotIds(j) /\ (j.side = 2 => j.got[1] # NoId)
  BY DEF Asked, GotInv, GotIds, Prefers
<1> QED
  BY <1>1, <1>2 DEF Pairing, Asked

\* A structure is there and its owner is looked up.
LEMMA JudgeGood ==
    ASSUME NEW j, Asked(j), j.why \in {"owner", "look", "name"},
           j.why # "owner" => Leading(j) /\ (j.calm => Reached(j.ask, j.picked))
    PROVE  Follows(j, [j EXCEPT !.at = "judge"])
PROOF
<1> DEFINE m == [j EXCEPT !.at = "judge"]
<1>1. j \in Jobs(j) /\ Carried(j)
  BY DEF Asked, Carried
<1>2. m \in Jobs(m)
  BY <1>1 DEF Jobs
<1>3. /\ m.kind = j.kind /\ m.firm = j.firm /\ m.picked = j.picked /\ m.found = j.found /\ m.cache = j.cache
      /\ m.calm = j.calm /\ m.err = j.err /\ m.bad = j.bad /\ m.todo = j.todo
      /\ m.why = j.why /\ m.got = j.got /\ m.side = j.side /\ m.rest = j.rest /\ m.ask = j.ask
      /\ m.finders = j.finders /\ m.pair = j.pair /\ m.said = j.said /\ m.at = "judge"
  BY <1>1 DEF Jobs
<1> HIDE DEF m
<1>4. Carried(m)
  BY <1>1, <1>2, <1>3, CarriedOn DEF Carried
<1>5. \A p : Proposal(j, p) => Proposal(m, p)
  BY <1>3, ProposalOf
<1>6. GotInv(m)
  BY <1>3, <1>4 DEF GotInv, Asked, Asking, Ending, Prefers, End
<1>7. AskInv(m)
  BY <1>3, <1>4 DEF AskInv, Asked, Carried
<1>8. ConcludeInv(m)
  BY <1>3 DEF ConcludeInv, Asked, No
<1>9. ProposeInv(m)
  <2>1. m.why # "owner" => Leading(m)
    BY <1>3 DEF Leading
  <2> QED
    BY <1>3, <1>4, <2>1 DEF ProposeInv, Carried, Resolves, Prefers, Ending, Asking, Asked
<1>10. TodoInv(m)
  BY <1>3, <1>5 DEF TodoInv, Named, Asked
<1> QED
  BY <1>2, <1>3, <1>6, <1>7, <1>8, <1>9, <1>10 DEF Follows, Good, JobInv, m

\* The answer r to the question of job j.
LEMMA AfterFetchGood ==
    ASSUME NEW j, NEW r \in {"ok", "unsure", "gone", "broken"}, Asked(j),
           r = "gone" => j.ask \notin there, r = "broken" => j.bad,
           r = "ok" /\ j.calm => Reached(j.ask, j.picked),
           ~(r # "ok" /\ j.calm /\ j.kind = "discover" /\ j.why = "prefer")
    PROVE  Follows(j, AfterFetch(j, r))
PROOF
<1>1. j \in Jobs(j) /\ Carried(j) /\ j.side \in {1, 2}
  BY DEF Asked, Carried, Jobs
<1>2. CASE j.why = "prefer"
  <2>1. Pairing(j)
    BY <1>2, AskedPairing
  <2>2. j.ask \in StructureIds /\ j.ask = StoredId(j) /\ j.ask # NoId
    BY <1>1, <1>2 DEF Jobs, Asked
  <2>3. CASE r = "ok" /\ BridgeIn(j.ask, Here(j))
    <3>1. AfterFetch(j, r) = InCache(j, j.ask)
      BY <1>2, <2>3 DEF AfterFetch
    <3> QED
      BY <2>1, <2>2, <2>3, <3>1, InCacheGood DEF Follows
  <2>4. CASE ~(r = "ok" /\ BridgeIn(j.ask, Here(j)))
    <3>1. AfterFetch(j, r) = FromCache(j)
      BY <1>2, <2>4 DEF AfterFetch
    <3>2. j.kind = "discover" => BridgeIn(j.ask, Here(j))
      BY <1>1, <2>1, <2>2 DEF Pairing, Proposal, OfOurs, StoredId, Here
    <3>3. ~(j.kind = "discover" /\ j.calm)
      BY <1>2, <2>4, <3>2
    <3> QED
      BY <2>1, <3>1, <3>3, FromCacheGood DEF Follows
  <2> QED
    BY <2>3, <2>4
<1>3. CASE j.why = "confirm"
  <2>1. AfterFetch(j, r) = Confirmed(j, r)
    BY <1>3 DEF AfterFetch
  <2>2. /\ j.kind = "validate" /\ NoId \notin {j.pair.fromId, j.pair.toId} /\ j.ask = StoredId(j)
        /\ PairTodo(j) /\ GotIds(j)
    BY <1>3 DEF Asked, ConcludeInv, PairTodo, TodoInv, GotInv, GotIds
  <2> QED
    BY <1>1, <1>3, <2>1, <2>2, ConfirmedGood DEF Follows
<1>4. CASE j.why = "owner" /\ r = "ok"
  <2>1. AfterFetch(j, r) = [j EXCEPT !.at = "judge"]
    BY <1>4 DEF AfterFetch
  <2> QED
    BY <1>4, <2>1, JudgeGood DEF Follows
<1>5. CASE j.why = "owner" /\ r # "ok"
  <2>1. AfterFetch(j, r) = Said(j, OwnerUnknown(r))
    BY <1>5 DEF AfterFetch
  <2>2. /\ j.kind = "validate" /\ NoId \notin {j.got[1], j.got[2]} /\ j.ask = j.got[j.side]
        /\ (j.side = 2 => j.said[1] # "none" /\ (j.said[1] = "no" => No(j, 1)))
        /\ PairTodo(j) /\ GotIds(j)
    BY <1>5 DEF Asked, ConcludeInv, PairTodo, TodoInv, GotInv, GotIds
  <2>3. OwnerUnknown(r) \in {"yes", "no", "unsure"} /\ (OwnerUnknown(r) = "no" => No(j, j.side))
    BY <1>5, <2>2 DEF OwnerUnknown, No
  <2> QED
    BY <1>1, <1>5, <2>1, <2>2, <2>3, SaidGood DEF Follows
<1>6. CASE j.why \in {"look", "name"} /\ r = "ok" /\ Leading(j)
  <2>1. AfterFetch(j, r) = [j EXCEPT !.at = "judge"]
    BY <1>6 DEF AfterFetch
  <2> QED
    BY <1>6, <2>1, JudgeGood DEF Follows
<1>7. CASE j.why \in {"look", "name"} /\ ~(r = "ok" /\ Leading(j))
  <2>1. AfterFetch(j, r) = NextHit(j)
    BY <1>7 DEF AfterFetch
  <2>2. Looking(j)
    BY <1>1, <1>7 DEF Asked, Looking, GotInv, TodoInv, Named
  <2> QED
    BY <2>1, <2>2, NextHitGood DEF Follows
<1>8. j.why \in {"prefer", "confirm", "owner", "look", "name"}
  BY <1>1 DEF Asked, Jobs
<1> QED
  BY <1>2, <1>3, <1>4, <1>5, <1>6, <1>7, <1>8

\* The owner of the structure at hand is allowed or not.
LEMMA JudgedGood ==
    ASSUME NEW j, NEW yes \in BOOLEAN, Carried(j), j.ask \in Structures,
           j.why = "owner" =>
              /\ j.kind = "validate" /\ PairTodo(j) /\ GotIds(j) /\ NoId \notin {j.got[1], j.got[2]}
              /\ (j.side = 2 => j.said[1] # "none" /\ (j.said[1] = "no" => No(j, 1)))
              /\ yes \/ No(j, j.side),
           j.why # "owner" => /\ Looking(j) /\ Leading(j) /\ (j.calm => Reached(j.ask, j.picked))
                              /\ (yes => Liked(Owner[j.ask]))
    PROVE  Follows(j, Judged(j, yes))
PROOF
<1>1. j \in Jobs(j)
  BY DEF Carried
<1>2. CASE j.why = "owner"
  <2>1. Judged(j, yes) = Said(j, IF yes THEN "yes" ELSE "no")
    BY <1>2 DEF Judged
  <2> QED
    BY <1>2, <2>1, SaidGood DEF Follows
<1>3. CASE j.why # "owner"
  <2> DEFINE f == IF yes THEN Merge(j.found, j.ask, j.why = "name") ELSE j.found
             m == [j EXCEPT !.found = f]
  <2>1. OfOurs(j, j.ask, Place[j.ask]) \/ ~yes
    BY <1>3 DEF OfOurs, Leading, BridgeIn
  <2>2. \A p \in f : Proposal(j, p)
    <3>1. \A p \in j.found : Proposal(j, p)
      BY DEF Carried
    <3> QED
      BY <1>3, <2>1, <3>1, MergeOurs DEF Leading
  <2>3. Judged(j, yes) = NextHit(m)
    BY <1>1, <1>3 DEF Judged, Jobs
  <2> HIDE DEF f
  <2>4. f \subseteq Between(SolarSystems)
    BY <2>2 DEF Proposal
  <2>5. m \in Jobs(m)
    BY <1>1, <2>4 DEF Jobs
  <2>6. /\ m.kind = j.kind /\ m.firm = j.firm /\ m.picked = j.picked /\ m.found = f
        /\ m.cache = j.cache /\ m.calm = j.calm /\ m.err = j.err /\ m.bad = j.bad /\ m.todo = j.todo
        /\ m.why = j.why /\ m.got = j.got /\ m.side = j.side /\ m.rest = j.rest
        /\ m.finders = j.finders
    BY <1>1 DEF Jobs
  <2> HIDE DEF m
  <2>7. \A p : Proposal(j, p) => Proposal(m, p)
    BY <2>6, ProposalOf
  <2>8. Looking(m)
    BY <1>3, <2>2, <2>5, <2>6, <2>7 DEF Looking, Carried, Cached
  <2> QED
    BY <2>3, <2>6, <2>8, NextHitGood DEF Follows
<1> QED
  BY <1>2, <1>3

-----------------------------------------------------------------------------
(* Steps.                                                                    *)

\* In the same world a job in order is in order.
LEMMA SameWorld ==
    ASSUME NEW k, job' = k, Good(k), UNCHANGED <<there, sees, usable, been>>
    PROVE  Good(job)'
PROOF
<1>1. (job \in Jobs(job))'
  BY DEF Good, Jobs
<1>2. GotInv(job)'
  BY DEF Good, JobInv, GotInv, Prefers
<1>3. AskInv(job)'
  BY DEF Good, JobInv, AskInv
<1>4. ConcludeInv(job)'
  BY DEF Good, JobInv, ConcludeInv, No, CauseIn, Disliked
<1>5. \A t, C : Reached(t, C) => Reached(t, C)'
  BY DEF Reached, Fact
<1>6. \A t, q : OfOurs(k, t, q) => OfOurs(job, t, q)'
  BY <1>5 DEF OfOurs, Liked
<1>7. \A p : Proposal(k, p) => Proposal(job, p)'
  BY <1>6 DEF Proposal
<1>8. ProposeInv(job)'
  <2>1. ProposeInv(k)
    BY DEF Good, JobInv
  <2> QED
    BY <1>5, <1>7, <2>1 DEF ProposeInv, Leading, Resolves, Prefers, StoredId
<1>9. TodoInv(job)'
  <2>1. TodoInv(k)
    BY DEF Good, JobInv
  <2> QED
    BY <1>7, <2>1 DEF TodoInv, Named
<1> QED
  BY <1>1, <1>2, <1>3, <1>4, <1>8, <1>9 DEF Good, JobInv

\* What is counted.
Counting == [runs : Nat, faults : Nat, moves : Nat]

\* A step that changes the job and the table keeps the invariant if the job it
\* leaves is in order and ids are of bridges in their systems.
LEMMA TableStep ==
    ASSUME SearchInv, NEW k, job' = k, Good(k), k.kind \in {"none", job.kind},
           \A o \in Corps : k.firm[o] \in {job.firm[o], "unset"},
           links' \subseteq Between(SolarSystems), IdsAreOfTheirSystems',
           UNCHANGED <<known, world, been>>, count' \in Counting
    PROVE  SearchInv'
PROOF
<1>1. Good(job)'
  BY SameWorld DEF world
<1>2. SearchTypes'
  BY <1>1 DEF SearchInv, SearchTypes, Good, world, Counting
<1>3. BeenInv'
  BY DEF SearchInv, BeenInv, world
<1> QED
  BY <1>1, <1>2, <1>3 DEF SearchInv, Good

\* So does a step that changes the job only.
LEMMA QuietStep ==
    ASSUME SearchInv, NEW k, job' = k, Good(k), k.kind \in {"none", job.kind},
           \A o \in Corps : k.firm[o] \in {job.firm[o], "unset"},
           UNCHANGED <<links, known, world, been>>, count' \in Counting
    PROVE  SearchInv'
PROOF
<1>1. links' \subseteq Between(SolarSystems)
  BY DEF SearchInv, SearchTypes
<1>2. IdsAreOfTheirSystems'
  BY DEF SearchInv, IdsAreOfTheirSystems
<1> QED
  BY <1>1, <1>2, TableStep

\* What becomes of the job in order.
LEMMA FollowStep ==
    ASSUME SearchInv, NEW k, job' = k, Follows(job, k),
           UNCHANGED <<links, known, world, been>>, count' \in Counting
    PROVE  SearchInv'
PROOF
  BY QuietStep DEF Follows

\* A call is counted.
LEMMA CountsTyped ==
    ASSUME SearchInv, NEW a, NEW fact, Counts(a, fact)
    PROVE  count' \in Counting
PROOF
  BY DEF Counts, SearchInv, SearchTypes, Counting

\* A job with something to do has a run's characters.
LEMMA Running ==
    ASSUME SearchInv, job.kind # "none" \/ job.at # "idle"
    PROVE  Carried(job) /\ Good(job) /\ count \in Counting
PROOF
<1>1. Good(job) /\ count \in Counting
  BY DEF SearchInv, SearchTypes, Good, Counting
<1>2. job.kind # "none"
  BY <1>1 DEF Good, JobInv, AskInv, NoJob, Fresh
<1> QED
  BY <1>1, <1>2 DEF Good, JobInv, Carried, Cached, GotInv, AskInv, ProposeInv

\* An end of a pair is being resolved.
LEMMA Resolving1 ==
    ASSUME SearchInv, job.at \in Ending
    PROVE  Pairing(job)
PROOF
<1>1. Carried(job) /\ Good(job)
  BY Running DEF Ending
<1>2. job.why \notin {"look", "name"} /\ job.at \notin Asking
  BY <1>1 DEF Good, JobInv, ProposeInv, Ending, Asking
<1>3. PairTodo(job)
  BY <1>1, <1>2 DEF Good, JobInv, TodoInv, Named, PairTodo, Asking
<1>4. GotIds(job) /\ (job.side = 2 => job.got[1] # NoId)
  BY <1>1 DEF Good, JobInv, GotInv, GotIds
<1> QED
  BY <1>1, <1>2, <1>3, <1>4 DEF Pairing, Good, JobInv, ProposeInv, Resolves

\* A stored structure is preferred.
LEMMA PreferGood ==
    ASSUME NEW j, Pairing(j), StoredId(j) # NoId
    PROVE  Follows(j, AskAll(j, "prefer", StoredId(j)))
PROOF
<1> DEFINE k == AskAll(j, "prefer", StoredId(j))
<1>1. j \in Jobs(j) /\ Carried(j) /\ j.side \in {1, 2}
  BY DEF Carried, Pairing, Jobs
<1>2. StoredId(j) \in StructureIds
  BY <1>1 DEF StoredId, Jobs, Between
<1>a. k = AskAll(j, "prefer", StoredId(j))
  OBVIOUS
<1> HIDE DEF k
<1>3. /\ k \in Jobs(k)
      /\ k.at = "fetch" /\ k.why = "prefer" /\ k.ask = StoredId(j) /\ k.err = "none"
      /\ k.left = j.picked /\ k.kind = j.kind /\ k.firm = j.firm /\ k.todo = j.todo
      /\ k.picked = j.picked /\ k.calm = j.calm /\ k.found = j.found /\ k.cache = j.cache
      /\ k.bad = j.bad /\ k.pair = j.pair /\ k.side = j.side /\ k.got = j.got
  BY <1>1, <1>2, <1>a, AskAllFields
<1>4. Carried(k) /\ PairTodo(k)
  BY <1>1, <1>3, CarriedOn, TodoOn DEF Pairing
<1>5. \A p : Proposal(j, p) => Proposal(k, p)
  BY <1>3, ProposalOf
<1>6. GotInv(k)
  BY <1>3, <1>4 DEF GotInv, GotIds, Carried, Cached, Asking, Ending, Prefers, End, Pairing
<1>7. AskInv(k)
  BY <1>3, <1>4 DEF AskInv, Carried, StoredId
<1>8. ConcludeInv(k)
  BY <1>3 DEF ConcludeInv
<1>9. ProposeInv(k)
  <2>1. k.kind = "discover" => Proposal(k, k.pair)
    BY <1>3, <1>5 DEF Pairing
  <2>2. k.kind = "discover" /\ k.calm => Reached(k.ask, k.left)
    BY <1>1, <1>3, <2>1 DEF Proposal, OfOurs, StoredId
  <2>3. k.kind = "discover" /\ k.calm /\ k.side = 2 => k.pair.fromId \in {NoId, k.got[1]}
    BY <1>3 DEF Pairing
  <2> QED
    BY <1>3, <1>4, <2>1, <2>2, <2>3 DEF ProposeInv, Carried, Asking, Ending
<1>10. TodoInv(k)
  BY <1>3, <1>4 DEF TodoInv, PairTodo, Named
<1> QED
  BY <1>3, <1>6, <1>7, <1>8, <1>9, <1>10 DEF Follows, Good, JobInv, k

\* An end is resolved with the stored structure or from the cache.
LEMMA ResolveEndStep ==
    SearchInv /\ ResolveEnd => SearchInv'
PROOF
<1> SUFFICES ASSUME SearchInv, ResolveEnd PROVE SearchInv'
  OBVIOUS
<1>1. Pairing(job) /\ count \in Counting
  BY Resolving1, Running DEF ResolveEnd, Ending
<1>2. CASE StoredId(job) # NoId
  BY <1>1, <1>2, PreferGood, FollowStep DEF ResolveEnd
<1>3. CASE StoredId(job) = NoId
  BY <1>1, <1>3, FromCacheGood, FollowStep DEF ResolveEnd
<1> QED
  BY <1>2, <1>3

\* What a call that was answered with a leaves.
LEMMA ToldFields ==
    ASSUME NEW j, NEW a, NEW fact, NEW k, k = Told(j, a, fact), j \in Jobs(j)
    PROVE  /\ k \in Jobs(k)
           /\ k.calm = (j.calm /\ a = fact) /\ k.bad = (j.bad \/ a = "broken")
           /\ k.kind = j.kind /\ k.firm = j.firm /\ k.picked = j.picked /\ k.found = j.found
           /\ k.cache = j.cache /\ k.err = j.err /\ k.todo = j.todo /\ k.pair = j.pair
           /\ k.side = j.side /\ k.why = j.why /\ k.got = j.got /\ k.at = j.at /\ k.left = j.left
           /\ k.ask = j.ask /\ k.rest = j.rest /\ k.finders = j.finders /\ k.said = j.said
           /\ k.hits = j.hits
PROOF
<1> DEFINE m == Told(j, a, fact)
<1>1. m \in Jobs(m)
  <2> DEFINE x == j.calm /\ a = fact
             y == j.bad \/ a = "broken"
             n == [j EXCEPT !.calm = x, !.bad = y]
  <2>1. x \in BOOLEAN /\ y \in BOOLEAN
    OBVIOUS
  <2>2. m = n
    BY DEF Told
  <2> HIDE DEF x, y, m
  <2>3. n \in Jobs(n)
    BY <2>1, ZenonT(60) DEF Jobs
  <2> QED
    BY <2>2, <2>3
<1>2. m.calm = (j.calm /\ a = fact) /\ m.bad = (j.bad \/ a = "broken")
  BY DEF Jobs, Told
<1>3. /\ m.kind = j.kind /\ m.firm = j.firm /\ m.picked = j.picked /\ m.found = j.found
      /\ m.cache = j.cache /\ m.err = j.err /\ m.todo = j.todo /\ m.pair = j.pair
      /\ m.side = j.side /\ m.why = j.why /\ m.got = j.got /\ m.at = j.at /\ m.left = j.left
      /\ m.ask = j.ask /\ m.rest = j.rest /\ m.finders = j.finders /\ m.said = j.said
      /\ m.hits = j.hits
  BY DEF Jobs, Told
<1> HIDE DEF m
<1>4. k = m
  BY DEF m
<1> QED
  BY <1>1, <1>2, <1>3, <1>4

\* A job with other characters left and another error is a job.
LEMMA LeftTyped ==
    ASSUME NEW j, j \in Jobs(j), NEW l \in SUBSET j.picked,
           NEW e \in {"none", "unsure", "gone", "broken"},
           NEW k, k = [j EXCEPT !.left = l, !.err = e]
    PROVE  k \in Jobs(k)
PROOF
<1> DEFINE m == [j EXCEPT !.left = l, !.err = e]
<1>1. m \in Jobs(m)
  BY ZenonT(60) DEF Jobs
<1> QED
  BY <1>1

\* After an answer that is an error the next character is asked.
AfterError(j, a, fact, c) ==
    [Told(j, a, fact) EXCEPT !.left = @ \ {c}, !.err = IF @ = "none" THEN a ELSE @]

\* What such an answer changes.
LEMMA AfterErrorFields ==
    ASSUME NEW j, NEW a, NEW fact, NEW c, NEW k, k = AfterError(j, a, fact, c),
           j \in Jobs(j), a \in {"unsure", "gone", "broken"}
    PROVE  /\ k \in Jobs(k)
           /\ k.calm = (j.calm /\ a = fact) /\ k.bad = (j.bad \/ a = "broken")
           /\ k.left = j.left \ {c} /\ k.err = (IF j.err = "none" THEN a ELSE j.err)
           /\ k.kind = j.kind /\ k.firm = j.firm /\ k.picked = j.picked /\ k.found = j.found
           /\ k.cache = j.cache /\ k.todo = j.todo /\ k.pair = j.pair
           /\ k.side = j.side /\ k.why = j.why /\ k.got = j.got /\ k.at = j.at
           /\ k.ask = j.ask /\ k.rest = j.rest /\ k.finders = j.finders /\ k.said = j.said
PROOF
<1> DEFINE t == Told(j, a, fact)
           m == AfterError(j, a, fact, c)
<1>a. t = Told(j, a, fact) /\ m = [t EXCEPT !.left = @ \ {c}, !.err = IF @ = "none" THEN a ELSE @]
  BY DEF AfterError
<1> HIDE DEF t, m
<1>1. /\ t \in Jobs(t)
      /\ t.calm = (j.calm /\ a = fact) /\ t.bad = (j.bad \/ a = "broken")
      /\ t.kind = j.kind /\ t.firm = j.firm /\ t.picked = j.picked /\ t.found = j.found
      /\ t.cache = j.cache /\ t.err = j.err /\ t.todo = j.todo /\ t.pair = j.pair
      /\ t.side = j.side /\ t.why = j.why /\ t.got = j.got /\ t.at = j.at /\ t.left = j.left
      /\ t.ask = j.ask /\ t.rest = j.rest /\ t.finders = j.finders /\ t.said = j.said
  BY <1>a, ToldFields
<1>2. m \in Jobs(m)
  <2> DEFINE l == t.left \ {c}
             e == IF t.err = "none" THEN a ELSE t.err
             n == [t EXCEPT !.left = l, !.err = e]
  <2>0. t \in Jobs(t)
    BY <1>1
  <2>1. l \subseteq t.picked /\ e \in {"none", "unsure", "gone", "broken"}
    BY <1>1 DEF Jobs
  <2>2. m = n
    BY <1>a
  <2> HIDE DEF l, e
  <2> QED
    BY <2>0, <2>1, <2>2, LeftTyped
<1>3. /\ m.calm = t.calm /\ m.bad = t.bad
      /\ m.left = t.left \ {c} /\ m.err = (IF t.err = "none" THEN a ELSE t.err)
      /\ m.kind = t.kind /\ m.firm = t.firm /\ m.picked = t.picked /\ m.found = t.found
      /\ m.cache = t.cache /\ m.todo = t.todo /\ m.pair = t.pair
  BY <1>a, <1>1 DEF Jobs
<1>4. /\ m.side = t.side /\ m.why = t.why /\ m.got = t.got /\ m.at = t.at
      /\ m.ask = t.ask /\ m.rest = t.rest /\ m.finders = t.finders /\ m.said = t.said
  BY <1>a, <1>1 DEF Jobs
<1>5. k = m
  BY DEF m
<1> QED
  BY <1>1, <1>2, <1>3, <1>4, <1>5

\* A character's search for a system is answered.
LEMMA SearchStep ==
    SearchInv /\ Search => SearchInv'
PROOF
<1> SUFFICES ASSUME SearchInv, Search PROVE SearchInv'
  OBVIOUS
<1> DEFINE c == Min(job.left)
           T == {t \in Structures : Here(job) \in SystemsOf(t)}
<1>1. /\ Pairing(job) /\ count \in Counting /\ job \in Jobs(job) /\ Carried(job)
      /\ job.at = "search" /\ UNCHANGED <<links, known, world, been>>
      /\ SearchSays(job, c, T)
  BY Resolving1, Running DEF Search, Ending, Good
<1>2. job.kind = "discover" /\ job.calm => StoredId(job) = NoId
  BY <1>1 DEF SearchInv, JobInv, ProposeInv, Resolves, Ending
<1>3. ASSUME NEW S \in Listing(c, Seen(c, T)), job' = AfterSearch(c, S), count' = count
      PROVE  SearchInv'
  <2> DEFINE m == [job EXCEPT !.at = "match", !.heard = TRUE, !.hits = S]
  <2>1. S \subseteq Structures
    BY <1>3 DEF Listing, Seen
  <2>2. m \in Jobs(m)
    BY <1>1, <2>1, ZenonT(60) DEF Jobs, Ending
  <2>3. /\ m.kind = job.kind /\ m.firm = job.firm /\ m.picked = job.picked /\ m.found = job.found
        /\ m.cache = job.cache /\ m.calm = job.calm /\ m.err = job.err /\ m.bad = job.bad
        /\ m.todo = job.todo /\ m.pair = job.pair /\ m.why = job.why /\ m.got = job.got
        /\ m.side = job.side /\ m.at = "match"
    BY <1>1 DEF Jobs
  <2>4. job' = m
    BY <1>1, <1>3 DEF AfterSearch
  <2> HIDE DEF m
  <2>5. Follows(job, m)
    BY <1>1, <1>2, <2>2, <2>3, EndingGood DEF Ending, Carried
  <2> QED
    BY <1>1, <1>3, <2>4, <2>5, FollowStep
<1>4. ASSUME NEW a \in {"unsure", "broken"}, NEW fact, Counts(a, fact),
             job' = AfterError(job, a, fact, c)
      PROVE  SearchInv'
  <2> DEFINE m == AfterError(job, a, fact, c)
  <2>a. m = AfterError(job, a, fact, c)
    OBVIOUS
  <2> HIDE DEF m
  <2>1. /\ m \in Jobs(m)
        /\ m.calm = (job.calm /\ a = fact) /\ m.bad = (job.bad \/ a = "broken")
        /\ m.err = (IF job.err = "none" THEN a ELSE job.err)
        /\ m.kind = job.kind /\ m.firm = job.firm /\ m.picked = job.picked /\ m.found = job.found
        /\ m.cache = job.cache /\ m.todo = job.todo /\ m.pair = job.pair /\ m.why = job.why
        /\ m.got = job.got /\ m.side = job.side /\ m.at = "search"
    BY <1>1, <2>a, AfterErrorFields
  <2>2. m.err = "broken" => m.bad
    BY <1>1, <2>1 DEF Carried
  <2>3. Follows(job, m)
    BY <1>1, <1>2, <2>1, <2>2, EndingGood DEF Ending
  <2> QED
    BY <1>1, <1>4, <2>a, <2>3, FollowStep, CountsTyped
<1> QED
  BY <1>1, <1>3, <1>4 DEF SearchSays, AfterError

\* An end is being searched for.
LEMMA PairingOn ==
    ASSUME NEW j, NEW m, Pairing(j), m \in Jobs(m),
           m.kind = j.kind, m.picked = j.picked, m.found = j.found, m.cache = j.cache,
           m.todo = j.todo, m.pair = j.pair, m.why = j.why, m.got = j.got, m.side = j.side,
           m.calm => j.calm, m.err = "broken" => m.bad
    PROVE  Pairing(m)
PROOF
<1>0. Carried(j) /\ PairTodo(j)
  BY DEF Pairing
<1>1. Carried(m) /\ PairTodo(m)
  BY <1>0, CarriedOn, TodoOn
<1>2. \A p : Proposal(j, p) => Proposal(m, p)
  BY ProposalOf
<1> QED
  BY <1>1, <1>2 DEF Pairing, GotIds, End

\* A structure found is a bridge in the system, or the next one is tried.
LEMMA MatchStep ==
    ASSUME SearchInv, NEW t, Match(t)
    PROVE  SearchInv'
PROOF
<1> DEFINE fact == Fact(Min(job.left), t)
<1>1. /\ Pairing(job) /\ count \in Counting /\ job \in Jobs(job) /\ Carried(job)
      /\ job.at = "match" /\ t \in job.hits /\ UNCHANGED <<links, known, world, been>>
  BY Resolving1, Running DEF Match, Ending, Good
<1>2. job.kind = "discover" /\ job.calm => StoredId(job) = NoId
  BY <1>1 DEF SearchInv, JobInv, ProposeInv, Resolves, Ending
<1>3. t \in StructureIds
  BY <1>1 DEF Jobs, StructureIds
<1>4. PICK a \in {fact, "unsure", "broken"} :
        /\ Counts(a, fact)
        /\ job' = IF a = "ok" /\ BridgeIn(t, Here(Told(job, a, fact))) THEN InCache(Told(job, a, fact), t)
                  ELSE [Told(job, a, fact) EXCEPT !.hits = @ \ {t}]
  BY DEF Match, Told, Here
<1> HIDE DEF fact
<1> DEFINE j == Told(job, a, fact)
<1>a. j = Told(job, a, fact)
  OBVIOUS
<1>b. job' = IF a = "ok" /\ BridgeIn(t, Here(j)) THEN InCache(j, t) ELSE [j EXCEPT !.hits = @ \ {t}]
  BY <1>4
<1> HIDE DEF j
<1>5. /\ j \in Jobs(j)
      /\ j.calm = (job.calm /\ a = fact) /\ j.bad = (job.bad \/ a = "broken")
      /\ j.kind = job.kind /\ j.firm = job.firm /\ j.picked = job.picked /\ j.found = job.found
      /\ j.cache = job.cache /\ j.err = job.err /\ j.todo = job.todo /\ j.pair = job.pair
      /\ j.side = job.side /\ j.why = job.why /\ j.got = job.got /\ j.at = "match"
  BY <1>1, <1>a, ToldFields
<1>6. Pairing(j)
  BY <1>1, <1>5, PairingOn DEF Carried
<1>7. j.kind = "discover" /\ j.calm => StoredId(j) = NoId
  BY <1>2, <1>5 DEF StoredId
<1>8. \E k : job' = k /\ Follows(j, k)
  <2>1. CASE a = "ok" /\ BridgeIn(t, Here(j))
    BY <1>3, <1>6, <1>7, <1>b, <2>1, InCacheGood
  <2>2. CASE ~(a = "ok" /\ BridgeIn(t, Here(j)))
    <3> DEFINE m == [j EXCEPT !.hits = @ \ {t}]
    <3>1. m \in Jobs(m)
      BY <1>5 DEF Jobs
    <3>2. /\ m.kind = j.kind /\ m.firm = j.firm /\ m.picked = j.picked /\ m.found = j.found
          /\ m.cache = j.cache /\ m.calm = j.calm /\ m.err = j.err /\ m.bad = j.bad
          /\ m.todo = j.todo /\ m.pair = j.pair /\ m.why = j.why /\ m.got = j.got
          /\ m.side = j.side /\ m.at = "match"
      BY <1>5 DEF Jobs
    <3>3. job' = m
      BY <1>b, <2>2
    <3> HIDE DEF m
    <3>4. m.err = "broken" => m.bad
      BY <1>6, <3>2 DEF Pairing, Carried
    <3> QED
      BY <1>6, <1>7, <3>1, <3>2, <3>3, <3>4, EndingGood DEF Ending
  <2> QED
    BY <2>1, <2>2
<1> QED
  BY <1>1, <1>4, <1>5, <1>8, FollowStep, CountsTyped DEF Follows

\* No bridge was found: the next character searches.
LEMMA NoMatchStep ==
    SearchInv /\ NoMatch => SearchInv'
PROOF
<1> SUFFICES ASSUME SearchInv, NoMatch PROVE SearchInv'
  OBVIOUS
<1>1. /\ Pairing(job) /\ count \in Counting /\ job \in Jobs(job) /\ Carried(job)
      /\ job.at = "match" /\ UNCHANGED <<links, known, world, been, count>>
  BY Resolving1, Running DEF NoMatch, Ending, Good
<1>2. job.kind = "discover" /\ job.calm => StoredId(job) = NoId
  BY <1>1 DEF SearchInv, JobInv, ProposeInv, Resolves, Ending
<1> DEFINE m == [job EXCEPT !.at = "search", !.left = @ \ {Min(@)}]
<1>3. m \in Jobs(m)
  BY <1>1, ZenonT(60) DEF Jobs, Ending
<1>4. /\ m.kind = job.kind /\ m.firm = job.firm /\ m.picked = job.picked /\ m.found = job.found
      /\ m.cache = job.cache /\ m.calm = job.calm /\ m.err = job.err /\ m.bad = job.bad
      /\ m.todo = job.todo /\ m.pair = job.pair /\ m.why = job.why /\ m.got = job.got
      /\ m.side = job.side /\ m.at = "search"
  BY <1>1 DEF Jobs
<1>5. job' = m
  BY DEF NoMatch
<1> HIDE DEF m
<1>6. Follows(job, m)
  BY <1>1, <1>2, <1>3, <1>4, EndingGood DEF Ending, Carried
<1> QED
  BY <1>1, <1>5, <1>6, FollowStep

\* Everybody has searched for the system.
LEMMA SearchEndsStep ==
    SearchInv /\ SearchEnds => SearchInv'
PROOF
<1> SUFFICES ASSUME SearchInv, SearchEnds PROVE SearchInv'
  OBVIOUS
<1>1. /\ Pairing(job) /\ count \in Counting /\ UNCHANGED <<links, known, world, been, count>>
  BY Resolving1, Running DEF SearchEnds, Ending
<1>2. CASE ~job.heard /\ job.err # "none"
  BY <1>1, <1>2, EndUnresolvedGood, FollowStep DEF SearchEnds, Pairing
<1>3. CASE ~(~job.heard /\ job.err # "none")
  <2>1. Follows(job, InCache(job, NoId))
    BY <1>1, InCacheGood DEF StructureIds
  <2> QED
    BY <1>1, <1>3, <2>1, FollowStep DEF SearchEnds
<1> QED
  BY <1>2, <1>3

\* One character's answer leaves the others.
LEMMA WaitGood ==
    ASSUME NEW j, NEW m, Asked(j), m \in Jobs(m), m.at = j.at, m.ask = j.ask, m.rest = j.rest,
           m.kind = j.kind, m.firm = j.firm, m.picked = j.picked, m.found = j.found,
           m.cache = j.cache, m.todo = j.todo, m.pair = j.pair, m.why = j.why, m.got = j.got,
           m.side = j.side, m.said = j.said, m.finders = j.finders,
           m.calm => j.calm, j.bad => m.bad, m.err = "broken" => m.bad
    PROVE  /\ Asked(m)
           /\ m.left # {} /\ (m.err = "gone" => m.ask \notin there)
              /\ (m.calm /\ m.kind = "discover" /\ m.why = "prefer" => Reached(m.ask, m.left))
                => Follows(j, m)
PROOF
<1>1. Carried(m) /\ Carried(j)
  BY CarriedOn DEF Asked
<1>2. \A p : Proposal(j, p) => Proposal(m, p)
  BY ProposalOf
<1>3. GotInv(m)
  BY <1>1 DEF GotInv, Asked, Prefers, End
<1>4. ConcludeInv(m)
  BY DEF ConcludeInv, Asked, No
<1>5. TodoInv(m)
  BY <1>2 DEF TodoInv, Named, Asked
<1>6. Asked(m)
  BY <1>1, <1>2, <1>3, <1>4, <1>5 DEF Asked, StoredId
<1>7. ASSUME m.left # {}, m.err = "gone" => m.ask \notin there,
             m.calm /\ m.kind = "discover" /\ m.why = "prefer" => Reached(m.ask, m.left)
      PROVE  Follows(j, m)
  <2>1. AskInv(m)
    BY <1>1, <1>6, <1>7 DEF AskInv, Asked, Carried
  <2>2. ProposeInv(m)
    BY <1>1, <1>6, <1>7 DEF ProposeInv, Asked, Carried, Resolves, Prefers, Ending, Asking
  <2> QED
    BY <1>3, <1>4, <1>5, <2>1, <2>2 DEF Follows, Good, JobInv
<1> QED
  BY <1>6, <1>7

\* A structure is fetched.
LEMMA FetchStep ==
    SearchInv /\ Fetch => SearchInv'
PROOF
<1> SUFFICES ASSUME SearchInv, Fetch PROVE SearchInv'
  OBVIOUS
<1> DEFINE c == Min(job.left)
           fact == Fact(c, job.ask)
<1>1. /\ Good(job) /\ count \in Counting /\ job \in Jobs(job) /\ Carried(job)
      /\ job.at = "fetch" /\ UNCHANGED <<links, known, world, been>>
  BY Running DEF Fetch, Good
<1>2. Asked(job)
  BY <1>1 DEF Asked, Good, JobInv, AskInv, ProposeInv, Resolves, Prefers
<1>3. /\ job.err = "gone" => job.ask \notin there
      /\ job.calm /\ job.kind = "discover" /\ job.why = "prefer" => Reached(job.ask, job.left)
  BY <1>1 DEF Good, JobInv, AskInv, ProposeInv, Resolves, Prefers
<1>4. c \in job.left /\ c \in job.picked
  <2>1. job.left # {} /\ job.left \subseteq job.picked /\ job.picked \subseteq Characters
    BY <1>1 DEF Good, JobInv, AskInv, Jobs
  <2>2. job.left \in SUBSET Nat
    BY <2>1, StructureSearchAssumption DEF StructureSearchAssumption
  <2> QED
    BY <2>1, <2>2, MinOf
<1>5. /\ fact \in {"ok", "unsure", "gone"} /\ (fact = "gone" => job.ask \notin there)
      /\ fact = "ok" => Reached(job.ask, job.picked)
  BY <1>4 DEF Fact, Reached
<1>6. PICK a \in {fact, "unsure", "broken"} :
        /\ Counts(a, fact)
        /\ job' = LET e == IF job.err = "none" THEN a ELSE job.err
                      j == [Told(job, a, fact) EXCEPT !.left = @ \ {c}, !.err = e] IN
                  CASE a = "ok" -> AfterFetch(job, "ok")
                    [] a # "ok" /\ j.left = {} -> AfterFetch(j, e)
                    [] a # "ok" /\ j.left # {} -> j
  BY DEF Fetch
<1>7. CASE a = "ok"
  <2>1. fact = "ok"
    BY <1>7
  <2>2. Follows(job, AfterFetch(job, "ok"))
    BY <1>2, <1>5, <2>1, AfterFetchGood
  <2> QED
    BY <1>1, <1>6, <1>7, <2>2, FollowStep, CountsTyped
<1>8. CASE a # "ok"
  <2> DEFINE m == AfterError(job, a, fact, c)
  <2>a. m = AfterError(job, a, fact, c)
    OBVIOUS
  <2>1. a \in {"unsure", "gone", "broken"} /\ (a = "gone" => fact = "gone")
    BY <1>5, <1>8
  <2>b. job' = IF m.left = {} THEN AfterFetch(m, m.err) ELSE m
    <3> DEFINE e == IF job.err = "none" THEN a ELSE job.err
               t == Told(job, a, fact)
    <3>1. m = [t EXCEPT !.left = @ \ {c}, !.err = e] /\ m.err = e
      <4>1. t \in Jobs(t) /\ t.err = job.err
        BY <1>1, ToldFields
      <4> QED
        BY <4>1 DEF AfterError, Jobs
    <3> QED
      BY <1>6, <1>8, <3>1
  <2> HIDE DEF m, fact, c
  <2>2. /\ m \in Jobs(m)
        /\ m.calm = (job.calm /\ a = fact) /\ m.bad = (job.bad \/ a = "broken")
        /\ m.left = job.left \ {c} /\ m.err = (IF job.err = "none" THEN a ELSE job.err)
        /\ m.kind = job.kind /\ m.firm = job.firm /\ m.picked = job.picked /\ m.found = job.found
        /\ m.cache = job.cache /\ m.todo = job.todo /\ m.pair = job.pair
        /\ m.side = job.side /\ m.why = job.why /\ m.got = job.got /\ m.at = job.at
        /\ m.ask = job.ask /\ m.rest = job.rest /\ m.finders = job.finders /\ m.said = job.said
    BY <1>1, <2>1, <2>a, AfterErrorFields
  <2>3. /\ m.err \in {"unsure", "gone", "broken"}
        /\ m.err = "broken" => m.bad
        /\ m.err = "gone" => m.ask \notin there
    BY <1>1, <1>3, <1>5, <2>1, <2>2 DEF Jobs, Carried
  <2>4. m.calm /\ m.kind = "discover" /\ m.why = "prefer" => Reached(m.ask, m.left)
    <3> SUFFICES ASSUME m.calm, m.kind = "discover", m.why = "prefer"
                 PROVE  Reached(m.ask, m.left)
      OBVIOUS
    <3>1. a = fact /\ Reached(job.ask, job.left)
      BY <1>3, <2>2
    <3>2. Fact(c, job.ask) # "ok"
      BY <1>8, <3>1 DEF fact
    <3> QED
      BY <2>2, <3>1, <3>2 DEF Reached
  <2>5. Asked(m)
    BY <1>2, <2>2, <2>3, WaitGood
  <2>6. CASE m.left = {}
    <3>1. ~(m.calm /\ m.kind = "discover" /\ m.why = "prefer")
      BY <2>4, <2>6 DEF Reached
    <3>2. Follows(m, AfterFetch(m, m.err))
      BY <2>3, <2>5, <3>1, AfterFetchGood
    <3>3. Follows(job, AfterFetch(m, m.err))
      BY <2>2, <3>2 DEF Follows
    <3> QED
      BY <1>1, <1>6, <2>b, <2>6, <3>3, FollowStep, CountsTyped
  <2>7. CASE m.left # {}
    <3>1. Follows(job, m)
      BY <1>2, <2>2, <2>3, <2>4, <2>7, WaitGood
    <3> QED
      BY <1>1, <1>6, <2>b, <2>7, <3>1, FollowStep, CountsTyped
  <2> QED
    BY <2>6, <2>7
<1> QED
  BY <1>7, <1>8

\* The judge's job: a copy of the job that knows more of one corporation.
Informed(m) ==
    /\ m \in Jobs(m) /\ m.kind = job.kind /\ m.picked = job.picked /\ m.found = job.found
    /\ m.cache = job.cache /\ m.todo = job.todo /\ m.pair = job.pair /\ m.why = job.why
    /\ m.got = job.got /\ m.side = job.side /\ m.said = job.said /\ m.finders = job.finders
    /\ m.err = job.err /\ m.ask = job.ask /\ m.rest = job.rest
    /\ (m.calm => job.calm) /\ (job.bad => m.bad)

\* The judge leaves a job in order if it likes only those who were liked, and
\* rejects those who were not or after a failure.
LEMMA JudgeReady ==
    ASSUME SearchInv, job.at = "judge", NEW m, Informed(m), NEW yes \in BOOLEAN,
           yes => Liked(Owner[job.ask]), yes \/ Disliked(Owner[job.ask]) \/ m.bad
    PROVE  Follows(m, Judged(m, yes))
PROOF
<1>1. Good(job) /\ Carried(job) /\ job \in Jobs(job)
  BY Running DEF Good
<1>2. Carried(m)
  BY <1>1, CarriedOn DEF Informed, Carried
<1>3. \A p : Proposal(job, p) => Proposal(m, p)
  BY ProposalOf DEF Informed
<1>4. m.ask \in Structures
  BY <1>1 DEF Good, JobInv, AskInv, Jobs, StructureIds, Informed
<1>5. m.why \in {"owner", "look", "name"}
  BY <1>1 DEF Good, JobInv, AskInv, Informed
<1>6. CASE m.why = "owner"
  <2>1. /\ m.kind = "validate" /\ NoId \notin {m.got[1], m.got[2]} /\ m.ask = m.got[m.side]
        /\ m.side = 2 => m.said[1] # "none" /\ (m.said[1] = "no" => No(m, 1))
    BY <1>1, <1>6 DEF Good, JobInv, ConcludeInv, Informed, No
  <2>2. PairTodo(m) /\ GotIds(m)
    BY <1>1, <2>1 DEF Good, JobInv, TodoInv, GotInv, PairTodo, GotIds, End, Informed
  <2>3. yes \/ No(m, m.side)
    BY <2>1 DEF No, Informed
  <2> QED
    BY <1>2, <1>4, <1>6, <2>1, <2>2, <2>3, JudgedGood
<1>7. CASE m.why # "owner"
  <2>1. Leading(m) /\ (m.calm => Reached(m.ask, m.picked))
    BY <1>1, <1>7 DEF Good, JobInv, ProposeInv, Leading, Informed
  <2>2. Looking(m)
    BY <1>1, <1>2, <1>5, <1>7
       DEF Looking, Good, JobInv, ProposeInv, GotInv, AskInv, TodoInv, Named, Informed
  <2>3. yes => Liked(Owner[m.ask])
    BY DEF Informed
  <2> QED
    BY <1>2, <1>4, <1>7, <2>1, <2>2, <2>3, JudgedGood
<1> QED
  BY <1>6, <1>7

\* What is learnt of corporations is among what was said of them in the run.
Learnt(o, v) ==
    (v = "friend" => "friend" \in been[o]) /\ (v = "foe" => \E a \in been[o] : a # "friend")

\* A step that notes what was learnt, in the run or in the row.
LEMMA LearnStep ==
    ASSUME SearchInv, NEW k, job' = k, Good(k), k.kind = job.kind,
           \A q \in Corps : k.firm[q] = job.firm[q] \/ Learnt(q, k.firm[q]),
           \A q \in Corps : known'[q] \in {known[q], alliance[q]},
           known' \in [Corps -> Alliances \cup {"unknown"}],
           UNCHANGED <<links, world, been>>, count' \in Counting
    PROVE  SearchInv'
PROOF
<1>1. Good(job)'
  BY SameWorld DEF world
<1>2. SearchTypes'
  BY <1>1 DEF SearchInv, SearchTypes, Good, world, Counting
<1>3. BeenInv'
  <2>1. SUFFICES ASSUME k.kind # "none", NEW q \in Corps
                 PROVE  /\ alliance[q] \in been[q]
                        /\ "friend" \in {known'[q], k.firm[q]} => "friend" \in been[q]
                        /\ "foe" \in {known'[q], k.firm[q]} => \E a \in been[q] : a # "friend"
    BY DEF BeenInv, world
  <2>2. /\ alliance[q] \in been[q]
        /\ "friend" \in {known[q], job.firm[q]} => "friend" \in been[q]
        /\ "foe" \in {known[q], job.firm[q]} => \E a \in been[q] : a # "friend"
    BY <2>1 DEF SearchInv, BeenInv
  <2> QED
    BY <2>2 DEF Learnt
<1>4. IdsAreOfTheirSystems'
  BY DEF SearchInv, IdsAreOfTheirSystems
<1> QED
  BY <1>1, <1>2, <1>3, <1>4 DEF SearchInv, Good

\* A corporation's alliance is noted in the run.
WithFirm(j, o, v) == [j EXCEPT !.firm[o] = v]

\* What noting an alliance changes.
LEMMA InformedFields ==
    ASSUME NEW j, NEW o, NEW v, NEW k, k = WithFirm(j, o, v), j \in Jobs(j),
           o \in Corps, v \in Alliances \cup {"unset"}
    PROVE  /\ k \in Jobs(k) /\ k.firm = [j.firm EXCEPT ![o] = v]
           /\ k.kind = j.kind /\ k.picked = j.picked /\ k.found = j.found
           /\ k.cache = j.cache /\ k.todo = j.todo /\ k.pair = j.pair /\ k.why = j.why
           /\ k.got = j.got /\ k.side = j.side /\ k.said = j.said /\ k.finders = j.finders
           /\ k.err = j.err /\ k.ask = j.ask /\ k.rest = j.rest
           /\ k.calm = j.calm /\ k.bad = j.bad
PROOF
<1> DEFINE m == WithFirm(j, o, v)
<1>1. m \in Jobs(m)
  BY DEF Jobs, WithFirm
<1>2. m.firm = [j.firm EXCEPT ![o] = v]
  BY DEF Jobs, WithFirm
<1>3. /\ m.kind = j.kind /\ m.picked = j.picked /\ m.found = j.found
      /\ m.cache = j.cache /\ m.todo = j.todo /\ m.pair = j.pair /\ m.why = j.why
      /\ m.got = j.got /\ m.side = j.side /\ m.said = j.said /\ m.finders = j.finders
      /\ m.err = j.err /\ m.ask = j.ask /\ m.rest = j.rest
      /\ m.calm = j.calm /\ m.bad = j.bad
  BY DEF Jobs, WithFirm
<1> HIDE DEF m
<1>4. k = m
  BY DEF m
<1> QED
  BY <1>1, <1>2, <1>3, <1>4

\* A run that has noted an alliance is a copy of the run that knows more.
LEMMA InformedOf ==
    ASSUME NEW t, NEW o, NEW v, NEW m, Informed(t), m = WithFirm(t, o, v), job \in Jobs(job),
           t.firm = job.firm, o \in Corps, v \in Alliances \cup {"unset"},
           v = job.firm[o] \/ Learnt(o, v)
    PROVE  /\ Informed(m) /\ m.kind = job.kind /\ m.bad = t.bad
           /\ \A q \in Corps : m.firm[q] = job.firm[q] \/ Learnt(q, m.firm[q])
PROOF
<1>1. t \in Jobs(t)
  BY DEF Informed
<1>2. /\ m \in Jobs(m) /\ m.firm = [t.firm EXCEPT ![o] = v]
      /\ m.kind = t.kind /\ m.picked = t.picked /\ m.found = t.found
      /\ m.cache = t.cache /\ m.todo = t.todo /\ m.pair = t.pair /\ m.why = t.why
      /\ m.got = t.got /\ m.side = t.side /\ m.said = t.said /\ m.finders = t.finders
      /\ m.err = t.err /\ m.ask = t.ask /\ m.rest = t.rest
      /\ m.calm = t.calm /\ m.bad = t.bad
  BY <1>1, InformedFields
<1>3. Informed(m)
  BY <1>2 DEF Informed
<1>4. job.firm \in [Corps -> Alliances \cup {"unset"}]
  BY DEF Jobs
<1> QED
  BY <1>2, <1>3, <1>4 DEF Informed

\* What the run or the row says of a corporation, and what was said of it.
LEMMA OwnerKnown ==
    ASSUME SearchInv, job.at = "judge"
    PROVE  LET o == Owner[job.ask] IN
           /\ job \in Jobs(job) /\ o \in Corps /\ count \in Counting /\ Informed(job)
           /\ alliance[o] \in been[o] /\ alliance[o] \in Alliances
           /\ known \in [Corps -> Alliances \cup {"unknown"}]
           /\ job.firm[o] \in Alliances \cup {"unset"}
           /\ Learnt(o, job.firm[o]) /\ Learnt(o, known[o])
PROOF
<1>1. Good(job) /\ job \in Jobs(job) /\ count \in Counting /\ job.kind # "none"
  BY Running DEF Good, Carried
<1>2. job.ask \in Structures
  BY <1>1 DEF Good, JobInv, AskInv, Jobs, StructureIds
<1>3. Owner[job.ask] \in Corps
  BY <1>2, StructureSearchAssumption DEF StructureSearchAssumption
<1> DEFINE o == Owner[job.ask]
<1> HIDE DEF o
<1>4. /\ o \in Corps /\ alliance[o] \in Alliances /\ known \in [Corps -> Alliances \cup {"unknown"}]
      /\ job.firm[o] \in Alliances \cup {"unset"}
  BY <1>1, <1>3 DEF o, SearchInv, SearchTypes, Jobs
<1>5. alliance[o] \in been[o] /\ Learnt(o, job.firm[o]) /\ Learnt(o, known[o])
  BY <1>1, <1>4 DEF SearchInv, BeenInv, Learnt
<1>6. Informed(job)
  BY <1>1 DEF Informed
<1> QED
  BY <1>1, <1>4, <1>5, <1>6 DEF o

\* A verdict on the owner, with what was learnt.
LEMMA VerdictStep ==
    ASSUME SearchInv, job.at = "judge", NEW t, NEW v, NEW yes \in BOOLEAN,
           Informed(t), t.firm = job.firm, v \in Alliances \cup {"unset"},
           v = job.firm[Owner[job.ask]] \/ Learnt(Owner[job.ask], v),
           yes => Liked(Owner[job.ask]), yes \/ Disliked(Owner[job.ask]) \/ t.bad,
           job' = Judged(WithFirm(t, Owner[job.ask], v), yes),
           \/ known' = known
           \/ known' = [known EXCEPT ![Owner[job.ask]] = alliance[Owner[job.ask]]],
           UNCHANGED <<links, world, been>>, count' \in Counting
    PROVE  SearchInv'
PROOF
<1> DEFINE o == Owner[job.ask]
           m == WithFirm(t, o, v)
<1>1. /\ job \in Jobs(job) /\ o \in Corps /\ alliance[o] \in Alliances
      /\ known \in [Corps -> Alliances \cup {"unknown"}]
  BY OwnerKnown
<1>2. m = WithFirm(t, o, v) /\ job' = Judged(m, yes)
  OBVIOUS
<1>3. v = job.firm[o] \/ Learnt(o, v)
  OBVIOUS
<1>4. known' = known \/ known' = [known EXCEPT ![o] = alliance[o]]
  OBVIOUS
<1> HIDE DEF o, m
<1>5. /\ Informed(m) /\ m.kind = job.kind /\ m.bad = t.bad
      /\ \A q \in Corps : m.firm[q] = job.firm[q] \/ Learnt(q, m.firm[q])
  BY <1>1, <1>2, <1>3, InformedOf
<1>6. Follows(m, Judged(m, yes))
  BY <1>5, JudgeReady
<1>7. /\ known' \in [Corps -> Alliances \cup {"unknown"}]
      /\ \A q \in Corps : known'[q] \in {known[q], alliance[q]}
  BY <1>1, <1>4
<1> QED
  BY <1>2, <1>5, <1>6, <1>7, LearnStep DEF Follows

\* The owner is judged by what is known.
LEMMA JudgeKnownStep ==
    SearchInv /\ JudgeKnown => SearchInv'
PROOF
<1> SUFFICES ASSUME SearchInv, JudgeKnown PROVE SearchInv'
  OBVIOUS
<1> DEFINE o == Owner[job.ask]
           v == IF job.firm[o] # "unset" THEN job.firm[o] ELSE known[o]
<1>1. /\ job.at = "judge" /\ UNCHANGED <<links, known, world, been, count>>
      /\ \/ o \in Trusted /\ job' = Judged(job, TRUE)
         \/ /\ o \notin Trusted /\ v \in {"friend", "foe"}
            /\ job' = Judged(WithFirm(job, o, v), v = "friend")
  BY DEF JudgeKnown, WithFirm
<1>2. /\ job \in Jobs(job) /\ count \in Counting /\ Informed(job) /\ Learnt(o, v)
  BY <1>1, OwnerKnown
<1> HIDE DEF v
<1>3. CASE o \in Trusted /\ job' = Judged(job, TRUE)
  <2>1. Follows(job, Judged(job, TRUE))
    BY <1>1, <1>2, <1>3, JudgeReady DEF Liked
  <2> QED
    BY <1>1, <1>2, <1>3, <2>1, FollowStep
<1>4. CASE /\ o \notin Trusted /\ v \in {"friend", "foe"}
           /\ job' = Judged(WithFirm(job, o, v), v = "friend")
  <2> DEFINE yes == v = "friend"
  <2>1. yes \in BOOLEAN /\ job' = Judged(WithFirm(job, o, v), yes)
    BY <1>4
  <2>2. (yes => Liked(o)) /\ (yes \/ Disliked(o)) /\ v \in Alliances \cup {"unset"}
    BY <1>2, <1>4 DEF Liked, Disliked, Learnt, Alliances
  <2> HIDE DEF yes
  <2> QED
    BY <1>1, <1>2, <2>1, <2>2, VerdictStep
<1> QED
  BY <1>1, <1>3, <1>4

\* The owner is judged by what EVE says.
LEMMA JudgeAskedStep ==
    SearchInv /\ JudgeAsked => SearchInv'
PROOF
<1> SUFFICES ASSUME SearchInv, JudgeAsked PROVE SearchInv'
  OBVIOUS
<1> DEFINE o == Owner[job.ask]
           v == alliance[o]
           yes == v = "friend"
<1>1. /\ job.at = "judge" /\ o \notin Trusted /\ UNCHANGED <<links, world, been, count>>
      /\ job' = Judged(WithFirm(job, o, v), yes) /\ known' = [known EXCEPT ![o] = alliance[o]]
      /\ yes \in BOOLEAN
  BY DEF JudgeAsked, WithFirm
<1>2. /\ job \in Jobs(job) /\ count \in Counting /\ Informed(job)
      /\ v \in been[o] /\ v \in Alliances
  BY <1>1, OwnerKnown
<1>3. (yes => Liked(o)) /\ (yes \/ Disliked(o)) /\ Learnt(o, v)
  BY <1>1, <1>2 DEF Liked, Disliked, Learnt
<1>4. known' = [known EXCEPT ![o] = alliance[o]]
  BY <1>1
<1> HIDE DEF yes, v
<1> QED
  BY <1>1, <1>2, <1>3, <1>4, VerdictStep

\* The owner is judged by what is known after all, because EVE fails.
LEMMA JudgeFailsStep ==
    SearchInv /\ JudgeFails => SearchInv'
PROOF
<1> SUFFICES ASSUME SearchInv, JudgeFails PROVE SearchInv'
  OBVIOUS
<1> DEFINE o == Owner[job.ask]
           u == IF job.firm[o] # "unset" THEN job.firm[o] ELSE known[o]
           t == Told(job, "broken", "ok")
           v == IF u = "none" THEN u ELSE t.firm[o]
<1>1. /\ job.at = "judge" /\ Counts("broken", "ok") /\ UNCHANGED <<links, known, world, been>>
  BY DEF JudgeFails
<1>2. job' = Judged(WithFirm(t, o, v), FALSE)
  BY DEF JudgeFails, WithFirm
<1>3. /\ job \in Jobs(job) /\ count' \in Counting /\ Informed(job)
      /\ job.firm[o] \in Alliances \cup {"unset"} /\ Learnt(o, job.firm[o])
  BY <1>1, OwnerKnown, CountsTyped
<1>4. t = Told(job, "broken", "ok")
  OBVIOUS
<1>5. Informed(t) /\ t.firm = job.firm /\ t.bad
  <2> HIDE DEF t
  <2> DEFINE a == "broken"
             fact == "ok"
  <2>1. t = Told(job, a, fact)
    BY <1>4
  <2> HIDE DEF a, fact
  <2>2. /\ t \in Jobs(t)
        /\ t.calm = (job.calm /\ a = fact) /\ t.bad = (job.bad \/ a = "broken")
        /\ t.kind = job.kind /\ t.firm = job.firm /\ t.picked = job.picked /\ t.found = job.found
        /\ t.cache = job.cache /\ t.err = job.err /\ t.todo = job.todo /\ t.pair = job.pair
        /\ t.side = job.side /\ t.why = job.why /\ t.got = job.got
        /\ t.ask = job.ask /\ t.rest = job.rest /\ t.finders = job.finders /\ t.said = job.said
    BY <1>3, <2>1, ToldFields
  <2> QED
    BY <2>2 DEF a, Informed
<1> HIDE DEF t
<1>6. v \in Alliances \cup {"unset"} /\ Learnt(o, v)
  BY <1>3, <1>5 DEF Alliances, Learnt
<1> HIDE DEF v
<1> QED
  BY <1>1, <1>2, <1>3, <1>5, <1>6, VerdictStep

\* The characters picked are characters.
LEMMA PickedTyped ==
    SearchTypes => Picked \subseteq Characters
PROOF
<1> SUFFICES ASSUME SearchTypes, NEW o \in Orgs, \E c \in usable : o \in Serves[c]
             PROVE  Min({c \in usable : o \in Serves[c]}) \in Characters
  BY DEF Picked
<1> DEFINE T == {c \in usable : o \in Serves[c]}
<1>1. T \subseteq Characters /\ T # {}
  BY DEF SearchTypes
<1>2. T \in SUBSET Nat
  BY <1>1, StructureSearchAssumption DEF StructureSearchAssumption
<1> HIDE DEF T
<1>3. Min(T) \in T
  BY <1>1, <1>2, MinOf
<1> QED
  BY <1>1, <1>3 DEF T

\* A run begins with what rows and EVE say then.
LEMMA BeginStep ==
    ASSUME SearchInv, NEW k, BeginRun(k), k \in Jobs(k), k.kind \in {"validate", "discover"},
           k.at = IF k.kind = "validate" THEN "next" ELSE "ask",
           k.why = "none", k.side = 1, k.got = Nothing, k.cache = <<>>, k.err = "none",
           k.found = {}, k.firm = [o \in Corps |-> "unset"],
           k.kind = "validate" => \A q \in k.todo : \E a, b \in SolarSystems : q = {a, b}
    PROVE  SearchInv'
PROOF
<1>1. job' = k /\ k.picked # {} /\ UNCHANGED <<links, known, there, sees, usable, alliance>>
  BY DEF BeginRun, world
<1>2. /\ been' \in [Corps -> SUBSET Alliances] /\ count' \in Counting
      /\ \A o \in Corps : been'[o] = {alliance[o]} \cup ({known[o]} \cap {"friend", "foe"})
  BY DEF BeginRun, SearchInv, SearchTypes, Alliances, Counting
<1>3. (job \in Jobs(job))'
  BY <1>1 DEF Jobs
<1>4. SearchTypes'
  BY <1>1, <1>2, <1>3 DEF SearchInv, SearchTypes, Counting
<1>5. BeenInv'
  <2>1. \A o \in Corps : k.firm[o] = "unset"
    OBVIOUS
  <2>2. SUFFICES ASSUME NEW o \in Corps
                 PROVE  /\ alliance[o] \in been'[o]
                        /\ known[o] = "friend" => "friend" \in been'[o]
                        /\ known[o] = "foe" => \E a \in been'[o] : a # "friend"
    BY <1>1, <2>1 DEF BeenInv
  <2>3. been'[o] = {alliance[o]} \cup ({known[o]} \cap {"friend", "foe"})
    BY <1>2
  <2>4. known[o] = "foe" => "foe" \in been'[o]
    BY <2>3
  <2> QED
    BY <2>3, <2>4
<1>6. IdsAreOfTheirSystems'
  BY <1>1 DEF SearchInv, IdsAreOfTheirSystems
<1>7. JobInv(job)'
  <2>1. GotInv(job)'
    BY <1>1, NothingFound DEF GotInv, Asking, Ending, Prefers
  <2>2. AskInv(job)'
    BY <1>1 DEF AskInv
  <2>3. ConcludeInv(job)'
    BY <1>1 DEF ConcludeInv
  <2>4. ProposeInv(job)'
    BY <1>1 DEF ProposeInv, Resolves, Prefers, Ending, Asking
  <2>5. TodoInv(job)'
    BY <1>1 DEF TodoInv, Named
  <2> QED
    BY <2>1, <2>2, <2>3, <2>4, <2>5 DEF JobInv
<1> QED
  BY <1>4, <1>5, <1>6, <1>7 DEF SearchInv

\* A job that has not done anything.
LEMMA FreshTyped ==
    ASSUME NEW kind \in {"none", "validate", "discover"}, NEW at \in Asking \cup {"idle"},
           NEW P \in SUBSET Characters, NEW k, k = Fresh(kind, at, P)
    PROVE  /\ k \in Jobs(k) /\ k.kind = kind /\ k.at = at /\ k.picked = P /\ k.todo = {}
           /\ k.why = "none" /\ k.side = 1 /\ k.got = Nothing /\ k.cache = <<>> /\ k.err = "none"
           /\ k.found = {} /\ k.firm = [o \in Corps |-> "unset"]
PROOF
  BY NothingFound DEF Fresh, Jobs

\* A validation begins.
LEMMA BeginValidationStep ==
    SearchInv /\ BeginValidation => SearchInv'
PROOF
<1> SUFFICES ASSUME SearchInv, BeginValidation PROVE SearchInv'
  OBVIOUS
<1> DEFINE f == Fresh("validate", "next", Picked)
           E == {EndsOf(l) : l \in links}
           k == [f EXCEPT !.todo = E]
<1>1. /\ f \in Jobs(f) /\ f.kind = "validate" /\ f.at = "next"
      /\ f.why = "none" /\ f.side = 1 /\ f.got = Nothing /\ f.cache = <<>> /\ f.err = "none"
      /\ f.found = {} /\ f.firm = [o \in Corps |-> "unset"]
  <2>1. Picked \in SUBSET Characters
    BY PickedTyped DEF SearchInv
  <2> QED
    BY <2>1, FreshTyped DEF Asking
<1>2. BeginRun(k)
  BY DEF BeginValidation
<1>3. \A q \in E : \E a, b \in SolarSystems : q = {a, b}
  BY DEF SearchInv, SearchTypes, Between, EndsOf
<1> HIDE DEF f, E
<1>4. k \in Jobs(k)
  BY <1>1 DEF Jobs
<1>5. /\ k.kind = "validate" /\ k.at = "next" /\ k.todo = E
      /\ k.why = "none" /\ k.side = 1 /\ k.got = Nothing /\ k.cache = <<>> /\ k.err = "none"
      /\ k.found = {} /\ k.firm = [o \in Corps |-> "unset"]
  BY <1>1 DEF Jobs
<1> HIDE DEF k
<1> QED
  BY <1>2, <1>3, <1>4, <1>5, BeginStep

\* A discovery begins.
LEMMA BeginDiscoveryStep ==
    SearchInv /\ BeginDiscovery => SearchInv'
PROOF
<1> SUFFICES ASSUME SearchInv, BeginDiscovery PROVE SearchInv'
  OBVIOUS
<1> DEFINE f == Fresh("discover", "ask", Picked)
           k == [f EXCEPT !.left = Picked]
<1>1. /\ f \in Jobs(f) /\ f.kind = "discover" /\ f.at = "ask" /\ f.picked = Picked
      /\ f.why = "none" /\ f.side = 1 /\ f.got = Nothing /\ f.cache = <<>> /\ f.err = "none"
      /\ f.found = {} /\ f.firm = [o \in Corps |-> "unset"]
  <2>1. Picked \in SUBSET Characters
    BY PickedTyped DEF SearchInv
  <2> QED
    BY <2>1, FreshTyped DEF Asking
<1>2. BeginRun(k)
  BY DEF BeginDiscovery
<1> HIDE DEF f
<1>3. k \in Jobs(k)
  BY <1>1 DEF Jobs
<1>4. /\ k.kind = "discover" /\ k.at = "ask"
      /\ k.why = "none" /\ k.side = 1 /\ k.got = Nothing /\ k.cache = <<>> /\ k.err = "none"
      /\ k.found = {} /\ k.firm = [o \in Corps |-> "unset"]
  BY <1>1 DEF Jobs
<1> HIDE DEF k
<1> QED
  BY <1>2, <1>3, <1>4, BeginStep

-----------------------------------------------------------------------------
(* Pairs: the next one, and its end.                                         *)

\* The next pair's ends are to be resolved.
LEMMA PairBegins ==
    ASSUME SearchInv, job.kind # "none", job.at = "next", job.why \notin {"look", "name"},
           NEW p \in Between(SolarSystems), NEW T, T \subseteq job.todo,
           job.kind = "discover" => Proposal(job, p),
           NEW k, k = [job EXCEPT !.at = "end", !.todo = T, !.pair = p]
    PROVE  Follows(job, k)
PROOF
<1>1. Carried(job) /\ Good(job) /\ job \in Jobs(job)
  BY Running DEF Good
<1>2. k \in Jobs(k)
  <2>1. p \in Between(SolarSystems \cup {Nowhere}) /\ "end" \in Ending
    BY DEF Between, Ending
  <2> QED
    BY <1>1, <2>1, ZenonT(60) DEF Jobs
<1>3. /\ k.at = "end" /\ k.todo = T /\ k.pair = p
      /\ k.kind = job.kind /\ k.firm = job.firm /\ k.picked = job.picked /\ k.found = job.found
      /\ k.cache = job.cache /\ k.calm = job.calm /\ k.err = job.err /\ k.bad = job.bad
      /\ k.why = job.why /\ k.got = job.got /\ k.side = job.side
  BY <1>1 DEF Jobs
<1>4. job.got = Nothing /\ job.side = 1
  BY <1>1 DEF Good, JobInv, GotInv, Asking
<1>5. PairTodo(job)
  BY <1>1 DEF Good, JobInv, TodoInv, Named, PairTodo
<1>6. \A q : Proposal(job, q) => Proposal(k, q)
  <2>1. k.picked = job.picked /\ (k.calm => job.calm)
    BY <1>3
  <2> QED
    BY <2>1 DEF Proposal, OfOurs
<1>7. Carried(k)
  <2>1. /\ k.err = "broken" => k.bad
        /\ k.kind = job.kind /\ k.picked = job.picked /\ k.found = job.found
        /\ k.cache = job.cache /\ (k.calm => job.calm)
    BY <1>1, <1>3 DEF Carried
  <2> QED
    BY <1>1, <1>2, <1>6, <2>1 DEF Carried, Cached
<1>8. PairTodo(k)
  BY <1>3, <1>5, <1>6 DEF PairTodo
<1>9. GotIds(k) /\ k.side = 1
  BY <1>3, <1>4, NothingFound DEF GotIds
<1>10. Pairing(k)
  BY <1>3, <1>6, <1>7, <1>8, <1>9 DEF Pairing
<1>11. Follows(k, k)
  BY <1>2, <1>3, <1>10, EndingGood DEF Ending, Carried, Pairing
<1> QED
  BY <1>3, <1>11 DEF Follows

\* The next pair of the table has its turn.
LEMMA NextPairStep ==
    ASSUME SearchInv, NEW k, NextPair(k)
    PROVE  SearchInv'
PROOF
<1>1. /\ job.kind = "validate" /\ job.at = "next" /\ k \in job.todo
      /\ UNCHANGED <<links, known, world, been, count>>
  BY DEF NextPair
<1>2. Good(job) /\ count \in Counting
  BY <1>1, Running
<1>3. PICK f \in IdsFor(k, Min(k)), t \in IdsFor(k, Max(k)) :
         job' = [job EXCEPT !.at = "end", !.todo = @ \ {k},
                            !.pair = [from |-> Min(k), to |-> Max(k), fromId |-> f, toId |-> t]]
  BY DEF NextPair
<1>4. Min(k) \in SolarSystems /\ Max(k) \in SolarSystems
  <2>1. PICK a, b \in SolarSystems : k = {a, b}
    BY <1>1, <1>2 DEF Good, JobInv, TodoInv
  <2>2. a \in Nat /\ b \in Nat
    BY StructureSearchAssumption DEF StructureSearchAssumption
  <2> QED
    BY <2>1, <2>2, MinMaxOfTwo
<1>5. \A s : IdsFor(k, s) \subseteq StructureIds
  BY DEF IdsFor, Mentioned, LinksOf, SearchInv, SearchTypes, Between, StructureIds
<1> DEFINE p == [from |-> Min(k), to |-> Max(k), fromId |-> f, toId |-> t]
           T == job.todo \ {k}
           m == [job EXCEPT !.at = "end", !.todo = T, !.pair = p]
<1>6. p \in Between(SolarSystems)
  BY <1>4, <1>5 DEF Between
<1>7. job' = m
  BY <1>3
<1> HIDE DEF p
<1>8. job.why \notin {"look", "name"}
  BY <1>1, <1>2 DEF Good, JobInv, ProposeInv
<1>9. T \subseteq job.todo
  OBVIOUS
<1> HIDE DEF T
<1>10. Follows(job, m)
  BY <1>1, <1>6, <1>8, <1>9, PairBegins
<1> HIDE DEF m
<1> QED
  BY <1>1, <1>2, <1>7, <1>10, FollowStep

\* The next proposal is passed over or has its turn.
LEMMA NextProposalStep ==
    ASSUME SearchInv, NEW p, NextProposal(p)
    PROVE  SearchInv'
PROOF
<1>1. /\ job.kind = "discover" /\ job.at = "next" /\ job.why = "none" /\ p \in job.todo
      /\ UNCHANGED <<links, known, world, been, count>>
  BY DEF NextProposal
<1>2. Good(job) /\ Carried(job) /\ job \in Jobs(job) /\ count \in Counting
  BY <1>1, Running DEF Good
<1>3. \A q \in job.todo : Proposal(job, q)
  BY <1>1, <1>2 DEF Good, JobInv, TodoInv, Named
<1> DEFINE T == job.todo \ {p}
<1>4. T \subseteq job.todo
  OBVIOUS
<1>5. CASE Complete(EndsOf(p)) \/ PairedElsewhere(p)
  <2> DEFINE m == [job EXCEPT !.todo = T]
  <2>1. job' = m
    BY <1>5 DEF NextProposal
  <2> HIDE DEF T
  <2>2. m \in Jobs(m)
    BY <1>2 DEF Jobs
  <2>3. /\ m.todo = T /\ m.kind = job.kind /\ m.firm = job.firm /\ m.picked = job.picked
        /\ m.found = job.found /\ m.cache = job.cache /\ m.calm = job.calm /\ m.err = job.err
        /\ m.bad = job.bad /\ m.why = "none" /\ m.got = job.got /\ m.side = job.side
        /\ m.at = "next"
    BY <1>1, <1>2 DEF Jobs
  <2> HIDE DEF m
  <2>4. \A q : Proposal(job, q) => Proposal(m, q)
    BY <2>3, ProposalOf
  <2>5. Carried(m)
    BY <1>2, <2>2, <2>3, CarriedOn DEF Carried
  <2>6. GotInv(m)
    <3>1. m.got = Nothing /\ m.side = 1
      BY <1>1, <1>2, <2>3 DEF GotInv, Good, JobInv, Asking
    <3> QED
      BY <2>3, <2>5, <3>1, NothingFound DEF GotInv, Carried, Cached, Asking, Ending, Prefers
  <2>7. AskInv(m)
    BY <2>3, <2>5 DEF AskInv, Carried
  <2>8. ConcludeInv(m)
    BY <2>3 DEF ConcludeInv
  <2>9. ProposeInv(m)
    BY <2>3, <2>5 DEF ProposeInv, Carried, Resolves, Prefers, Ending, Asking
  <2>10. TodoInv(m)
    <3>1. \A q \in m.todo : Proposal(m, q)
      BY <1>3, <1>4, <2>3, <2>4
    <3> QED
      BY <1>1, <2>3, <3>1 DEF TodoInv, Named
  <2>11. Follows(job, m)
    BY <2>2, <2>3, <2>6, <2>7, <2>8, <2>9, <2>10 DEF Follows, Good, JobInv
  <2> QED
    BY <1>1, <1>2, <2>1, <2>11, FollowStep
<1>6. CASE ~(Complete(EndsOf(p)) \/ PairedElsewhere(p))
  <2> DEFINE m == [job EXCEPT !.at = "end", !.todo = T, !.pair = p]
  <2>1. job' = m
    BY <1>6 DEF NextProposal
  <2>2. p \in Between(SolarSystems) /\ Proposal(job, p)
    BY <1>1, <1>3 DEF Proposal
  <2> HIDE DEF T
  <2>3. Follows(job, m)
    BY <1>1, <1>4, <2>2, PairBegins
  <2> HIDE DEF m
  <2> QED
    BY <1>1, <1>2, <2>1, <2>3, FollowStep
<1> QED
  BY <1>5, <1>6

\* A pair's end has been reached.
LEMMA Concluding ==
    ASSUME SearchInv, job.at \in {"remove", "fill", "save"}
    PROVE  /\ Carried(job) /\ PairTodo(job) /\ GotIds(job) /\ job.why \notin {"look", "name"}
           /\ job \in Jobs(job) /\ count \in Counting /\ Good(job)
PROOF
<1>1. Carried(job) /\ Good(job) /\ job \in Jobs(job) /\ count \in Counting
  BY Running DEF Good
<1>2. job.why \notin {"look", "name"}
  BY <1>1 DEF Good, JobInv, ProposeInv
<1>3. PairTodo(job)
  BY <1>1, <1>2 DEF Good, JobInv, TodoInv, Named, PairTodo
<1>4. GotIds(job)
  BY <1>1 DEF Good, JobInv, GotInv, GotIds
<1> QED
  BY <1>1, <1>2, <1>3, <1>4

\* After a failure nothing may be left to do.
LEMMA GivenUp ==
    ASSUME NEW j, NEW a, NEW fact, Carried(j), PairTodo(j), NEW T, T \in {{}, j.todo},
           NEW k, k = [Told(j, a, fact) EXCEPT !.todo = T]
    PROVE  Follows(j, PairDone(k))
PROOF
<1> DEFINE t == Told(j, a, fact)
<1>a. t = Told(j, a, fact) /\ k = [t EXCEPT !.todo = T]
  OBVIOUS
<1> HIDE DEF t
<1>0. j \in Jobs(j)
  BY DEF Carried
<1>1. /\ t \in Jobs(t)
      /\ t.calm = (j.calm /\ a = fact) /\ t.bad = (j.bad \/ a = "broken")
      /\ t.kind = j.kind /\ t.firm = j.firm /\ t.picked = j.picked /\ t.found = j.found
      /\ t.cache = j.cache /\ t.err = j.err /\ t.todo = j.todo
  BY <1>0, <1>a, ToldFields
<1>2. k \in Jobs(k)
  BY <1>a, <1>1 DEF Jobs
<1>3. /\ k.calm = t.calm /\ k.bad = t.bad /\ k.kind = t.kind /\ k.firm = t.firm
      /\ k.picked = t.picked /\ k.found = t.found /\ k.cache = t.cache /\ k.err = t.err
      /\ k.todo = T
  BY <1>a, <1>1 DEF Jobs
<1>4. Carried(k)
  <2>1. /\ k.err = "broken" => k.bad
        /\ k.kind = j.kind /\ k.picked = j.picked /\ k.found = j.found
        /\ k.cache = j.cache /\ (k.calm => j.calm)
    BY <1>1, <1>3 DEF Carried
  <2> QED
    BY <1>2, <2>1, CarriedOn
<1>5. \A p : Proposal(j, p) => Proposal(k, p)
  <2>1. k.picked = j.picked /\ (k.calm => j.calm)
    BY <1>1, <1>3
  <2> QED
    BY <2>1, ProposalOf
<1>6. PairTodo(k)
  BY <1>1, <1>3, <1>5 DEF PairTodo
<1>7. Follows(k, PairDone(k))
  BY <1>4, <1>6, PairDoneGood
<1> QED
  BY <1>1, <1>3, <1>7 DEF Follows

\* A pair is removed, or the validation ends.
LEMMA RemoveStep ==
    SearchInv /\ Remove => SearchInv'
PROOF
<1> SUFFICES ASSUME SearchInv, Remove PROVE SearchInv'
  OBVIOUS
<1>1. /\ Carried(job) /\ PairTodo(job) /\ count \in Counting /\ UNCHANGED <<known, world, been>>
  BY Concluding DEF Remove
<1>2. CASE links' = links \ LinksOf(EndsOf(job.pair)) /\ job' = PairDone(job) /\ count' = count
  <2>1. Follows(job, PairDone(job))
    BY <1>1, PairDoneGood
  <2>2. links' \subseteq Between(SolarSystems)
    BY <1>2 DEF SearchInv, SearchTypes
  <2>3. IdsAreOfTheirSystems'
    BY <1>2 DEF SearchInv, IdsAreOfTheirSystems
  <2> QED
    BY <1>1, <1>2, <2>1, <2>2, <2>3, TableStep DEF Follows
<1>3. CASE /\ links' = links /\ Counts("broken", "ok")
           /\ job' = PairDone([Told(job, "broken", "ok") EXCEPT !.todo = {}])
  <2> DEFINE k == [Told(job, "broken", "ok") EXCEPT !.todo = {}]
  <2>1. Follows(job, PairDone(k))
    BY <1>1, GivenUp
  <2>2. job' = PairDone(k)
    BY <1>3
  <2> HIDE DEF k
  <2> QED
    BY <1>1, <1>3, <2>1, <2>2, FollowStep, CountsTyped
<1> QED
  BY <1>2, <1>3 DEF Remove

\* An id that is filled in is of a bridge in its system.
LEMMA FilledIn ==
    ASSUME job \in Jobs(job), GotIds(job), NEW l \in Between(SolarSystems),
           EndsOf(l) = EndsOf(job.pair),
           l.fromId # NoId => BridgeIn(l.fromId, l.from), l.toId # NoId => BridgeIn(l.toId, l.to)
    PROVE  /\ Filled(l) \in Between(SolarSystems) /\ EndsOf(Filled(l)) = EndsOf(l)
           /\ Filled(l).fromId # NoId => BridgeIn(Filled(l).fromId, Filled(l).from)
           /\ Filled(l).toId # NoId => BridgeIn(Filled(l).toId, Filled(l).to)
PROOF
<1> DEFINE Got(s) == IF s = job.pair.from THEN job.got[1] ELSE job.got[2]
           f == IF l.fromId = NoId THEN Got(l.from) ELSE l.fromId
           t == IF l.toId = NoId THEN Got(l.to) ELSE l.toId
<1>1. Filled(l) = [l EXCEPT !.fromId = f, !.toId = t]
  BY DEF Filled, Between
<1>2. \A s : Got(s) \in StructureIds
  BY DEF Jobs
<1>3. \A s \in EndsOf(l) : Got(s) # NoId => BridgeIn(Got(s), s)
  BY DEF EndsOf, GotIds, End
<1> HIDE DEF Got
<1>4. f \in StructureIds /\ t \in StructureIds
  BY <1>2 DEF Between
<1>5. (f # NoId => BridgeIn(f, l.from)) /\ (t # NoId => BridgeIn(t, l.to))
  BY <1>3 DEF EndsOf
<1> HIDE DEF f, t
<1>6. /\ Filled(l) \in Between(SolarSystems)
      /\ Filled(l).from = l.from /\ Filled(l).to = l.to
      /\ Filled(l).fromId = f /\ Filled(l).toId = t
  BY <1>1, <1>4 DEF Between
<1> QED
  BY <1>5, <1>6 DEF EndsOf

\* Missing ids are filled in, in some of the rows at least.
LEMMA FillStep ==
    SearchInv /\ Fill => SearchInv'
PROOF
<1> SUFFICES ASSUME SearchInv, Fill PROVE SearchInv'
  OBVIOUS
<1>1. /\ Carried(job) /\ PairTodo(job) /\ GotIds(job) /\ job \in Jobs(job)
      /\ UNCHANGED <<known, world, been>>
  BY Concluding DEF Fill
<1>2. PICK R \in SUBSET LinksOf(EndsOf(job.pair)) :
         LET said == IF R = LinksOf(EndsOf(job.pair)) THEN "ok" ELSE "broken"
             j == Told(job, said, "ok") IN
         /\ links' = (links \ R) \cup {Filled(l) : l \in R}
         /\ Counts(said, "ok")
         /\ job' = PairDone(IF said = "ok" \/ j.kind = "discover" THEN j ELSE [j EXCEPT !.todo = {}])
  BY DEF Fill
<1>3. \A l \in links : /\ l \in Between(SolarSystems)
                       /\ l.fromId # NoId => BridgeIn(l.fromId, l.from)
                       /\ l.toId # NoId => BridgeIn(l.toId, l.to)
  BY DEF SearchInv, SearchTypes, IdsAreOfTheirSystems
<1>4. \A l \in R : /\ Filled(l) \in Between(SolarSystems)
                   /\ Filled(l).fromId # NoId => BridgeIn(Filled(l).fromId, Filled(l).from)
                   /\ Filled(l).toId # NoId => BridgeIn(Filled(l).toId, Filled(l).to)
  BY <1>1, <1>3, FilledIn DEF LinksOf
<1>5. links' \subseteq Between(SolarSystems)
  BY <1>2, <1>3, <1>4
<1>6. IdsAreOfTheirSystems'
  BY <1>2, <1>3, <1>4 DEF IdsAreOfTheirSystems
<1> DEFINE said == IF R = LinksOf(EndsOf(job.pair)) THEN "ok" ELSE "broken"
           j == Told(job, said, "ok")
<1>7. /\ Counts(said, "ok")
      /\ job' = PairDone(IF said = "ok" \/ j.kind = "discover" THEN j ELSE [j EXCEPT !.todo = {}])
  BY <1>2
<1> HIDE DEF said
<1>8. j.todo = job.todo /\ j = [j EXCEPT !.todo = j.todo]
  <2>1. j \in Jobs(j) /\ j.todo = job.todo
    BY <1>1, ToldFields
  <2> HIDE DEF j
  <2> QED
    BY <2>1 DEF Jobs
<1>9. PICK T \in {{}, job.todo} : job' = PairDone([j EXCEPT !.todo = T])
  BY <1>7, <1>8
<1> DEFINE k == [j EXCEPT !.todo = T]
<1>10. Follows(job, PairDone(k))
  BY <1>1, GivenUp
<1>11. job' = PairDone(k)
  BY <1>9
<1> HIDE DEF k, j
<1> QED
  BY <1>1, <1>5, <1>6, <1>7, <1>10, <1>11, TableStep, CountsTyped DEF Follows

\* A bridge that discovery found is added, or filled in where the table has its pair.
LEMMA SaveStep ==
    SearchInv /\ Save => SearchInv'
PROOF
<1> SUFFICES ASSUME SearchInv, Save PROVE SearchInv'
  OBVIOUS
<1>1. /\ Carried(job) /\ PairTodo(job) /\ GotIds(job) /\ job \in Jobs(job) /\ Good(job)
      /\ job.why \notin {"look", "name"} /\ count \in Counting
      /\ job.at = "save" /\ UNCHANGED <<known, world, been, count>>
  BY Concluding DEF Save
<1>2. NoId \notin {job.got[1], job.got[2]} /\ job.pair \in Between(SolarSystems)
  BY <1>1 DEF Good, JobInv, GotInv, ProposeInv, Resolves, Proposal
<1>3. CASE LinksOf(EndsOf(job.pair)) # {}
  <2> DEFINE m == [job EXCEPT !.at = "fill"]
  <2>1. job' = m /\ links' = links
    BY <1>3 DEF Save
  <2>2. m \in Jobs(m)
    BY <1>1 DEF Jobs
  <2>3. /\ m.kind = job.kind /\ m.firm = job.firm /\ m.picked = job.picked /\ m.found = job.found
        /\ m.cache = job.cache /\ m.calm = job.calm /\ m.err = job.err /\ m.bad = job.bad
        /\ m.todo = job.todo /\ m.pair = job.pair /\ m.why = job.why /\ m.got = job.got
        /\ m.at = "fill"
    BY <1>1 DEF Jobs
  <2> HIDE DEF m
  <2>4. Follows(job, m)
    BY <1>1, <2>2, <2>3, SidedGood
  <2> QED
    BY <1>1, <2>1, <2>4, FollowStep
<1>4. CASE LinksOf(EndsOf(job.pair)) = {}
  <2> DEFINE a == [from |-> job.pair.from, to |-> job.pair.to,
                   fromId |-> job.got[1], toId |-> job.got[2]]
             b == [from |-> job.pair.to, to |-> job.pair.from,
                   fromId |-> job.got[2], toId |-> job.got[1]]
  <2>1. job' = PairDone(job) /\ links' = links \cup {a, b}
    BY <1>4 DEF Save
  <2>2. job.got[1] \in StructureIds /\ job.got[2] \in StructureIds
    BY <1>1 DEF Jobs
  <2>3. a \in Between(SolarSystems) /\ b \in Between(SolarSystems)
    BY <1>2, <2>2 DEF Between
  <2>4. BridgeIn(job.got[1], job.pair.from) /\ BridgeIn(job.got[2], job.pair.to)
    BY <1>1, <1>2 DEF GotIds, End
  <2>5. links' \subseteq Between(SolarSystems)
    BY <2>1, <2>3 DEF SearchInv, SearchTypes
  <2>6. IdsAreOfTheirSystems'
    BY <2>1, <2>4 DEF SearchInv, IdsAreOfTheirSystems
  <2>7. Follows(job, PairDone(job))
    BY <1>1, PairDoneGood
  <2> QED
    BY <1>1, <2>1, <2>5, <2>6, <2>7, TableStep DEF Follows
<1> QED
  BY <1>3, <1>4

\* When a run is over nothing of it is left.
LEMMA NoJobGood ==
    Good(NoJob) /\ NoJob.kind = "none" /\ NoJob.firm = [o \in Corps |-> "unset"]
PROOF
<1> DEFINE k == NoJob
<1>1. /\ k \in Jobs(k) /\ k.kind = "none" /\ k.at = "idle" /\ k.picked = {} /\ k.todo = {}
      /\ k.why = "none" /\ k.side = 1 /\ k.got = Nothing /\ k.cache = <<>> /\ k.err = "none"
      /\ k.found = {} /\ k.firm = [o \in Corps |-> "unset"]
  BY FreshTyped DEF NoJob
<1>2. k = NoJob
  OBVIOUS
<1> HIDE DEF k
<1>3. GotInv(k)
  BY <1>1, NothingFound DEF GotInv, Asking, Ending, Prefers
<1>4. AskInv(k)
  BY <1>1, <1>2 DEF AskInv
<1>5. ConcludeInv(k)
  BY <1>1 DEF ConcludeInv
<1>6. ProposeInv(k)
  BY <1>1 DEF ProposeInv, Resolves, Prefers, Ending, Asking
<1>7. TodoInv(k)
  BY <1>1 DEF TodoInv
<1> QED
  BY <1>1, <1>2, <1>3, <1>4, <1>5, <1>6, <1>7 DEF Good, JobInv

\* A run ends.
LEMMA RunEndsStep ==
    SearchInv /\ RunEnds => SearchInv'
PROOF
<1> SUFFICES ASSUME SearchInv, RunEnds PROVE SearchInv'
  OBVIOUS
<1>1. count \in Counting
  BY DEF SearchInv, SearchTypes, Counting
<1>2. \A o \in Corps : NoJob.firm[o] = "unset"
  BY NoJobGood
<1> QED
  BY <1>1, <1>2, NoJobGood, QuietStep DEF RunEnds

-----------------------------------------------------------------------------
(* Discovery's searches.                                                     *)

\* A discovery that searches.
Searching(j) ==
    /\ Carried(j) /\ j.kind = "discover" /\ j.got = Nothing /\ j.side = 1

\* While discovery searches, it has found nothing for the pair at hand.
LEMMA SearchingOn ==
    ASSUME SearchInv, job.at \in Asking \ {"next"}
    PROVE  /\ Searching(job) /\ job \in Jobs(job) /\ Good(job) /\ count \in Counting
           /\ job.at # "ask" => job.todo \subseteq SolarSystems
           /\ job.why \in {"none", "name"} /\ (job.why = "name" => job.at = "each")
PROOF
<1>1. Carried(job) /\ Good(job) /\ job \in Jobs(job) /\ count \in Counting
  BY Running DEF Good, Asking
<1>2. /\ job.kind = "discover" /\ job.why \in {"none", "name"}
      /\ job.why = "name" => job.at = "each"
  BY <1>1 DEF Good, JobInv, ProposeInv, Asking
<1>3. job.got = Nothing /\ job.side = 1
  BY <1>1 DEF Good, JobInv, GotInv
<1>4. job.at # "ask" => job.todo \subseteq SolarSystems
  BY <1>1, <1>2 DEF Good, JobInv, TodoInv, Named, Asking
<1> QED
  BY <1>1, <1>2, <1>3, <1>4 DEF Searching

\* The next question of a discovery that searches.
LEMMA SearchingGood ==
    ASSUME NEW j, NEW m, Searching(j), m \in Jobs(m), m.kind = j.kind,
           m.picked = j.picked, m.found = j.found, m.cache = j.cache, m.got = j.got,
           m.side = j.side, m.calm => j.calm, m.err = "broken" => m.bad,
           m.at \in Asking \ {"next"}, m.why \in {"none", "name"},
           m.why = "name" => m.at = "each", m.at = "each" => m.rest # {},
           m.at # "ask" => m.todo \subseteq SolarSystems
    PROVE  Good(m)
PROOF
<1>1. Carried(m)
  BY CarriedOn DEF Searching
<1>2. GotInv(m)
  BY <1>1, NothingFound DEF GotInv, Carried, Cached, Asking, Ending, Prefers, Searching
<1>3. AskInv(m)
  BY <1>1 DEF AskInv, Carried, Asking
<1>4. ConcludeInv(m)
  BY DEF ConcludeInv, Asking
<1>5. ProposeInv(m)
  BY <1>1 DEF ProposeInv, Carried, Resolves, Prefers, Ending, Asking, Searching
<1>6. TodoInv(m)
  BY DEF TodoInv, Named, Searching, Asking
<1> QED
  BY <1>2, <1>3, <1>4, <1>5, <1>6 DEF Good, JobInv

\* A structure is looked at, or the next one is.
LEMMA LookingGood ==
    ASSUME NEW m, Looking(m), m.at \in {"fetch", "next"}, m.at = "next" => m.why = "look",
           m.at = "fetch" => m.ask # NoId /\ m.left # {} /\ m.err = "none"
    PROVE  Good(m)
PROOF
<1>1. Carried(m) /\ m \in Jobs(m)
  BY DEF Looking, Carried
<1>2. GotInv(m)
  BY <1>1, NothingFound DEF GotInv, Carried, Cached, Asking, Ending, Prefers, Looking
<1>3. AskInv(m)
  BY <1>1 DEF AskInv, Carried, Looking
<1>4. ConcludeInv(m)
  BY DEF ConcludeInv, Looking
<1>5. ProposeInv(m)
  BY <1>1 DEF ProposeInv, Carried, Resolves, Prefers, Ending, Asking, Looking
<1>6. TodoInv(m)
  BY DEF TodoInv, Named, Looking
<1> QED
  BY <1>1, <1>2, <1>3, <1>4, <1>5, <1>6 DEF Good, JobInv

\* A character whose turn it is to search is one of the run's.
LEMMA FirstOf ==
    ASSUME NEW j, j \in Jobs(j), NEW T, T \subseteq j.picked, T # {}
    PROVE  Min(T) \in T /\ Min(T) \in j.picked
PROOF
<1>1. T \in SUBSET Nat
  BY StructureSearchAssumption DEF StructureSearchAssumption, Jobs
<1> QED
  BY <1>1, MinOf

\* A character searches everywhere.
LEMMA GlobalSearchStep ==
    SearchInv /\ GlobalSearch => SearchInv'
PROOF
<1> SUFFICES ASSUME SearchInv, GlobalSearch PROVE SearchInv'
  OBVIOUS
<1> DEFINE c == Min(job.left)
           T == {t \in Structures : Leads[t] # Nowhere}
<1>1. /\ Searching(job) /\ job \in Jobs(job) /\ Good(job) /\ count \in Counting
      /\ job.at = "ask" /\ job.why = "none" /\ UNCHANGED <<links, known, world, been>>
      /\ SearchSays(job, c, T)
  BY SearchingOn DEF GlobalSearch, Asking
<1>2. c \in job.picked
  <2>1. job.left \subseteq job.picked /\ job.left # {}
    BY <1>1 DEF Jobs, GlobalSearch
  <2> QED
    BY <1>1, <2>1, FirstOf
<1> HIDE DEF c
<1>3. job.err = "broken" => job.bad
  BY <1>1 DEF Searching, Carried
<1>4. ASSUME NEW S \in Listing(c, Seen(c, T)), job' = AfterSearch(c, S), count' = count
      PROVE  SearchInv'
  <2>1. S \subseteq Structures
    BY <1>4 DEF Listing, Seen
  <2> DEFINE l == job.left \ {c}
             f == job.finders \cup (S \X {c})
             m == [job EXCEPT !.left = l, !.heard = TRUE, !.finders = f]
  <2>2. l \subseteq job.picked /\ f \subseteq Structures \X job.picked
    BY <1>1, <1>2, <2>1 DEF Jobs
  <2>3. job' = m
    BY <1>1, <1>4 DEF AfterSearch
  <2> HIDE DEF l, f
  <2>4. m \in Jobs(m)
    BY <1>1, <2>2, ZenonT(60) DEF Jobs
  <2>5. /\ m.kind = job.kind /\ m.firm = job.firm /\ m.picked = job.picked /\ m.found = job.found
        /\ m.cache = job.cache /\ m.calm = job.calm /\ m.err = job.err /\ m.bad = job.bad
        /\ m.got = job.got /\ m.side = job.side /\ m.at = "ask" /\ m.why = "none"
    BY <1>1 DEF Jobs
  <2> HIDE DEF m
  <2>6. Good(m)
    BY <1>1, <1>3, <2>4, <2>5, SearchingGood DEF Asking
  <2> QED
    BY <1>1, <1>4, <2>3, <2>5, <2>6, FollowStep DEF Follows
<1>5. ASSUME NEW a \in {"unsure", "broken"}, NEW fact, Counts(a, fact),
             job' = AfterError(job, a, fact, c)
      PROVE  SearchInv'
  <2> DEFINE m == AfterError(job, a, fact, c)
  <2>a. m = AfterError(job, a, fact, c)
    OBVIOUS
  <2> HIDE DEF m
  <2>1. /\ m \in Jobs(m)
        /\ m.calm = (job.calm /\ a = fact) /\ m.bad = (job.bad \/ a = "broken")
        /\ m.err = (IF job.err = "none" THEN a ELSE job.err)
        /\ m.kind = job.kind /\ m.firm = job.firm /\ m.picked = job.picked /\ m.found = job.found
        /\ m.cache = job.cache /\ m.why = "none" /\ m.got = job.got /\ m.side = job.side
        /\ m.at = "ask"
    BY <1>1, <2>a, AfterErrorFields
  <2>2. (m.err = "broken" => m.bad) /\ (m.calm => job.calm)
    BY <1>3, <2>1
  <2>3. Good(m)
    BY <1>1, <2>1, <2>2, SearchingGood DEF Asking
  <2> QED
    BY <1>1, <1>5, <2>a, <2>1, <2>3, FollowStep, CountsTyped DEF Follows
<1> QED
  BY <1>1, <1>4, <1>5 DEF SearchSays, AfterError

\* Everybody has searched: what was found is looked at, or the systems are searched.
LEMMA GlobalEndsStep ==
    SearchInv /\ GlobalEnds => SearchInv'
PROOF
<1> SUFFICES ASSUME SearchInv, GlobalEnds PROVE SearchInv'
  OBVIOUS
<1>1. /\ Searching(job) /\ job \in Jobs(job) /\ count \in Counting
      /\ job.at = "ask" /\ job.why = "none" /\ UNCHANGED <<links, known, world, been, count>>
  BY SearchingOn DEF GlobalEnds, Asking
<1>2. CASE ~job.heard /\ job.err # "none"
  <2> DEFINE m == [job EXCEPT !.at = "systems", !.todo = SovSystems, !.err = "none"]
  <2>1. job' = m
    BY <1>2 DEF GlobalEnds
  <2>2. m \in Jobs(m)
    BY <1>1, ZenonT(60) DEF Jobs, Asking
  <2>3. /\ m.kind = job.kind /\ m.firm = job.firm /\ m.picked = job.picked /\ m.found = job.found
        /\ m.cache = job.cache /\ m.calm = job.calm /\ m.err = "none"
        /\ m.got = job.got /\ m.side = job.side /\ m.at = "systems" /\ m.why = "none"
        /\ m.todo = SovSystems
    BY <1>1 DEF Jobs
  <2> HIDE DEF m
  <2>4. m.todo \subseteq SolarSystems
    BY <2>3, StructureSearchAssumption DEF StructureSearchAssumption
  <2>5. Good(m)
    BY <1>1, <2>2, <2>3, <2>4, SearchingGood DEF Asking
  <2> QED
    BY <1>1, <2>1, <2>3, <2>5, FollowStep DEF Follows
<1>3. CASE ~(~job.heard /\ job.err # "none")
  <2> DEFINE T == {f[1] : f \in job.finders}
             m == [job EXCEPT !.at = "next", !.why = "look", !.err = "none", !.todo = T]
  <2>1. job' = m
    BY <1>3 DEF GlobalEnds
  <2>a. T = {f[1] : f \in job.finders}
    OBVIOUS
  <2> HIDE DEF T
  <2>2. m \in Jobs(m)
    BY <1>1, ZenonT(60) DEF Jobs, Asking
  <2>3. /\ m.kind = job.kind /\ m.firm = job.firm /\ m.picked = job.picked /\ m.found = job.found
        /\ m.cache = job.cache /\ m.calm = job.calm /\ m.err = "none"
        /\ m.got = job.got /\ m.side = job.side /\ m.at = "next" /\ m.why = "look"
        /\ m.todo = T /\ m.finders = job.finders
    BY <1>1 DEF Jobs
  <2> HIDE DEF m
  <2>4. Carried(m)
    BY <1>1, <2>2, <2>3, CarriedOn DEF Searching
  <2>5. Looking(m)
    BY <1>1, <2>a, <2>3, <2>4 DEF Looking, Searching
  <2>6. Good(m)
    BY <2>3, <2>5, LookingGood
  <2> QED
    BY <1>1, <2>1, <2>3, <2>6, FollowStep DEF Follows
<1> QED
  BY <1>2, <1>3

\* The next structure found is looked at by those who found it.
LEMMA LookAtStep ==
    SearchInv /\ LookAt => SearchInv'
PROOF
<1> SUFFICES ASSUME SearchInv, LookAt PROVE SearchInv'
  OBVIOUS
<1>1. /\ job.at = "next" /\ job.why = "look" /\ job.todo # {}
      /\ UNCHANGED <<links, known, world, been, count>>
  BY DEF LookAt
<1>2. Good(job) /\ Carried(job) /\ job \in Jobs(job) /\ count \in Counting
  BY <1>1, Running DEF Good
<1>3. job.kind = "discover" /\ job.got = Nothing /\ job.side = 1
  BY <1>1, <1>2 DEF Good, JobInv, ProposeInv, GotInv
<1>4. job.todo \subseteq {f[1] : f \in job.finders}
  BY <1>1, <1>2, <1>3 DEF Good, JobInv, TodoInv
<1> DEFINE t == Min(job.todo)
           U == job.todo \ {t}
           C == {f[2] : f \in {g \in job.finders : g[1] = t}}
           j == [job EXCEPT !.todo = U]
           k == AskAll(j, "look", t)
           m == [k EXCEPT !.left = C]
<1>5. job.finders \subseteq Structures \X job.picked
  BY <1>2 DEF Jobs
<1>6. t \in job.todo
  <2>1. job.todo \subseteq Structures
    BY <1>4, <1>5
  <2>2. job.todo \in SUBSET Nat
    BY <2>1, StructureSearchAssumption DEF StructureSearchAssumption
  <2> QED
    BY <1>1, <2>2, MinOf
<1>7. t \in Structures /\ C # {} /\ C \subseteq job.picked /\ t # NoId /\ t \in StructureIds
  BY <1>4, <1>5, <1>6, StructureSearchAssumption DEF StructureSearchAssumption, StructureIds
<1>8. U \subseteq {f[1] : f \in job.finders}
  BY <1>4
<1>a. job' = m /\ k = AskAll(j, "look", t)
  BY DEF LookAt
<1> HIDE DEF t, U, C
<1>9. /\ j \in Jobs(j) /\ j.todo = U
      /\ j.kind = job.kind /\ j.firm = job.firm /\ j.picked = job.picked /\ j.found = job.found
      /\ j.cache = job.cache /\ j.calm = job.calm /\ j.got = job.got /\ j.side = job.side
      /\ j.finders = job.finders
  BY <1>2 DEF Jobs
<1> HIDE DEF j, k
<1>10. /\ k \in Jobs(k) /\ k.at = "fetch" /\ k.why = "look" /\ k.ask = t /\ k.err = "none"
       /\ k.kind = job.kind /\ k.todo = U /\ k.picked = job.picked /\ k.calm = job.calm
       /\ k.found = job.found /\ k.cache = job.cache
       /\ k.side = job.side /\ k.got = job.got /\ k.firm = job.firm /\ k.finders = job.finders
  BY <1>7, <1>9, <1>a, AskAllFields
<1>11. m \in Jobs(m)
  BY <1>7, <1>10 DEF Jobs
<1>12. /\ m.at = "fetch" /\ m.why = "look" /\ m.ask = t /\ m.err = "none" /\ m.left = C
       /\ m.kind = job.kind /\ m.todo = U /\ m.picked = job.picked /\ m.calm = job.calm
       /\ m.found = job.found /\ m.cache = job.cache
       /\ m.side = job.side /\ m.got = job.got /\ m.firm = job.firm /\ m.finders = job.finders
  BY <1>10 DEF Jobs
<1> HIDE DEF m
<1>13. Carried(m)
  BY <1>2, <1>11, <1>12, CarriedOn
<1>14. Looking(m)
  BY <1>3, <1>8, <1>12, <1>13 DEF Looking
<1>15. Good(m)
  BY <1>7, <1>12, <1>14, LookingGood
<1> QED
  BY <1>1, <1>2, <1>a, <1>12, <1>15, FollowStep DEF Follows

\* The next system is searched by name.
LEMMA NextSystemStep ==
    ASSUME SearchInv, NEW s, NextSystem(s)
    PROVE  SearchInv'
PROOF
<1>1. /\ Searching(job) /\ job \in Jobs(job) /\ count \in Counting
      /\ job.at = "systems" /\ job.why = "none" /\ s \in job.todo /\ job.todo \subseteq SolarSystems
      /\ UNCHANGED <<links, known, world, been, count>>
  BY SearchingOn DEF NextSystem, Asking
<1> DEFINE U == job.todo \ {s}
           p == [job.pair EXCEPT !.from = s]
           unset == [o \in Corps |-> "unset"]
           m == [job EXCEPT !.at = "names", !.todo = U, !.pair = p,
                            !.rest = job.picked, !.spent = {}, !.firm = unset]
<1>2. p \in Between(SolarSystems \cup {Nowhere}) /\ unset \in [Corps -> Alliances \cup {"unset"}]
  BY <1>1 DEF Jobs, Between
<1>3. job' = m
  BY DEF NextSystem
<1>4. U \subseteq SolarSystems /\ \A o \in Corps : unset[o] = "unset"
  BY <1>1
<1> HIDE DEF U, p, unset
<1>5. m \in Jobs(m)
  BY <1>1, <1>2, ZenonT(60) DEF Jobs, Asking
<1>6. /\ m.kind = job.kind /\ m.firm = unset /\ m.picked = job.picked /\ m.found = job.found
      /\ m.cache = job.cache /\ m.calm = job.calm /\ m.err = job.err /\ m.bad = job.bad
      /\ m.got = job.got /\ m.side = job.side /\ m.at = "names" /\ m.why = "none" /\ m.todo = U
  BY <1>1 DEF Jobs
<1> HIDE DEF m
<1>7. (m.err = "broken" => m.bad) /\ (m.calm => job.calm)
  BY <1>1, <1>6 DEF Searching, Carried
<1>8. Good(m)
  BY <1>1, <1>4, <1>5, <1>6, <1>7, SearchingGood DEF Asking
<1> QED
  BY <1>1, <1>3, <1>4, <1>6, <1>8, QuietStep

\* A character searches for a system by its name.
LEMMA NameSearchStep ==
    SearchInv /\ NameSearch => SearchInv'
PROOF
<1> SUFFICES ASSUME SearchInv, NameSearch PROVE SearchInv'
  OBVIOUS
<1> DEFINE c == Min(job.rest)
           T == {t \in Structures : job.pair.from \in SystemsOf(t)}
           r == job.rest \ {c}
           n == [job EXCEPT !.rest = r]
<1>1. /\ Searching(job) /\ job \in Jobs(job) /\ count \in Counting
      /\ job.at = "names" /\ job.why = "none" /\ job.rest # {} /\ job.todo \subseteq SolarSystems
      /\ UNCHANGED <<links, known, world, been>> /\ SearchSays(n, c, T)
  BY SearchingOn DEF NameSearch, Asking
<1>2. job.err = "broken" => job.bad
  BY <1>1 DEF Searching, Carried
<1>3. r \subseteq job.picked
  BY <1>1 DEF Jobs
<1> HIDE DEF r, c
<1>4. ASSUME NEW S \in Listing(c, Seen(c, T)), job' = AfterSearch(c, S), count' = count
      PROVE  SearchInv'
  <2>1. S \subseteq Structures
    BY <1>4 DEF Listing, Seen
  <2> DEFINE h == S \ job.spent
             p == job.spent \cup S
             m == [job EXCEPT !.at = "each", !.hits = h, !.spent = p]
  <2>2. h \subseteq Structures /\ p \subseteq Structures
    BY <1>1, <2>1 DEF Jobs
  <2>3. job' = m
    BY <1>1, <1>4 DEF AfterSearch
  <2> HIDE DEF h, p
  <2>4. m \in Jobs(m)
    BY <1>1, <2>2, ZenonT(60) DEF Jobs, Asking
  <2>5. /\ m.kind = job.kind /\ m.firm = job.firm /\ m.picked = job.picked /\ m.found = job.found
        /\ m.cache = job.cache /\ m.calm = job.calm /\ m.err = job.err /\ m.bad = job.bad
        /\ m.got = job.got /\ m.side = job.side /\ m.at = "each" /\ m.why = "none"
        /\ m.todo = job.todo /\ m.rest = job.rest
    BY <1>1 DEF Jobs
  <2> HIDE DEF m
  <2>6. Good(m)
    BY <1>1, <1>2, <2>4, <2>5, SearchingGood DEF Asking
  <2> QED
    BY <1>1, <1>4, <2>3, <2>5, <2>6, FollowStep DEF Follows
<1>5. ASSUME NEW a \in {"unsure", "broken"}, NEW fact, Counts(a, fact),
             job' = AfterError(n, a, fact, c)
      PROVE  SearchInv'
  <2>0. n \in Jobs(n)
    BY <1>1, <1>3 DEF Jobs
  <2>1. /\ n.kind = job.kind /\ n.firm = job.firm /\ n.picked = job.picked /\ n.found = job.found
        /\ n.cache = job.cache /\ n.calm = job.calm /\ n.err = job.err /\ n.bad = job.bad
        /\ n.got = job.got /\ n.side = job.side /\ n.at = "names" /\ n.why = "none"
        /\ n.todo = job.todo
    BY <1>1 DEF Jobs
  <2> DEFINE m == AfterError(n, a, fact, c)
  <2>a. m = AfterError(n, a, fact, c)
    OBVIOUS
  <2> HIDE DEF m, n
  <2>2. /\ m \in Jobs(m)
        /\ m.calm = (n.calm /\ a = fact) /\ m.bad = (n.bad \/ a = "broken")
        /\ m.err = (IF n.err = "none" THEN a ELSE n.err)
        /\ m.kind = n.kind /\ m.firm = n.firm /\ m.picked = n.picked /\ m.found = n.found
        /\ m.cache = n.cache /\ m.why = n.why /\ m.got = n.got /\ m.side = n.side
        /\ m.at = n.at /\ m.todo = n.todo
    BY <2>0, <2>a, AfterErrorFields
  <2>3. (m.err = "broken" => m.bad) /\ (m.calm => job.calm)
    BY <1>2, <2>1, <2>2
  <2>4. Good(m)
    BY <1>1, <2>1, <2>2, <2>3, SearchingGood DEF Asking
  <2> QED
    BY <1>1, <1>5, <2>a, <2>1, <2>2, <2>4, FollowStep, CountsTyped DEF Follows
<1> HIDE DEF n
<1> QED
  BY <1>1, <1>4, <1>5 DEF SearchSays, AfterError

\* A structure that was found by name is looked at.
LEMMA EachHitStep ==
    ASSUME SearchInv, NEW t, EachHit(t)
    PROVE  SearchInv'
PROOF
<1>1. /\ Searching(job) /\ job \in Jobs(job) /\ Good(job) /\ count \in Counting
      /\ job.at = "each" /\ t \in job.hits /\ job.todo \subseteq SolarSystems
      /\ UNCHANGED <<links, known, world, been, count>>
  BY SearchingOn DEF EachHit, Asking
<1>2. job.rest # {} /\ job.rest \subseteq job.picked
  BY <1>1 DEF Good, JobInv, AskInv, Jobs
<1> DEFINE c == Min(job.rest)
           C == {c}
           H == job.hits \ {t}
           j == [job EXCEPT !.hits = H]
           k == AskAll(j, "name", t)
           m == [k EXCEPT !.left = C]
<1>3. C # {} /\ C \subseteq job.picked
  BY <1>1, <1>2, FirstOf
<1>4. t \in Structures /\ t # NoId /\ t \in StructureIds /\ H \subseteq Structures
  BY <1>1, StructureSearchAssumption DEF StructureSearchAssumption, StructureIds, Jobs
<1>a. job' = m /\ k = AskAll(j, "name", t)
  BY DEF EachHit
<1> HIDE DEF C, H
<1>5. /\ j \in Jobs(j)
      /\ j.kind = job.kind /\ j.firm = job.firm /\ j.picked = job.picked /\ j.found = job.found
      /\ j.cache = job.cache /\ j.calm = job.calm /\ j.got = job.got /\ j.side = job.side
      /\ j.todo = job.todo /\ j.rest = job.rest
  BY <1>1, <1>4 DEF Jobs
<1> HIDE DEF j, k
<1>6. /\ k \in Jobs(k) /\ k.at = "fetch" /\ k.why = "name" /\ k.ask = t /\ k.err = "none"
      /\ k.kind = job.kind /\ k.todo = job.todo /\ k.picked = job.picked /\ k.calm = job.calm
      /\ k.found = job.found /\ k.cache = job.cache /\ k.rest = job.rest
      /\ k.side = job.side /\ k.got = job.got /\ k.firm = job.firm
  BY <1>4, <1>5, <1>a, AskAllFields
<1>7. m \in Jobs(m)
  BY <1>3, <1>6 DEF Jobs
<1>8. /\ m.at = "fetch" /\ m.why = "name" /\ m.ask = t /\ m.err = "none" /\ m.left = C
      /\ m.kind = job.kind /\ m.todo = job.todo /\ m.picked = job.picked /\ m.calm = job.calm
      /\ m.found = job.found /\ m.cache = job.cache /\ m.rest = job.rest
      /\ m.side = job.side /\ m.got = job.got /\ m.firm = job.firm
  BY <1>6 DEF Jobs
<1> HIDE DEF m
<1>9. Carried(m)
  BY <1>1, <1>7, <1>8, CarriedOn DEF Searching
<1>10. Looking(m)
  BY <1>1, <1>2, <1>8, <1>9 DEF Looking, Searching
<1>11. Good(m)
  BY <1>3, <1>4, <1>8, <1>10, LookingGood
<1> QED
  BY <1>1, <1>a, <1>8, <1>11, FollowStep DEF Follows

\* The next character searches for the system, or the next system has its turn.
LEMMA NextNameStep ==
    SearchInv /\ NextName => SearchInv'
PROOF
<1> SUFFICES ASSUME SearchInv, NextName PROVE SearchInv'
  OBVIOUS
<1>1. /\ Searching(job) /\ job \in Jobs(job) /\ count \in Counting
      /\ job.at \in {"each", "names"} /\ job.todo \subseteq SolarSystems
      /\ job.why = "name" => job.at = "each"
      /\ job.why \in {"none", "name"} /\ UNCHANGED <<links, known, world, been, count>>
  BY SearchingOn DEF NextName, Asking
<1>2. job.err = "broken" => job.bad
  BY <1>1 DEF Searching, Carried
<1>3. CASE job.at = "each" /\ job' = [job EXCEPT !.at = "names", !.why = "none", !.rest = @ \ {Min(@)}]
  <2> DEFINE r == job.rest \ {Min(job.rest)}
             m == [job EXCEPT !.at = "names", !.why = "none", !.rest = r]
  <2>1. job' = m /\ r \subseteq job.picked
    BY <1>1, <1>3 DEF Jobs
  <2> HIDE DEF r
  <2>2. m \in Jobs(m)
    BY <1>1, <2>1, ZenonT(60) DEF Jobs, Asking
  <2>3. /\ m.kind = job.kind /\ m.firm = job.firm /\ m.picked = job.picked /\ m.found = job.found
        /\ m.cache = job.cache /\ m.calm = job.calm /\ m.err = job.err /\ m.bad = job.bad
        /\ m.got = job.got /\ m.side = job.side /\ m.at = "names" /\ m.why = "none"
        /\ m.todo = job.todo
    BY <1>1 DEF Jobs
  <2> HIDE DEF m
  <2>4. Good(m)
    BY <1>1, <1>2, <2>2, <2>3, SearchingGood DEF Asking
  <2> QED
    BY <1>1, <2>1, <2>3, <2>4, FollowStep DEF Follows
<1>4. CASE /\ job.at = "names"
           /\ job' = [job EXCEPT !.at = "systems", !.pair = NoPair, !.spent = {}, !.err = "none"]
  <2> DEFINE m == [job EXCEPT !.at = "systems", !.pair = NoPair, !.spent = {}, !.err = "none"]
  <2>1. job' = m
    BY <1>4
  <2>2. m \in Jobs(m)
    BY <1>1, NothingFound, ZenonT(60) DEF Jobs, Asking
  <2>3. /\ m.kind = job.kind /\ m.firm = job.firm /\ m.picked = job.picked /\ m.found = job.found
        /\ m.cache = job.cache /\ m.calm = job.calm /\ m.err = "none"
        /\ m.got = job.got /\ m.side = job.side /\ m.at = "systems" /\ m.why = "none"
        /\ m.todo = job.todo
    BY <1>1, <1>4 DEF Jobs
  <2> HIDE DEF m
  <2>4. Good(m)
    BY <1>1, <2>2, <2>3, SearchingGood DEF Asking
  <2> QED
    BY <1>1, <2>1, <2>3, <2>4, FollowStep DEF Follows
<1> QED
  BY <1>3, <1>4 DEF NextName

\* What was proposed is to be compared with the table.
LEMMA ProposedStep ==
    SearchInv /\ Proposed => SearchInv'
PROOF
<1> SUFFICES ASSUME SearchInv, Proposed PROVE SearchInv'
  OBVIOUS
<1>1. /\ (job.at = "next" /\ job.why = "look") \/ job.at = "systems"
      /\ UNCHANGED <<links, known, world, been, count>>
  BY DEF Proposed
<1>2. Good(job) /\ Carried(job) /\ job \in Jobs(job) /\ count \in Counting
  BY <1>1, Running DEF Good
<1>3. job.kind = "discover" /\ job.got = Nothing /\ job.side = 1
  BY <1>1, <1>2 DEF Good, JobInv, ProposeInv, GotInv, Asking
<1> DEFINE m == [job EXCEPT !.at = "next", !.why = "none", !.heard = FALSE, !.finders = {},
                            !.todo = job.found, !.found = {}]
<1>4. job' = m
  BY DEF Proposed
<1>5. m \in Jobs(m)
  BY <1>2, ZenonT(60) DEF Jobs, Asking
<1>6. /\ m.kind = job.kind /\ m.firm = job.firm /\ m.picked = job.picked /\ m.found = {}
      /\ m.cache = job.cache /\ m.calm = job.calm /\ m.err = job.err /\ m.bad = job.bad
      /\ m.got = job.got /\ m.side = job.side /\ m.at = "next" /\ m.why = "none"
      /\ m.todo = job.found
  BY <1>2 DEF Jobs
<1> HIDE DEF m
<1>7. /\ m.err = "broken" => m.bad
      /\ m.picked # {} /\ Cached(m) /\ \A p \in m.todo : Proposal(job, p)
  BY <1>2, <1>6 DEF Carried, Cached
<1>8. \A p : Proposal(job, p) => Proposal(m, p)
  BY <1>6, ProposalOf
<1>9. GotInv(m)
  BY <1>3, <1>6, <1>7, NothingFound DEF GotInv, Cached, Asking, Ending, Prefers
<1>10. AskInv(m)
  BY <1>3, <1>6, <1>7 DEF AskInv
<1>11. ConcludeInv(m)
  BY <1>6 DEF ConcludeInv
<1>12. ProposeInv(m)
  BY <1>6 DEF ProposeInv, Resolves, Prefers, Ending, Asking
<1>13. TodoInv(m)
  BY <1>3, <1>6, <1>7, <1>8 DEF TodoInv, Named
<1>14. Follows(job, m)
  BY <1>5, <1>6, <1>9, <1>10, <1>11, <1>12, <1>13 DEF Follows, Good, JobInv
<1> QED
  BY <1>1, <1>2, <1>4, <1>14, FollowStep

-----------------------------------------------------------------------------
(* What happens in EVE.                                                      *)

\* While nothing comes back and nothing said is unsaid, a job stays in order that
\* does not count on peace.
LEMMA MovesStep ==
    ASSUME SearchInv, Moves, links' = links, there' \subseteq there, usable' \subseteq Characters,
           alliance' \in [Corps -> Alliances], known' \in [Corps -> Alliances \cup {"unknown"}],
           been' \in [Corps -> SUBSET Alliances], \A o \in Corps : been[o] \subseteq been'[o],
           \A o \in Corps : /\ alliance'[o] \in been'[o]
                            /\ known'[o] = "friend" => "friend" \in been'[o]
                            /\ known'[o] = "foe" => \E a \in been'[o] : a # "friend"
    PROVE  SearchInv'
PROOF
<1> DEFINE m == [job EXCEPT !.calm = FALSE]
<1>1. /\ job.kind # "none" /\ job' = m /\ count' = [count EXCEPT !.moves = @ + 1]
  BY DEF Moves
<1>2. Carried(job) /\ Good(job) /\ job \in Jobs(job) /\ count \in Counting
  BY <1>1, Running DEF Good
<1>3. m \in Jobs(m) /\ m.calm = FALSE
  BY <1>2, ZenonT(60) DEF Jobs
<1>4. /\ m.kind = job.kind /\ m.at = job.at /\ m.todo = job.todo /\ m.pair = job.pair
      /\ m.side = job.side /\ m.why = job.why /\ m.ask = job.ask /\ m.left = job.left
      /\ m.err = job.err /\ m.rest = job.rest /\ m.got = job.got /\ m.said = job.said
  BY <1>2 DEF Jobs
<1>5. /\ m.cache = job.cache /\ m.firm = job.firm /\ m.picked = job.picked
      /\ m.finders = job.finders /\ m.found = job.found /\ m.bad = job.bad
  BY <1>2 DEF Jobs
<1> HIDE DEF m
<1>6. SearchTypes'
  <2>1. links' \subseteq Between(SolarSystems) /\ there' \subseteq Structures
    BY DEF SearchInv, SearchTypes
  <2>2. count' \in Counting
    BY <1>1, <1>2 DEF Counting
  <2>3. (job \in Jobs(job))'
    BY <1>1, <1>3 DEF Jobs
  <2> QED
    BY <2>1, <2>2, <2>3 DEF SearchTypes, Counting
<1>7. BeenInv'
  <2> SUFFICES ASSUME NEW o \in Corps
               PROVE  /\ job.firm[o] = "friend" => "friend" \in been'[o]
                      /\ job.firm[o] = "foe" => \E a \in been'[o] : a # "friend"
    BY <1>1, <1>5 DEF BeenInv
  <2> QED
    BY <1>1 DEF SearchInv, BeenInv
<1>8. IdsAreOfTheirSystems'
  BY DEF SearchInv, IdsAreOfTheirSystems
<1>9. \A p : Proposal(job, p) => Proposal(job, p)'
  <2>1. /\ job'.calm = FALSE
        /\ \A t \in StructureIds : t # NoId => Owner[t] \in Corps
    BY <1>1, <1>3, StructureSearchAssumption DEF StructureSearchAssumption, StructureIds
  <2> QED
    BY <2>1 DEF Proposal, OfOurs, Liked, Between
<1>10. GotInv(job)'
  <2>1. GotInv(job)
    BY <1>2 DEF Good, JobInv
  <2> QED
    BY <1>1, <1>4, <1>5, <2>1 DEF GotInv, Prefers, End
<1>11. AskInv(job)'
  <2>1. AskInv(job)
    BY <1>2 DEF Good, JobInv
  <2> QED
    BY <1>1, <1>4, <1>5, <2>1 DEF AskInv, StoredId
<1>12. ConcludeInv(job)'
  <2>1. ConcludeInv(job)
    BY <1>2 DEF Good, JobInv
  <2>2. \A i \in {1, 2} : job.got[i] # NoId => (No(job, i) => No(job, i)')
    <3>1. \A i \in {1, 2} : job.got[i] # NoId => Owner[job.got[i]] \in Corps
      BY <1>2, StructureSearchAssumption DEF StructureSearchAssumption, StructureIds, Jobs
    <3> QED
      BY <1>1, <1>4, <1>5, <3>1 DEF No, Disliked
  <2>3. CauseIn(job) => CauseIn(job)'
    BY <1>1, <1>4, <1>5, <2>2 DEF CauseIn
  <2> QED
    BY <1>1, <1>4, <1>5, <2>1, <2>2, <2>3 DEF ConcludeInv
<1>13. ProposeInv(job)'
  <2>1. ProposeInv(job)
    BY <1>2 DEF Good, JobInv
  <2> QED
    BY <1>1, <1>3, <1>4, <1>5, <1>9, <2>1 DEF ProposeInv, Leading, Resolves, Prefers
<1>14. TodoInv(job)'
  <2>1. TodoInv(job)
    BY <1>2 DEF Good, JobInv
  <2> QED
    BY <1>1, <1>4, <1>5, <1>9, <2>1 DEF TodoInv, Named
<1> QED
  BY <1>6, <1>7, <1>8, <1>10, <1>11, <1>12, <1>13, <1>14 DEF SearchInv, JobInv

\* Structures are destroyed, access and tokens are lost, corporations change sides,
\* and rows are written.
LEMMA EveStep ==
    SearchInv /\ Eve => SearchInv'
PROOF
<1> SUFFICES ASSUME SearchInv, Eve PROVE SearchInv'
  OBVIOUS
<1>1. Moves
  BY DEF Eve, Destroyed, AccessLost, TokenDies, RowWritten, ChangesAlliance
<1>2. /\ there \subseteq Structures /\ usable \subseteq Characters
      /\ alliance \in [Corps -> Alliances] /\ known \in [Corps -> Alliances \cup {"unknown"}]
      /\ been \in [Corps -> SUBSET Alliances]
  BY DEF SearchInv, SearchTypes
<1>3. \A o \in Corps : /\ alliance[o] \in been[o]
                       /\ known[o] = "friend" => "friend" \in been[o]
                       /\ known[o] = "foe" => \E a \in been[o] : a # "friend"
  BY <1>1 DEF Moves, SearchInv, BeenInv
<1>4. CASE \E t \in Structures : Destroyed(t)
  BY <1>1, <1>2, <1>3, <1>4, MovesStep DEF Destroyed
<1>5. CASE \E t \in Structures, c \in Characters : AccessLost(c, t)
  BY <1>1, <1>2, <1>3, <1>5, MovesStep DEF AccessLost
<1>6. CASE \E c \in Characters : TokenDies(c)
  BY <1>1, <1>2, <1>3, <1>6, MovesStep DEF TokenDies
<1>7. CASE \E o \in Corps : RowWritten(o)
  <2>1. PICK o \in Corps : RowWritten(o)
    BY <1>7
  <2>2. /\ known' = [known EXCEPT ![o] = alliance[o]]
        /\ UNCHANGED <<links, there, sees, usable, alliance, been>>
    BY <2>1 DEF RowWritten, world
  <2>3. known' \in [Corps -> Alliances \cup {"unknown"}]
    BY <1>2, <2>2
  <2>4. \A q \in Corps : known'[q] \in {known[q], alliance[q]}
    BY <1>2, <2>2
  <2>5. \A q \in Corps : /\ known'[q] = "friend" => "friend" \in been[q]
                         /\ known'[q] = "foe" => \E a \in been[q] : a # "friend"
    BY <1>3, <2>4
  <2> QED
    BY <1>1, <1>2, <1>3, <2>2, <2>3, <2>5, MovesStep
<1>8. CASE \E o \in Corps, a \in {"friend", "foe", "none"} : ChangesAlliance(o, a)
  <2>1. PICK o \in Corps, a \in {"friend", "foe", "none"} : ChangesAlliance(o, a)
    BY <1>8
  <2>2. /\ alliance' = [alliance EXCEPT ![o] = a]
        /\ been' = [been EXCEPT ![o] = @ \cup {a}]
        /\ UNCHANGED <<links, known, there, sees, usable>>
    BY <2>1 DEF ChangesAlliance
  <2>3. alliance' \in [Corps -> Alliances] /\ been' \in [Corps -> SUBSET Alliances]
    BY <1>2, <2>2 DEF Alliances
  <2>4. \A q \in Corps : been[q] \subseteq been'[q]
    BY <1>2, <2>2
  <2>5. \A q \in Corps : alliance'[q] \in been'[q]
    BY <1>2, <1>3, <2>2
  <2>6. \A q \in Corps : /\ known[q] = "friend" => "friend" \in been'[q]
                         /\ known[q] = "foe" => \E b \in been'[q] : b # "friend"
    BY <1>3, <2>4
  <2> QED
    BY <1>1, <1>2, <2>2, <2>3, <2>4, <2>5, <2>6, MovesStep
<1> QED
  BY <1>4, <1>5, <1>6, <1>7, <1>8 DEF Eve

-----------------------------------------------------------------------------
(* The invariant.                                                            *)

\* Before the first run nothing has been found or said.
LEMMA SearchBegins ==
    SearchInit => SearchInv
PROOF
<1> SUFFICES ASSUME SearchInit PROVE SearchInv
  OBVIOUS
<1>1. /\ links \subseteq Between(SolarSystems)
      /\ \A l \in links : /\ l.fromId # NoId => BridgeIn(l.fromId, l.from)
                          /\ l.toId # NoId => BridgeIn(l.toId, l.to)
  BY StructureSearchAssumption DEF StructureSearchAssumption, SearchInit, Between
<1>2. /\ there \subseteq Structures /\ alliance \in [Corps -> Alliances]
      /\ known \in [Corps -> Alliances \cup {"unknown"}]
  <2>1. PICK w \in StartWorlds : /\ there = w.there /\ alliance = w.alliance /\ known = w.known
    BY DEF SearchInit
  <2>2. w \in [there : SUBSET Structures, sees : SUBSET (Characters \X Structures),
               alliance : [Corps -> {"friend", "foe", "none"}],
               known : [Corps -> {"friend", "foe", "none", "unknown"}]]
    BY StructureSearchAssumption DEF StructureSearchAssumption
  <2> QED
    BY <2>1, <2>2 DEF Alliances
<1>3. Good(job) /\ job.kind = "none"
  BY NoJobGood DEF SearchInit
<1>4. SearchTypes
  BY <1>1, <1>2, <1>3 DEF SearchInit, SearchTypes, Good
<1>5. BeenInv
  BY <1>3 DEF BeenInv
<1> QED
  BY <1>1, <1>3, <1>4, <1>5 DEF SearchInv, IdsAreOfTheirSystems, Good

\* Every step keeps the invariant.
LEMMA SearchKept ==
    SearchInv /\ [SearchNext]_searchVars => SearchInv'
PROOF
<1> SUFFICES ASSUME SearchInv, [SearchNext]_searchVars PROVE SearchInv'
  OBVIOUS
<1>1. CASE Resolving
  BY <1>1, ResolveEndStep, SearchStep, NoMatchStep, SearchEndsStep, FetchStep, MatchStep
     DEF Resolving
<1>2. CASE Judging
  BY <1>2, JudgeKnownStep, JudgeAskedStep, JudgeFailsStep DEF Judging
<1>3. CASE Validating
  BY <1>3, BeginValidationStep, RemoveStep, FillStep, NextPairStep DEF Validating
<1>4. CASE Discovering
  BY <1>4, BeginDiscoveryStep, GlobalSearchStep, GlobalEndsStep, LookAtStep, NameSearchStep,
     NextNameStep, ProposedStep, SaveStep, NextSystemStep, EachHitStep, NextProposalStep
     DEF Discovering
<1>5. CASE RunEnds
  BY <1>5, RunEndsStep
<1>6. CASE Eve
  BY <1>6, EveStep
<1>7. CASE UNCHANGED searchVars
  <2>1. Good(job)'
    BY <1>7, SameWorld DEF searchVars, world, SearchInv, SearchTypes, Good
  <2>2. SearchTypes' /\ BeenInv' /\ IdsAreOfTheirSystems'
    BY <1>7, <2>1 DEF searchVars, world, SearchInv, SearchTypes, BeenInv, IdsAreOfTheirSystems, Good
  <2> QED
    BY <2>1, <2>2 DEF SearchInv, Good
<1> QED
  BY <1>1, <1>2, <1>3, <1>4, <1>5, <1>6, <1>7 DEF SearchNext

\* At all times a run knows of a corporation only what was said since it began, ids
\* are of bridges in their systems, what removes a pair has its cause, and what is
\* proposed was found by one of the run's characters.
THEOREM SearchInvariant ==
    SearchSpec => []SearchInv
PROOF
<1>1. SearchInit => SearchInv
  BY SearchBegins
<1>2. SearchInv /\ [SearchNext]_searchVars => SearchInv'
  BY SearchKept
<1> QED
  BY <1>1, <1>2, PTL DEF SearchSpec

\* A structure's id is stored with the system it is in, in both rows and however it
\* was found: preferred, cached for the system, searched for or filled in later
\* (resolveSystemStructureIDWithContext, setBackfillStructureIDs, savePair).
THEOREM IdsStayOfTheirSystems ==
    SearchSpec => []IdsAreOfTheirSystems
PROOF
<1>1. SearchInv => IdsAreOfTheirSystems
  BY DEF SearchInv
<1> QED
  BY <1>1, SearchInvariant, PTL

\* Three steps change the table.
LEMMA TableChanges ==
    ASSUME [SearchNext]_searchVars
    PROVE  Remove \/ Fill \/ Save \/ links' = links
PROOF
<1>1. Resolving \/ Judging \/ RunEnds \/ Eve \/ UNCHANGED searchVars => links' = links
  <2>1. Resolving => links' = links
    BY DEF Resolving, ResolveEnd, Search, NoMatch, SearchEnds, Fetch, Match
  <2>2. Judging => links' = links
    BY DEF Judging, JudgeKnown, JudgeAsked, JudgeFails
  <2>3. Eve => links' = links
    BY DEF Eve, Destroyed, AccessLost, TokenDies, RowWritten, ChangesAlliance
  <2> QED
    BY <2>1, <2>2, <2>3 DEF RunEnds, searchVars
<1>2. Validating => Remove \/ Fill \/ links' = links
  BY DEF Validating, BeginValidation, BeginRun, NextPair
<1>3. Discovering => Save \/ links' = links
  BY DEF Discovering, BeginDiscovery, BeginRun, GlobalSearch, GlobalEnds, LookAt, NameSearch,
         NextName, Proposed, NextSystem, EachHit, NextProposal
<1> QED
  BY <1>1, <1>2, <1>3 DEF SearchNext

\* What is filled in stays the row of its pair.
LEMMA FillKeepsPairs ==
    ASSUME SearchInv, Fill
    PROVE  /\ \A l \in links : \E m \in links' : EndsOf(m) = EndsOf(l)
           /\ \A l \in links' : \E m \in links : EndsOf(m) = EndsOf(l)
PROOF
<1>1. GotIds(job) /\ job \in Jobs(job)
  BY Concluding DEF Fill
<1>2. PICK R \in SUBSET LinksOf(EndsOf(job.pair)) :
         links' = (links \ R) \cup {Filled(l) : l \in R}
  BY DEF Fill
<1>3. \A l \in R : l \in links /\ EndsOf(Filled(l)) = EndsOf(l)
  BY <1>1, FilledIn DEF LinksOf, SearchInv, SearchTypes, IdsAreOfTheirSystems
<1> QED
  BY <1>2, <1>3

\* A pair is removed only if a structure stored for it is gone, or if both of the
\* structures found are gone or have an owner that was not allowed at some time of
\* the run, or if a call of the run failed with an error that the code takes for an
\* answer (handlePairValidationResolutionError, isPairOwnerAllowedForValidation).
THEOREM RemovalsAreCaused ==
    SearchSpec => RemovalsHaveACause
PROOF
<1> DEFINE Kept == \A l \in links : (\E m \in links' : EndsOf(m) = EndsOf(l)) \/ Cause
<1>1. SearchInv /\ [SearchNext]_searchVars => Kept
  <2> SUFFICES ASSUME SearchInv, [SearchNext]_searchVars PROVE Kept
    OBVIOUS
  <2>1. CASE Remove
    <3>1. CauseIn(job)
      BY <2>1 DEF Remove, SearchInv, JobInv, ConcludeInv
    <3> QED
      BY <3>1 DEF CauseIn, Cause, No
  <2>2. CASE Fill
    BY <2>2, FillKeepsPairs
  <2>3. CASE Save
    BY <2>3 DEF Save
  <2>4. CASE links' = links
    BY <2>4
  <2> QED
    BY <2>1, <2>2, <2>3, <2>4, TableChanges
<1> QED
  BY <1>1, SearchInvariant, PTL DEF SearchSpec, RemovalsHaveACause

\* Discovery adds a pair only if one of the two structures it stores has an owner
\* that was allowed at some time of the run.  The one exception: none of the
\* structures whose owners were looked at could be fetched again, and others in
\* the same systems took their places (applyGlobalStructureCandidate,
\* addEndpointFromStructure, resolveSystemStructureIDWithContext).
THEOREM AdditionsAreOurs ==
    SearchSpec => AddedBridgesAreOurs
PROOF
<1> DEFINE Ours(l) == \/ Liked(Owner[l.fromId]) \/ Liked(Owner[l.toId])
                      \/ ~job.calm /\ {l.fromId, l.toId} \cap {job.pair.fromId, job.pair.toId} = {}
<1>1. SearchInv /\ [SearchNext]_searchVars => \A l \in Added : Ours(l)
  <2> SUFFICES ASSUME SearchInv, [SearchNext]_searchVars, NEW l \in Added PROVE Ours(l)
    OBVIOUS
  <2>1. l \in links' /\ \A m \in links : EndsOf(m) # EndsOf(l)
    BY DEF Added
  <2>2. CASE Remove
    BY <2>1, <2>2 DEF Remove
  <2>3. CASE Fill
    BY <2>1, <2>3, FillKeepsPairs
  <2>4. CASE Save
    <3> DEFINE p == job.pair
    <3>1. \/ l.fromId = job.got[1] /\ l.toId = job.got[2]
          \/ l.fromId = job.got[2] /\ l.toId = job.got[1]
      BY <2>1, <2>4 DEF Save
    <3>2. job.at = "save" /\ GotInv(job) /\ ProposeInv(job)
      BY <2>4 DEF Save, SearchInv, JobInv
    <3>3. job.kind = "discover" /\ NoId \notin {job.got[1], job.got[2]}
      BY <3>2 DEF GotInv
    <3>4. /\ p.fromId # NoId \/ p.toId # NoId
          /\ p.fromId # NoId => Liked(Owner[p.fromId])
          /\ p.toId # NoId => Liked(Owner[p.toId])
      BY <3>2, <3>3 DEF ProposeInv, Resolves, Proposal, OfOurs
    <3>5. job.calm => p.fromId \in {NoId, job.got[1]} /\ p.toId \in {NoId, job.got[2]}
      BY <3>2, <3>3 DEF ProposeInv, Resolves
    <3>6. CASE job.calm
      BY <3>1, <3>3, <3>4, <3>5, <3>6
    <3>7. CASE ~job.calm
      BY <3>1, <3>3, <3>4, <3>7
    <3> QED
      BY <3>6, <3>7
  <2>5. CASE links' = links
    BY <2>1, <2>5
  <2> QED
    BY <2>2, <2>3, <2>4, <2>5, TableChanges
<1> QED
  BY <1>1, SearchInvariant, PTL DEF SearchSpec, AddedBridgesAreOurs

-----------------------------------------------------------------------------
(* A validation that nothing disturbed.                                      *)

\* The two numbers of a pair are its lesser and its greater one.
LEMMA MinAndMaxOfTwo ==
    ASSUME NEW a \in Nat, NEW b \in Nat
    PROVE  {Min({a, b}), Max({a, b})} = {a, b}
PROOF
<1>1. ASSUME NEW x \in Nat, NEW y \in Nat, x <= y
      PROVE  Min({x, y}) = x /\ Max({x, y}) = y
  <2>1. \A n \in {x, y} : (\A m \in {x, y} : n <= m) => n = x
    BY <1>1
  <2>2. \A n \in {x, y} : (\A m \in {x, y} : n >= m) => n = y
    BY <1>1
  <2> QED
    BY <1>1, <2>1, <2>2 DEF Min, Max
<1>2. a <= b \/ b <= a
  OBVIOUS
<1>3. {a, b} = {b, a}
  OBVIOUS
<1> QED
  BY <1>1, <1>2, <1>3

\* What an undisturbed validation keeps while it is busy with a pair.
Peaceful(j) == j.kind = "validate" /\ j.calm
Minding(j) ==
    Peaceful(j) =>
        /\ j.picked \subseteq usable
        /\ \A l \in links : EndsOf(l) \in j.todo \/ EndsOf(l) = EndsOf(j.pair)
                            \/ Standing(j.picked, EndsOf(l))
        /\ \A s \in DOMAIN j.cache : j.cache[s] # NoId => j.cache[s] \in Visible(j.picked, s)
        /\ \A i \in {1, 2} : j.got[i] # NoId => j.got[i] \in Visible(j.picked, End(j, i))
        /\ j.pair.fromId \in IdsFor(EndsOf(j.pair), j.pair.from)
        /\ j.pair.toId \in IdsFor(EndsOf(j.pair), j.pair.to)

\* It keeps that when other things about it change.
LEMMA MindingOn ==
    ASSUME NEW j, NEW k, Minding(j), k.kind = j.kind, k.calm => j.calm, k.picked = j.picked,
           k.todo = j.todo, k.pair = j.pair, k.cache = j.cache, k.got = j.got
    PROVE  Minding(k)
PROOF
  BY DEF Minding, Peaceful, End

\* A validation has its pair at hand until the next pair's turn.
LEMMA CalmMinds ==
    ASSUME NEW j, CalmInv(j), j.at # "next"
    PROVE  Minding(j)
PROOF
  BY DEF CalmInv, Minding, Peaceful, AtHand

\* A pair at hand is in peace unless one of four things is special about it.
LEMMA MindsCalm ==
    ASSUME NEW j, Minding(j), j.at # "next",
           Peaceful(j) =>
             /\ j.at = "match" => j.left # {} /\ j.heard
             /\ j.at = "search" /\ ~j.heard => j.left = j.picked
             /\ j.at = "fetch" /\ j.why = "confirm" =>
                  /\ j.side = 2 => j.pair.fromId \in there
                  /\ j.ask \notin there => j.err \in {"none", "gone"}
             /\ j.at = "fill" => NoId \notin {j.got[1], j.got[2]}
    PROVE  CalmInv(j)
PROOF
  BY DEF CalmInv, Minding, Peaceful, AtHand

\* A pair that stands is done.
LEMMA CalmDone ==
    ASSUME NEW j, j \in Jobs(j), Minding(j),
           Peaceful(j) => Standing(j.picked, EndsOf(j.pair))
    PROVE  CalmInv(PairDone(j))
PROOF
<1> DEFINE k == PairDone(j)
<1>1. /\ k.at = "next" /\ k.got = Nothing /\ k.kind = j.kind /\ k.todo = j.todo
      /\ k.picked = j.picked /\ k.calm = j.calm /\ k.cache = j.cache
  BY PairDoneFields
<1> HIDE DEF k
<1>2. \A i \in {1, 2} : k.got[i] = NoId
  BY <1>1, NothingFound
<1>3. CalmInv(k)
  BY <1>1, <1>2 DEF CalmInv, Minding, Peaceful, AtHand
<1> QED
  BY <1>3 DEF k

\* So is one that lacks an id, ...
LEMMA LackingStands ==
    ASSUME NEW j, Minding(j), Peaceful(j), NoId \in {j.pair.fromId, j.pair.toId}
    PROVE  Standing(j.picked, EndsOf(j.pair))
PROOF
<1>1. NoId \in UNION {IdsFor(EndsOf(j.pair), s) : s \in EndsOf(j.pair)}
  BY DEF Minding, EndsOf
<1> QED
  BY <1>1 DEF Standing

\* ...one whose ends have bridges that can be seen, ...
LEMMA FoundStands ==
    ASSUME NEW j, Minding(j), Peaceful(j), NoId \notin {j.got[1], j.got[2]}
    PROVE  Standing(j.picked, EndsOf(j.pair))
PROOF
<1>1. j.got[1] \in Visible(j.picked, j.pair.from) /\ j.got[2] \in Visible(j.picked, j.pair.to)
  BY DEF Minding, End
<1>2. \A s \in EndsOf(j.pair) : Visible(j.picked, s) # {}
  BY <1>1 DEF EndsOf
<1> QED
  BY <1>2 DEF Standing

\* ...and one whose structures are there.
LEMMA ThereStands ==
    ASSUME NEW j, Minding(j), Peaceful(j), j.pair.fromId \in there, j.pair.toId \in there
    PROVE  Standing(j.picked, EndsOf(j.pair))
PROOF
<1>1. \A s \in EndsOf(j.pair) : IdsFor(EndsOf(j.pair), s) \cap there # {}
  BY DEF Minding, EndsOf
<1> QED
  BY <1>1 DEF Standing

\* A structure is asked for.
LEMMA CalmAsks ==
    ASSUME NEW j, NEW why, NEW t, j \in Jobs(j), t \in StructureIds, Minding(j),
           why \in {"none", "prefer", "confirm", "owner", "look", "name"},
           why = "confirm" /\ Peaceful(j) /\ j.side = 2 => j.pair.fromId \in there
    PROVE  CalmInv(AskAll(j, why, t))
PROOF
<1> DEFINE k == AskAll(j, why, t)
<1>1. /\ k.at = "fetch" /\ k.why = why /\ k.ask = t /\ k.err = "none"
      /\ k.kind = j.kind /\ k.todo = j.todo /\ k.picked = j.picked /\ k.calm = j.calm
      /\ k.cache = j.cache /\ k.pair = j.pair /\ k.side = j.side /\ k.got = j.got
  BY AskAllFields
<1> HIDE DEF k
<1>2. Minding(k)
  BY <1>1, MindingOn
<1>3. CalmInv(k)
  BY <1>1, <1>2, MindsCalm DEF Peaceful
<1> QED
  BY <1>3 DEF k

\* No structure is known for an end.
LEMMA CalmUnresolved ==
    ASSUME NEW j, NEW e, j \in Jobs(j), Minding(j), Peaceful(j) => e # "unsure"
    PROVE  CalmInv(EndUnresolved(j, e))
PROOF
<1> DEFINE settled == j.kind = "discover" \/ e = "unsure" \/ NoId \in {j.pair.fromId, j.pair.toId}
<1>1. CASE settled
  <2>1. Peaceful(j) => NoId \in {j.pair.fromId, j.pair.toId}
    BY <1>1 DEF Peaceful
  <2>2. CalmInv(PairDone(j))
    BY <2>1, LackingStands, CalmDone
  <2> QED
    BY <1>1, <2>2 DEF EndUnresolved
<1>2. CASE ~settled
  <2> DEFINE k == [j EXCEPT !.side = 1]
  <2>1. k \in Jobs(k)
    BY DEF Jobs
  <2>2. /\ k.kind = j.kind /\ k.picked = j.picked /\ k.cache = j.cache
        /\ k.calm = j.calm /\ k.todo = j.todo /\ k.pair = j.pair /\ k.got = j.got /\ k.side = 1
    BY DEF Jobs
  <2>3. EndUnresolved(j, e) = AskAll(k, "confirm", j.pair.fromId)
    BY <1>2 DEF EndUnresolved
  <2>4. j.pair.fromId \in StructureIds
    BY DEF Jobs, Between
  <2> HIDE DEF k
  <2>5. Minding(k)
    BY <2>2, MindingOn
  <2> QED
    BY <2>1, <2>2, <2>3, <2>4, <2>5, CalmAsks
<1> QED
  BY <1>1, <1>2

\* An end is resolved.
LEMMA CalmResolved ==
    ASSUME NEW j, NEW t \in StructureIds, j \in Jobs(j), j.kind \in {"validate", "discover"},
           Minding(j), Peaceful(j) /\ t # NoId => t \in Visible(j.picked, Here(j))
    PROVE  CalmInv(Resolved(j, t))
PROOF
<1> DEFINE k == WithFound(j, t)
<1>1. j.side \in {1, 2}
  BY DEF Jobs
<1>a. k = WithFound(j, t)
  OBVIOUS
<1>b. Resolved(j, t) =
        CASE t = NoId -> EndUnresolved(j, "broken")
          [] t # NoId /\ j.side = 1 -> [k EXCEPT !.side = 2, !.at = "end"]
          [] t # NoId /\ j.side = 2 /\ j.kind = "discover" -> [k EXCEPT !.at = "save"]
          [] t # NoId /\ j.side = 2 /\ j.kind = "validate" ->
               AskAll([k EXCEPT !.side = 1], "owner", k.got[1])
  BY DEF Resolved, WithFound
<1> HIDE DEF k
<1>2. /\ k \in Jobs(k)
      /\ k.got[j.side] = t /\ \A i \in {1, 2} : i # j.side => k.got[i] = j.got[i]
      /\ k.kind = j.kind /\ k.picked = j.picked /\ k.cache = j.cache /\ k.calm = j.calm
      /\ k.todo = j.todo /\ k.pair = j.pair /\ k.side = j.side
  BY <1>a, FoundFields
<1>3. t # NoId => Minding(k)
  <2>1. t # NoId /\ Peaceful(k) =>
          \A i \in {1, 2} : k.got[i] # NoId => k.got[i] \in Visible(k.picked, End(k, i))
    BY <1>1, <1>2 DEF Minding, Peaceful, End, Here
  <2> QED
    BY <1>2, <2>1 DEF Minding, Peaceful
<1>4. CASE t = NoId
  <2>1. CalmInv(EndUnresolved(j, "broken"))
    BY CalmUnresolved
  <2> QED
    BY <1>4, <1>b, <2>1
<1>5. CASE t # NoId /\ j.side = 1
  <2> DEFINE m == [k EXCEPT !.side = 2, !.at = "end"]
  <2>1. /\ m.kind = k.kind /\ m.picked = k.picked /\ m.cache = k.cache /\ m.calm = k.calm
        /\ m.todo = k.todo /\ m.pair = k.pair /\ m.got = k.got /\ m.at = "end"
    BY <1>2 DEF Jobs
  <2>2. Resolved(j, t) = m
    BY <1>5, <1>b
  <2> HIDE DEF m
  <2>3. Minding(m)
    BY <1>3, <1>5, <2>1, MindingOn
  <2> QED
    BY <2>1, <2>2, <2>3, MindsCalm
<1>6. CASE t # NoId /\ j.side = 2 /\ j.kind = "discover"
  <2> DEFINE m == [k EXCEPT !.at = "save"]
  <2>1. m.kind = k.kind
    BY <1>2 DEF Jobs
  <2>2. Resolved(j, t) = m
    BY <1>6, <1>b
  <2> HIDE DEF m
  <2> QED
    BY <1>2, <1>6, <2>1, <2>2 DEF CalmInv
<1>7. CASE t # NoId /\ j.side = 2 /\ j.kind = "validate"
  <2> DEFINE m == [k EXCEPT !.side = 1]
  <2>1. m \in Jobs(m)
    BY <1>2 DEF Jobs
  <2>2. /\ m.kind = k.kind /\ m.picked = k.picked /\ m.cache = k.cache /\ m.calm = k.calm
        /\ m.todo = k.todo /\ m.pair = k.pair /\ m.got = k.got /\ m.side = 1
    BY <1>2 DEF Jobs
  <2>3. Resolved(j, t) = AskAll(m, "owner", k.got[1]) /\ k.got[1] \in StructureIds
    BY <1>7, <1>b, <1>2 DEF Jobs
  <2> HIDE DEF m
  <2>4. Minding(m)
    BY <1>3, <1>7, <2>2, MindingOn
  <2> QED
    BY <2>1, <2>2, <2>3, <2>4, CalmAsks
<1> QED
  BY <1>1, <1>4, <1>5, <1>6, <1>7

\* What is found for a system is kept for the run.
LEMMA CalmCaches ==
    ASSUME NEW j, NEW t \in StructureIds, j \in Jobs(j), j.kind \in {"validate", "discover"},
           Minding(j), Peaceful(j) /\ t # NoId => t \in Visible(j.picked, Here(j))
    PROVE  CalmInv(InCache(j, t))
PROOF
<1> DEFINE c == [s \in DOMAIN j.cache \cup {Here(j)} |-> IF s = Here(j) THEN t ELSE j.cache[s]]
           k == [j EXCEPT !.cache = c]
<1>1. InCache(j, t) = Resolved(k, t)
  BY DEF InCache, Jobs
<1>2. Peaceful(j) => \A s \in DOMAIN c : c[s] # NoId => c[s] \in Visible(j.picked, s)
  BY DEF Minding
<1> HIDE DEF c
<1>3. k \in Jobs(k)
  BY DEF Jobs
<1>4. /\ k.kind = j.kind /\ k.picked = j.picked /\ k.cache = c /\ k.calm = j.calm
      /\ k.todo = j.todo /\ k.pair = j.pair /\ k.got = j.got /\ k.side = j.side
  BY DEF Jobs
<1> HIDE DEF k
<1>5. Minding(k) /\ Here(k) = Here(j)
  BY <1>2, <1>4 DEF Minding, Peaceful, End, Here
<1> QED
  BY <1>1, <1>3, <1>4, <1>5, CalmResolved DEF Peaceful

\* What is in the cache counts; otherwise the characters search.
LEMMA CalmFromCache ==
    ASSUME NEW j, Minding(j), Pairing(j)
    PROVE  CalmInv(FromCache(j))
PROOF
<1>1. j \in Jobs(j) /\ Carried(j) /\ j.kind \in {"validate", "discover"}
  BY DEF Pairing, Carried, Jobs
<1>2. CASE Here(j) \in DOMAIN j.cache
  <2>1. j.cache[Here(j)] # NoId => BridgeIn(j.cache[Here(j)], Here(j))
    BY <1>1, <1>2 DEF Carried, Cached
  <2>2. j.cache[Here(j)] \in StructureIds
    BY <2>1, StructureSearchAssumption DEF StructureSearchAssumption, StructureIds, BridgeIn
  <2>3. Peaceful(j) /\ j.cache[Here(j)] # NoId => j.cache[Here(j)] \in Visible(j.picked, Here(j))
    BY <1>2 DEF Minding
  <2> QED
    BY <1>1, <1>2, <2>2, <2>3, CalmResolved DEF FromCache
<1>3. CASE Here(j) \notin DOMAIN j.cache
  <2> DEFINE m == [j EXCEPT !.at = "search", !.left = j.picked, !.err = "none", !.heard = FALSE]
  <2>1. /\ m.kind = j.kind /\ m.picked = j.picked /\ m.cache = j.cache /\ m.calm = j.calm
        /\ m.todo = j.todo /\ m.pair = j.pair /\ m.got = j.got /\ m.at = "search" /\ m.left = m.picked
    BY <1>1 DEF Jobs
  <2>2. FromCache(j) = m
    BY <1>3 DEF FromCache
  <2> HIDE DEF m
  <2>3. Minding(m)
    BY <2>1, MindingOn
  <2> QED
    BY <2>1, <2>2, <2>3, MindsCalm
<1> QED
  BY <1>2, <1>3

\* A verdict on one owner.
LEMMA CalmSaid ==
    ASSUME NEW j, NEW v \in {"yes", "no", "unsure"}, j \in Jobs(j), Minding(j),
           NoId \notin {j.got[1], j.got[2]}
    PROVE  CalmInv(Said(j, v))
PROOF
<1> DEFINE k == WithSaid(j, v)
<1>1. j.side \in {1, 2}
  BY DEF Jobs
<1>a. k = WithSaid(j, v)
  OBVIOUS
<1>b. Said(j, v) =
        CASE j.side = 1 -> AskAll([k EXCEPT !.side = 2], "owner", k.got[2])
          [] j.side = 2 /\ (v = "yes" \/ j.said[1] = "yes") -> [k EXCEPT !.at = "fill"]
          [] j.side = 2 /\ "yes" \notin {v, j.said[1]} ->
               IF "unsure" \in {v, j.said[1]} THEN PairDone(j) ELSE [k EXCEPT !.at = "remove"]
  BY DEF Said, WithSaid
<1> HIDE DEF k
<1>2. /\ k \in Jobs(k)
      /\ k.kind = j.kind /\ k.picked = j.picked /\ k.cache = j.cache /\ k.calm = j.calm
      /\ k.todo = j.todo /\ k.pair = j.pair /\ k.side = j.side /\ k.got = j.got
  BY <1>a, SaidFields
<1>3. Minding(k)
  BY <1>2, MindingOn
<1>4. CASE j.side = 1
  <2> DEFINE m == [k EXCEPT !.side = 2]
  <2>1. m \in Jobs(m) /\ k.got[2] \in StructureIds
    BY <1>2 DEF Jobs
  <2>2. /\ m.kind = k.kind /\ m.picked = k.picked /\ m.cache = k.cache /\ m.calm = k.calm
        /\ m.todo = k.todo /\ m.pair = k.pair /\ m.got = k.got
    BY <1>2 DEF Jobs
  <2>3. Said(j, v) = AskAll(m, "owner", k.got[2])
    BY <1>4, <1>b
  <2> HIDE DEF m
  <2>4. Minding(m)
    BY <1>3, <2>2, MindingOn
  <2> QED
    BY <2>1, <2>3, <2>4, CalmAsks
<1>5. ASSUME NEW at \in {"fill", "remove"}
      PROVE  CalmInv([k EXCEPT !.at = at])
  <2> DEFINE m == [k EXCEPT !.at = at]
  <2>1. /\ m.kind = k.kind /\ m.picked = k.picked /\ m.cache = k.cache /\ m.calm = k.calm
        /\ m.todo = k.todo /\ m.pair = k.pair /\ m.got = k.got /\ m.at = at
    BY <1>2 DEF Jobs
  <2> HIDE DEF m
  <2>2. Minding(m)
    BY <1>3, <2>1, MindingOn
  <2>3. CalmInv(m)
    BY <1>2, <2>1, <2>2, MindsCalm
  <2> QED
    BY <2>3 DEF m
<1>6. CalmInv(PairDone(j))
  BY FoundStands, CalmDone
<1> QED
  BY <1>1, <1>4, <1>5, <1>6, <1>b

\* Whether a structure is gone.
LEMMA CalmConfirmed ==
    ASSUME NEW j, NEW r, j \in Jobs(j), Minding(j), j.ask = StoredId(j),
           Peaceful(j) /\ j.side = 2 => j.pair.fromId \in there,
           Peaceful(j) /\ r # "gone" => j.ask \in there
    PROVE  CalmInv(Confirmed(j, r))
PROOF
<1>1. j.side \in {1, 2} /\ j.pair.toId \in StructureIds
  BY DEF Jobs, Between
<1>2. CASE r = "gone"
  <2> DEFINE m == [j EXCEPT !.at = "remove"]
  <2>1. /\ m.kind = j.kind /\ m.picked = j.picked /\ m.cache = j.cache /\ m.calm = j.calm
        /\ m.todo = j.todo /\ m.pair = j.pair /\ m.got = j.got /\ m.at = "remove"
    BY DEF Jobs
  <2>2. Confirmed(j, r) = m
    BY <1>2 DEF Confirmed
  <2> HIDE DEF m
  <2>3. Minding(m)
    BY <2>1, MindingOn
  <2> QED
    BY <2>1, <2>2, <2>3, MindsCalm
<1>3. CASE r # "gone" /\ j.side = 1
  <2> DEFINE m == [j EXCEPT !.side = 2]
  <2>1. m \in Jobs(m)
    BY DEF Jobs
  <2>2. /\ m.kind = j.kind /\ m.picked = j.picked /\ m.cache = j.cache /\ m.calm = j.calm
        /\ m.todo = j.todo /\ m.pair = j.pair /\ m.got = j.got /\ m.side = 2
    BY DEF Jobs
  <2>3. Confirmed(j, r) = AskAll(m, "confirm", j.pair.toId)
    BY <1>3 DEF Confirmed
  <2> HIDE DEF m
  <2>4. Minding(m)
    BY <2>2, MindingOn
  <2>5. Peaceful(m) => m.pair.fromId \in there
    BY <1>3, <2>2 DEF Peaceful, StoredId
  <2> QED
    BY <1>1, <2>1, <2>3, <2>4, <2>5, CalmAsks
<1>4. CASE r # "gone" /\ j.side = 2
  <2>1. Peaceful(j) => j.pair.fromId \in there /\ j.pair.toId \in there
    BY <1>4 DEF StoredId
  <2>2. CalmInv(PairDone(j))
    BY <2>1, ThereStands, CalmDone
  <2> QED
    BY <1>4, <2>2 DEF Confirmed
<1> QED
  BY <1>1, <1>2, <1>3, <1>4

\* A discovery goes its own ways.
LEMMA CalmNextHit ==
    ASSUME NEW j, j \in Jobs(j), j.kind = "discover"
    PROVE  CalmInv(NextHit(j))
PROOF
<1>1. NextHit(j).kind = "discover"
  BY DEF NextHit, Jobs
<1> QED
  BY <1>1 DEF CalmInv

\* A structure whose owner is looked up.
LEMMA CalmJudge ==
    ASSUME NEW j, j \in Jobs(j), Minding(j)
    PROVE  CalmInv([j EXCEPT !.at = "judge"])
PROOF
<1> DEFINE m == [j EXCEPT !.at = "judge"]
<1>1. /\ m.kind = j.kind /\ m.picked = j.picked /\ m.cache = j.cache /\ m.calm = j.calm
      /\ m.todo = j.todo /\ m.pair = j.pair /\ m.got = j.got /\ m.at = "judge"
  BY DEF Jobs
<1> HIDE DEF m
<1>2. Minding(m)
  BY <1>1, MindingOn
<1>3. CalmInv(m)
  BY <1>1, <1>2, MindsCalm
<1> QED
  BY <1>3 DEF m

\* The answer r to the question of job j.
LEMMA CalmAfterFetch ==
    ASSUME NEW j, NEW r \in {"ok", "unsure", "gone", "broken"}, Asked(j), Minding(j),
           r = "ok" /\ j.calm => Reached(j.ask, j.picked),
           j.why = "confirm" /\ Peaceful(j) =>
             /\ j.side = 2 => j.pair.fromId \in there
             /\ r # "gone" => j.ask \in there
    PROVE  CalmInv(AfterFetch(j, r))
PROOF
<1>1. j \in Jobs(j) /\ j.kind \in {"validate", "discover"}
  BY DEF Asked, Carried, Jobs
<1>2. CASE j.why = "prefer"
  <2>1. Pairing(j)
    BY <1>2, AskedPairing
  <2>2. CASE r = "ok" /\ BridgeIn(j.ask, Here(j))
    <3>1. j.calm => j.ask \in Visible(j.picked, Here(j))
      BY <2>2 DEF Reached, Fact, Visible
    <3>2. j.ask \in StructureIds
      BY <1>1 DEF Jobs
    <3>3. CalmInv(InCache(j, j.ask))
      BY <1>1, <3>1, <3>2, CalmCaches DEF Peaceful
    <3> QED
      BY <1>2, <2>2, <3>3 DEF AfterFetch
  <2>3. CASE ~(r = "ok" /\ BridgeIn(j.ask, Here(j)))
    <3>1. CalmInv(FromCache(j))
      BY <2>1, CalmFromCache
    <3> QED
      BY <1>2, <2>3, <3>1 DEF AfterFetch
  <2> QED
    BY <2>2, <2>3
<1>3. CASE j.why = "confirm"
  <2>1. j.ask = StoredId(j)
    BY <1>3 DEF Asked
  <2>2. CalmInv(Confirmed(j, r))
    BY <1>1, <1>3, <2>1, CalmConfirmed
  <2> QED
    BY <1>3, <2>2 DEF AfterFetch
<1>4. CASE j.why = "owner" /\ r = "ok"
  BY <1>1, <1>4, CalmJudge DEF AfterFetch
<1>5. CASE j.why = "owner" /\ r # "ok"
  <2>1. NoId \notin {j.got[1], j.got[2]}
    BY <1>5 DEF Asked, ConcludeInv
  <2>2. OwnerUnknown(r) \in {"yes", "no", "unsure"}
    BY DEF OwnerUnknown
  <2>3. CalmInv(Said(j, OwnerUnknown(r)))
    BY <1>1, <2>1, <2>2, CalmSaid
  <2> QED
    BY <1>5, <2>3 DEF AfterFetch
<1>6. CASE j.why \in {"look", "name"}
  <2>1. j.kind = "discover"
    BY <1>6 DEF Asked
  <2>2. CalmInv(NextHit(j))
    BY <1>1, <2>1, CalmNextHit
  <2> QED
    BY <1>1, <1>6, <2>2, CalmJudge DEF AfterFetch
<1>7. j.why \in {"prefer", "confirm", "owner", "look", "name"}
  BY <1>1 DEF Asked, Jobs
<1> QED
  BY <1>2, <1>3, <1>4, <1>5, <1>6, <1>7

\* The owner of the structure at hand is allowed or not.
LEMMA CalmJudged ==
    ASSUME NEW j, NEW yes \in BOOLEAN, j \in Jobs(j), Minding(j),
           IF j.why = "owner" THEN NoId \notin {j.got[1], j.got[2]} ELSE j.kind = "discover"
    PROVE  CalmInv(Judged(j, yes))
PROOF
<1>1. CASE j.why = "owner"
  <2>1. Judged(j, yes) = Said(j, IF yes THEN "yes" ELSE "no")
    BY <1>1 DEF Judged
  <2> QED
    BY <1>1, <2>1, CalmSaid
<1>2. CASE j.why # "owner"
  <2>1. Judged(j, yes).kind = "discover"
    BY <1>2 DEF Judged, NextHit, Jobs
  <2> QED
    BY <2>1 DEF CalmInv
<1> QED
  BY <1>1, <1>2

-----------------------------------------------------------------------------
(* Its steps.                                                                *)

\* In the same world and with the same table a calm job is calm.
LEMMA CalmStep ==
    ASSUME NEW k, job' = k, CalmInv(k), UNCHANGED <<links, world>>
    PROVE  CalmInv(job)'
PROOF
<1>1. \A q, s : IdsFor(q, s)' = IdsFor(q, s)
  BY DEF IdsFor, Mentioned, LinksOf
<1>2. \A C, s : Visible(C, s)' = Visible(C, s)
  BY DEF Visible, world
<1>3. \A C, q : Standing(C, q) => Standing(C, q)'
  BY <1>1, <1>2 DEF Standing, world
<1>4. k.kind = "validate" /\ k.calm =>
        \A l \in links : EndsOf(l) \in k.todo \/ AtHand(k, EndsOf(l))
                         \/ Standing(k.picked, EndsOf(l))'
  BY <1>3 DEF CalmInv
<1>5. \A q : AtHand(job, q)' = AtHand(k, q)
  BY DEF AtHand
<1> QED
  BY <1>1, <1>2, <1>4, <1>5 DEF CalmInv, world, End

\* A job that is no validation is none that could be disturbed.
LEMMA CalmOtherwise ==
    ASSUME job'.kind # "validate" \/ ~job'.calm
    PROVE  CalmInv(job)'
PROOF
  BY DEF CalmInv

\* An end is resolved with the stored structure or from the cache.
LEMMA ResolveEndCalm ==
    ASSUME SearchInv, CalmInv(job), ResolveEnd
    PROVE  CalmInv(job)'
PROOF
<1>1. Pairing(job) /\ job \in Jobs(job) /\ Minding(job) /\ UNCHANGED <<links, world>>
  BY Resolving1, CalmMinds DEF ResolveEnd, Ending, Pairing, Carried
<1>2. CASE StoredId(job) # NoId
  <2>1. StoredId(job) \in StructureIds
    BY <1>1 DEF Jobs, Between, StoredId
  <2>2. CalmInv(AskAll(job, "prefer", StoredId(job)))
    BY <1>1, <2>1, CalmAsks
  <2> QED
    BY <1>1, <1>2, <2>2, CalmStep DEF ResolveEnd
<1>3. CASE StoredId(job) = NoId
  BY <1>1, <1>3, CalmFromCache, CalmStep DEF ResolveEnd
<1> QED
  BY <1>2, <1>3

\* The first of a run's characters that are left, and a calm run's tokens.
LEMMA FirstLeft ==
    ASSUME job \in Jobs(job), job.left # {}
    PROVE  Min(job.left) \in job.left /\ Min(job.left) \in job.picked
PROOF
<1>1. job.left \subseteq job.picked /\ job.picked \subseteq Characters
  BY DEF Jobs
<1>2. job.left \in SUBSET Nat
  BY <1>1, StructureSearchAssumption DEF StructureSearchAssumption
<1> QED
  BY <1>1, <1>2, MinOf

\* A character's search for a system is answered: in peace it succeeds.
LEMMA SearchCalm ==
    ASSUME SearchInv, CalmInv(job), Search
    PROVE  CalmInv(job)'
PROOF
<1> DEFINE c == Min(job.left)
           T == {t \in Structures : Here(job) \in SystemsOf(t)}
<1>1. /\ Pairing(job) /\ job \in Jobs(job) /\ Minding(job) /\ UNCHANGED <<links, world>>
      /\ job.at = "search" /\ job.left # {} /\ SearchSays(job, c, T)
  BY Resolving1, CalmMinds DEF Search, Ending, Pairing, Carried
<1>2. c \in job.left /\ c \in job.picked
  BY <1>1, FirstLeft
<1>3. ASSUME NEW S, job' = AfterSearch(c, S)
      PROVE  CalmInv(job)'
  <2> DEFINE m == [job EXCEPT !.at = "match", !.heard = TRUE, !.hits = S]
  <2>1. /\ m.kind = job.kind /\ m.picked = job.picked /\ m.cache = job.cache /\ m.calm = job.calm
        /\ m.todo = job.todo /\ m.pair = job.pair /\ m.got = job.got /\ m.at = "match"
        /\ m.left = job.left /\ m.heard
    BY <1>1 DEF Jobs
  <2>2. job' = m
    BY <1>1, <1>3 DEF AfterSearch
  <2> HIDE DEF m
  <2>3. Minding(m)
    BY <1>1, <2>1, MindingOn
  <2>4. CalmInv(m)
    BY <1>1, <2>1, <2>3, MindsCalm
  <2> QED
    BY <1>1, <2>2, <2>4, CalmStep
<1>4. ASSUME NEW a \in {"unsure", "broken"}, NEW fact, fact = IF c \in usable THEN "ok" ELSE "unsure",
             job' = AfterError(job, a, fact, c)
      PROVE  CalmInv(job)'
  <2>1. job'.kind = job.kind /\ job'.calm = (job.calm /\ a = fact)
    BY <1>1, <1>4, AfterErrorFields
  <2>2. job.kind = "validate" /\ job.calm => fact = "ok"
    BY <1>2, <1>4 DEF CalmInv
  <2> QED
    BY <1>4, <2>1, <2>2, CalmOtherwise
<1> QED
  BY <1>1, <1>3, <1>4 DEF SearchSays, AfterError

\* A structure found is a bridge in the system that can be seen, or the next is tried.
LEMMA MatchCalm ==
    ASSUME SearchInv, CalmInv(job), NEW t, Match(t)
    PROVE  CalmInv(job)'
PROOF
<1> DEFINE c == Min(job.left)
           fact == Fact(c, t)
<1>1. /\ Pairing(job) /\ job \in Jobs(job) /\ Minding(job) /\ UNCHANGED <<links, world>>
      /\ job.at = "match" /\ t \in job.hits
  BY Resolving1, CalmMinds DEF Match, Ending, Pairing, Carried
<1>2. Peaceful(job) => job.left # {} /\ job.heard
  BY <1>1 DEF CalmInv, Peaceful
<1>3. Peaceful(job) => c \in job.picked
  BY <1>1, <1>2, FirstLeft
<1>4. PICK a \in {fact, "unsure", "broken"} :
        job' = IF a = "ok" /\ BridgeIn(t, Here(Told(job, a, fact))) THEN InCache(Told(job, a, fact), t)
               ELSE [Told(job, a, fact) EXCEPT !.hits = @ \ {t}]
  BY DEF Match, Told, Here
<1>5. Peaceful(job) /\ a = "ok" => t \in there /\ <<c, t>> \in sees
  BY DEF Fact
<1> HIDE DEF fact, c
<1> DEFINE j == Told(job, a, fact)
<1>a. j = Told(job, a, fact)
  OBVIOUS
<1>b. job' = IF a = "ok" /\ BridgeIn(t, Here(j)) THEN InCache(j, t) ELSE [j EXCEPT !.hits = @ \ {t}]
  BY <1>4
<1>c. j.left = job.left /\ j.heard = job.heard
  BY <1>1 DEF Told, Jobs
<1> HIDE DEF j
<1>6. /\ j \in Jobs(j) /\ (j.calm => job.calm)
      /\ j.kind = job.kind /\ j.picked = job.picked /\ j.cache = job.cache /\ j.todo = job.todo
      /\ j.pair = job.pair /\ j.side = job.side /\ j.got = job.got /\ j.at = job.at
  <2>1. /\ j \in Jobs(j) /\ j.calm = (job.calm /\ a = fact)
        /\ j.kind = job.kind /\ j.picked = job.picked /\ j.cache = job.cache /\ j.todo = job.todo
        /\ j.pair = job.pair /\ j.side = job.side /\ j.got = job.got /\ j.at = job.at
    BY <1>1, <1>a, ToldFields
  <2> QED
    BY <2>1
<1>7. Minding(j) /\ Here(j) = Here(job)
  BY <1>1, <1>6, MindingOn DEF Here
<1>8. t \in StructureIds /\ j.kind \in {"validate", "discover"}
  BY <1>1, <1>6 DEF Jobs, StructureIds, Pairing, Carried
<1>9. CASE a = "ok" /\ BridgeIn(t, Here(j))
  <2>1. Peaceful(j) => t \in Visible(j.picked, Here(j))
    BY <1>3, <1>5, <1>6, <1>9 DEF Visible, Peaceful
  <2>2. CalmInv(InCache(j, t))
    BY <1>6, <1>7, <1>8, <2>1, CalmCaches
  <2> QED
    BY <1>1, <1>b, <1>9, <2>2, CalmStep
<1>10. CASE ~(a = "ok" /\ BridgeIn(t, Here(j)))
  <2> DEFINE m == [j EXCEPT !.hits = @ \ {t}]
  <2>1. /\ m.kind = j.kind /\ m.picked = j.picked /\ m.cache = j.cache /\ m.calm = j.calm
        /\ m.todo = j.todo /\ m.pair = j.pair /\ m.got = j.got /\ m.at = "match"
        /\ m.left = j.left /\ m.heard = j.heard
    BY <1>1, <1>6 DEF Jobs
  <2>2. job' = m
    BY <1>b, <1>10
  <2> HIDE DEF m
  <2>3. Minding(m)
    BY <1>7, <2>1, MindingOn
  <2>4. CalmInv(m)
    BY <1>2, <1>6, <1>c, <2>1, <2>3, MindsCalm DEF Peaceful
  <2> QED
    BY <1>1, <2>2, <2>4, CalmStep
<1> QED
  BY <1>9, <1>10

\* The next character searches; somebody's search has succeeded.
LEMMA NoMatchCalm ==
    ASSUME SearchInv, CalmInv(job), NoMatch
    PROVE  CalmInv(job)'
PROOF
<1>1. /\ job \in Jobs(job) /\ Minding(job) /\ UNCHANGED <<links, world>> /\ job.at = "match"
  BY Resolving1, CalmMinds DEF NoMatch, Ending, Pairing, Carried
<1>2. Peaceful(job) => job.heard
  BY <1>1 DEF CalmInv, Peaceful
<1> DEFINE m == [job EXCEPT !.at = "search", !.left = @ \ {Min(@)}]
<1>3. /\ m.kind = job.kind /\ m.picked = job.picked /\ m.cache = job.cache /\ m.calm = job.calm
      /\ m.todo = job.todo /\ m.pair = job.pair /\ m.got = job.got /\ m.at = "search"
      /\ m.heard = job.heard
  BY <1>1 DEF Jobs
<1>4. job' = m
  BY DEF NoMatch
<1> HIDE DEF m
<1>5. Minding(m)
  BY <1>1, <1>3, MindingOn
<1>6. CalmInv(m)
  BY <1>2, <1>3, <1>5, MindsCalm DEF Peaceful
<1> QED
  BY <1>1, <1>4, <1>6, CalmStep

\* Everybody has searched for the system, in peace with success.
LEMMA SearchEndsCalm ==
    ASSUME SearchInv, CalmInv(job), SearchEnds
    PROVE  CalmInv(job)'
PROOF
<1>1. /\ Pairing(job) /\ Carried(job) /\ job \in Jobs(job) /\ Minding(job)
      /\ UNCHANGED <<links, world>> /\ job.at = "search" /\ job.left = {}
  BY Resolving1, CalmMinds DEF SearchEnds, Ending, Pairing, Carried
<1>2. Peaceful(job) => job.heard
  BY <1>1 DEF CalmInv, Peaceful, Carried
<1>3. CASE ~job.heard /\ job.err # "none"
  <2>1. CalmInv(EndUnresolved(job, job.err))
    BY <1>1, <1>2, <1>3, CalmUnresolved
  <2> QED
    BY <1>1, <1>3, <2>1, CalmStep DEF SearchEnds
<1>4. CASE ~(~job.heard /\ job.err # "none")
  <2>1. NoId \in StructureIds /\ job.kind \in {"validate", "discover"}
    BY <1>1 DEF StructureIds, Jobs, Carried
  <2>2. CalmInv(InCache(job, NoId))
    BY <1>1, <2>1, CalmCaches
  <2> QED
    BY <1>1, <1>4, <2>2, CalmStep DEF SearchEnds
<1> QED
  BY <1>3, <1>4

\* A structure is fetched: in peace it is gone if and only if everybody is told so.
LEMMA FetchCalm ==
    ASSUME SearchInv, CalmInv(job), Fetch
    PROVE  CalmInv(job)'
PROOF
<1> DEFINE c == Min(job.left)
           fact == Fact(c, job.ask)
<1>1. /\ Good(job) /\ job \in Jobs(job) /\ Carried(job) /\ Minding(job)
      /\ job.at = "fetch" /\ UNCHANGED <<links, world>>
  BY Running, CalmMinds DEF Fetch, Good
<1>2. Asked(job)
  BY <1>1 DEF Asked, Good, JobInv, AskInv, ProposeInv, Resolves, Prefers
<1>3. c \in job.left /\ c \in job.picked
  BY <1>1, FirstLeft DEF Good, JobInv, AskInv
<1>4. /\ fact \in {"ok", "unsure", "gone"}
      /\ fact = "ok" => Reached(job.ask, job.picked) /\ job.ask \in there
      /\ Peaceful(job) /\ job.ask \notin there => fact = "gone"
  BY <1>1, <1>3 DEF Fact, Reached, Minding
<1>5. job.why = "confirm" /\ Peaceful(job) =>
        /\ job.side = 2 => job.pair.fromId \in there
        /\ job.ask \notin there => job.err \in {"none", "gone"}
  BY <1>1 DEF CalmInv, Peaceful
<1>6. PICK a \in {fact, "unsure", "broken"} :
        job' = LET e == IF job.err = "none" THEN a ELSE job.err
                   j == [Told(job, a, fact) EXCEPT !.left = @ \ {c}, !.err = e] IN
               CASE a = "ok" -> AfterFetch(job, "ok")
                 [] a # "ok" /\ j.left = {} -> AfterFetch(j, e)
                 [] a # "ok" /\ j.left # {} -> j
  BY DEF Fetch
<1>7. CASE a = "ok"
  <2>1. fact = "ok"
    BY <1>7
  <2>2. CalmInv(AfterFetch(job, "ok"))
    BY <1>1, <1>2, <1>4, <1>5, <2>1, CalmAfterFetch
  <2> QED
    BY <1>1, <1>6, <1>7, <2>2, CalmStep
<1>8. CASE a # "ok"
  <2> DEFINE m == AfterError(job, a, fact, c)
  <2>a. m = AfterError(job, a, fact, c)
    OBVIOUS
  <2>1. a \in {"unsure", "gone", "broken"}
    BY <1>4, <1>8
  <2>b. job' = IF m.left = {} THEN AfterFetch(m, m.err) ELSE m
    <3> DEFINE e == IF job.err = "none" THEN a ELSE job.err
               t == Told(job, a, fact)
    <3>1. m = [t EXCEPT !.left = @ \ {c}, !.err = e] /\ m.err = e
      <4>1. t \in Jobs(t) /\ t.err = job.err
        BY <1>1, ToldFields
      <4> QED
        BY <4>1 DEF AfterError, Jobs
    <3> QED
      BY <1>6, <1>8, <3>1
  <2> HIDE DEF m, fact, c
  <2>2. /\ m \in Jobs(m)
        /\ m.calm = (job.calm /\ a = fact) /\ m.bad = (job.bad \/ a = "broken")
        /\ m.left = job.left \ {c} /\ m.err = (IF job.err = "none" THEN a ELSE job.err)
        /\ m.kind = job.kind /\ m.firm = job.firm /\ m.picked = job.picked /\ m.found = job.found
        /\ m.cache = job.cache /\ m.todo = job.todo /\ m.pair = job.pair
        /\ m.side = job.side /\ m.why = job.why /\ m.got = job.got /\ m.at = job.at
        /\ m.ask = job.ask /\ m.rest = job.rest /\ m.finders = job.finders /\ m.said = job.said
    BY <1>1, <2>1, <2>a, AfterErrorFields
  <2>3. m.err \in {"unsure", "gone", "broken"} /\ (m.err = "broken" => m.bad)
    BY <1>1, <2>1, <2>2 DEF Jobs, Carried
  <2>4. m.calm => job.calm /\ a = fact
    BY <2>2
  <2>5. Asked(m)
    BY <1>2, <2>2, <2>3, <2>4, WaitGood
  <2>6. Minding(m)
    BY <1>1, <2>2, <2>4, MindingOn
  <2>7. m.why = "confirm" /\ Peaceful(m) =>
          /\ m.side = 2 => m.pair.fromId \in there
          /\ m.ask \notin there => m.err = "gone"
    BY <1>4, <1>5, <2>2, <2>4 DEF Peaceful
  <2>8. CASE m.left = {}
    <3>1. CalmInv(AfterFetch(m, m.err))
      BY <2>3, <2>5, <2>6, <2>7, CalmAfterFetch
    <3> QED
      BY <1>1, <2>b, <2>8, <3>1, CalmStep
  <2>9. CASE m.left # {}
    <3>1. CalmInv(m)
      BY <1>1, <2>2, <2>6, <2>7, MindsCalm
    <3> QED
      BY <1>1, <2>b, <2>9, <3>1, CalmStep
  <2> QED
    BY <2>8, <2>9
<1> QED
  BY <1>7, <1>8

\* A verdict on the owner, with what was learnt.
LEMMA VerdictCalm ==
    ASSUME SearchInv, CalmInv(job), job.at = "judge", NEW m, NEW yes \in BOOLEAN,
           Informed(m), job' = Judged(m, yes), UNCHANGED <<links, world>>
    PROVE  CalmInv(job)'
PROOF
<1>1. Good(job) /\ Minding(job)
  BY Running, CalmMinds
<1>2. IF job.why = "owner" THEN NoId \notin {job.got[1], job.got[2]} ELSE job.kind = "discover"
  BY <1>1 DEF Good, JobInv, AskInv, ConcludeInv, ProposeInv
<1>3. m \in Jobs(m) /\ Minding(m)
  BY <1>1, MindingOn DEF Informed
<1>4. CalmInv(Judged(m, yes))
  BY <1>2, <1>3, CalmJudged DEF Informed
<1> QED
  BY <1>4, CalmStep

\* The same with what was noted of the owner.
LEMMA NotedCalm ==
    ASSUME SearchInv, CalmInv(job), job.at = "judge", NEW t, NEW o \in Corps,
           NEW v \in Alliances \cup {"unset"}, NEW yes \in BOOLEAN,
           Informed(t), job' = Judged(WithFirm(t, o, v), yes), UNCHANGED <<links, world>>
    PROVE  CalmInv(job)'
PROOF
<1> DEFINE m == WithFirm(t, o, v)
<1>a. m = WithFirm(t, o, v) /\ job' = Judged(m, yes) /\ t \in Jobs(t)
  BY DEF Informed
<1> HIDE DEF m
<1>1. /\ m \in Jobs(m) /\ m.firm = [t.firm EXCEPT ![o] = v]
      /\ m.kind = t.kind /\ m.picked = t.picked /\ m.found = t.found
      /\ m.cache = t.cache /\ m.todo = t.todo /\ m.pair = t.pair /\ m.why = t.why
      /\ m.got = t.got /\ m.side = t.side /\ m.said = t.said /\ m.finders = t.finders
      /\ m.err = t.err /\ m.ask = t.ask /\ m.rest = t.rest
      /\ m.calm = t.calm /\ m.bad = t.bad
  BY <1>a, InformedFields
<1>2. Informed(m)
  BY <1>1 DEF Informed
<1> QED
  BY <1>a, <1>2, VerdictCalm

\* The owner is judged.
LEMMA JudgingCalm ==
    ASSUME SearchInv, CalmInv(job), Judging
    PROVE  CalmInv(job)'
PROOF
<1> DEFINE o == Owner[job.ask]
           v == IF job.firm[o] # "unset" THEN job.firm[o] ELSE known[o]
<1>1. job.at = "judge" /\ UNCHANGED <<links, world>>
  BY DEF Judging, JudgeKnown, JudgeAsked, JudgeFails
<1>2. /\ job \in Jobs(job) /\ Informed(job) /\ o \in Corps /\ alliance[o] \in Alliances
      /\ job.firm[o] \in Alliances \cup {"unset"}
  BY <1>1, OwnerKnown
<1>3. CASE JudgeKnown
  <2>1. \/ job' = Judged(job, TRUE)
        \/ v \in {"friend", "foe"} /\ job' = Judged(WithFirm(job, o, v), v = "friend")
    BY <1>3 DEF JudgeKnown, WithFirm
  <2> HIDE DEF v, o
  <2>2. CASE job' = Judged(job, TRUE)
    BY <1>1, <1>2, <2>2, VerdictCalm
  <2>3. CASE v \in {"friend", "foe"} /\ job' = Judged(WithFirm(job, o, v), v = "friend")
    <3> DEFINE yes == v = "friend"
    <3>1. /\ yes \in BOOLEAN /\ job' = Judged(WithFirm(job, o, v), yes)
          /\ v \in Alliances \cup {"unset"}
      BY <2>3 DEF Alliances
    <3> HIDE DEF yes
    <3> QED
      BY <1>1, <1>2, <3>1, NotedCalm
  <2> QED
    BY <2>1, <2>2, <2>3
<1>4. CASE JudgeAsked
  <2> DEFINE yes == alliance[o] = "friend"
             w == alliance[o]
  <2>1. /\ yes \in BOOLEAN /\ job' = Judged(WithFirm(job, o, w), yes)
        /\ w \in Alliances \cup {"unset"}
    BY <1>2, <1>4 DEF JudgeAsked, WithFirm
  <2> HIDE DEF yes, w, o
  <2> QED
    BY <1>1, <1>2, <2>1, NotedCalm
<1>5. CASE JudgeFails
  <2> DEFINE a == "broken"
             fact == "ok"
             t == Told(job, a, fact)
             w == IF v = "none" THEN v ELSE t.firm[o]
  <2>1. job' = Judged(WithFirm(t, o, w), FALSE)
    BY <1>5 DEF JudgeFails, WithFirm
  <2>a. t = Told(job, a, fact)
    OBVIOUS
  <2> HIDE DEF t, a, fact
  <2>2. /\ t \in Jobs(t)
        /\ t.calm = (job.calm /\ a = fact) /\ t.bad = (job.bad \/ a = "broken")
        /\ t.kind = job.kind /\ t.firm = job.firm /\ t.picked = job.picked /\ t.found = job.found
        /\ t.cache = job.cache /\ t.err = job.err /\ t.todo = job.todo /\ t.pair = job.pair
        /\ t.side = job.side /\ t.why = job.why /\ t.got = job.got
        /\ t.ask = job.ask /\ t.rest = job.rest /\ t.finders = job.finders /\ t.said = job.said
    BY <1>2, <2>a, ToldFields
  <2>3. Informed(t)
    BY <2>2 DEF Informed
  <2>4. w \in Alliances \cup {"unset"}
    BY <1>2, <2>2 DEF Alliances
  <2> HIDE DEF w, v, o
  <2> QED
    BY <1>1, <1>2, <2>1, <2>3, <2>4, NotedCalm
<1> QED
  BY <1>3, <1>4, <1>5 DEF Judging

\* A validation begins with tokens that work and every pair to do.
LEMMA BeginValidationCalm ==
    ASSUME SearchInv, BeginValidation
    PROVE  CalmInv(job)'
PROOF
<1> DEFINE f == Fresh("validate", "next", Picked)
           E == {EndsOf(l) : l \in links}
           k == [f EXCEPT !.todo = E]
<1>1. Picked \subseteq usable
  <2> SUFFICES ASSUME NEW o \in Orgs, \E c \in usable : o \in Serves[c]
               PROVE  Min({c \in usable : o \in Serves[c]}) \in usable
    BY DEF Picked
  <2> DEFINE T == {c \in usable : o \in Serves[c]}
  <2>1. T \subseteq Characters /\ T # {}
    BY DEF SearchInv, SearchTypes
  <2>2. T \in SUBSET Nat
    BY <2>1, StructureSearchAssumption DEF StructureSearchAssumption
  <2> HIDE DEF T
  <2>3. Min(T) \in T
    BY <2>1, <2>2, MinOf
  <2> QED
    BY <2>3 DEF T
<1>2. /\ f \in Jobs(f) /\ f.kind = "validate" /\ f.at = "next" /\ f.picked = Picked
      /\ f.got = Nothing /\ f.cache = <<>>
  <2>1. Picked \in SUBSET Characters
    BY PickedTyped DEF SearchInv
  <2> QED
    BY <2>1, FreshTyped DEF Asking
<1>3. job' = k /\ UNCHANGED <<links, world>>
  BY DEF BeginValidation, BeginRun
<1> HIDE DEF f
<1>4. /\ k.kind = "validate" /\ k.at = "next" /\ k.todo = E /\ k.picked = Picked
      /\ k.got = Nothing /\ k.cache = <<>>
  BY <1>2 DEF Jobs
<1> HIDE DEF k
<1>5. CalmInv(k)
  BY <1>1, <1>4, NothingFound DEF CalmInv, AtHand
<1> QED
  BY <1>3, <1>5, CalmStep

\* The next pair has its turn, with ids that its rows have.
LEMMA NextPairCalm ==
    ASSUME SearchInv, CalmInv(job), NEW k, NextPair(k)
    PROVE  CalmInv(job)'
PROOF
<1>1. /\ job.kind = "validate" /\ job.at = "next" /\ k \in job.todo /\ UNCHANGED <<links, world>>
  BY DEF NextPair
<1>2. Good(job) /\ job \in Jobs(job) /\ job.got = Nothing
  BY <1>1, Running DEF Good, JobInv, GotInv, Asking
<1>3. PICK f \in IdsFor(k, Min(k)), t \in IdsFor(k, Max(k)) :
         job' = [job EXCEPT !.at = "end", !.todo = @ \ {k},
                            !.pair = [from |-> Min(k), to |-> Max(k), fromId |-> f, toId |-> t]]
  BY DEF NextPair
<1>4. k = {Min(k), Max(k)}
  <2>1. PICK a, b \in SolarSystems : k = {a, b}
    BY <1>1, <1>2 DEF Good, JobInv, TodoInv
  <2>2. a \in Nat /\ b \in Nat
    BY StructureSearchAssumption DEF StructureSearchAssumption
  <2> QED
    BY <2>1, <2>2, MinAndMaxOfTwo
<1> DEFINE p == [from |-> Min(k), to |-> Max(k), fromId |-> f, toId |-> t]
           T == job.todo \ {k}
           m == [job EXCEPT !.at = "end", !.todo = T, !.pair = p]
<1>5. /\ EndsOf(p) = k
      /\ p.fromId \in IdsFor(EndsOf(p), p.from) /\ p.toId \in IdsFor(EndsOf(p), p.to)
  BY <1>4 DEF EndsOf
<1>6. job' = m
  BY <1>3
<1> HIDE DEF p
<1>7. /\ m.kind = job.kind /\ m.picked = job.picked /\ m.cache = job.cache /\ m.calm = job.calm
      /\ m.todo = T /\ m.pair = p /\ m.got = job.got /\ m.at = "end"
  BY <1>2 DEF Jobs
<1> HIDE DEF m
<1>8. Minding(m)
  <2>1. job.calm => \A l \in links : EndsOf(l) \in T \/ EndsOf(l) = k
                                     \/ Standing(job.picked, EndsOf(l))
    BY <1>1 DEF CalmInv, AtHand
  <2>2. \A i \in {1, 2} : m.got[i] = NoId
    BY <1>2, <1>7, NothingFound
  <2> QED
    BY <1>5, <1>7, <2>1, <2>2 DEF Minding, Peaceful, CalmInv
<1>9. CalmInv(m)
  BY <1>7, <1>8, MindsCalm
<1> QED
  BY <1>1, <1>6, <1>9, CalmStep

\* The rows of the pair at hand are changed, and the pair is done.
LEMMA CalmTable ==
    ASSUME NEW k, k \in Jobs(k), Minding(k), job' = PairDone(k), UNCHANGED world,
           Peaceful(k) =>
             /\ \A q : q # EndsOf(k.pair) => LinksOf(q)' = LinksOf(q)
             /\ \A l \in links' : EndsOf(l) = EndsOf(k.pair) =>
                  \A s \in EndsOf(l) : Visible(k.picked, s) # {}
    PROVE  CalmInv(job)'
PROOF
<1>1. /\ job'.at = "next" /\ job'.got = Nothing /\ job'.kind = k.kind /\ job'.todo = k.todo
      /\ job'.picked = k.picked /\ job'.calm = k.calm /\ job'.cache = k.cache
  BY PairDoneFields
<1>2. \A C, s : Visible(C, s)' = Visible(C, s)
  BY DEF Visible, world
<1>3. SUFFICES ASSUME Peaceful(k) PROVE CalmInv(job)'
  BY <1>1 DEF Peaceful, CalmInv
<1>4. ASSUME NEW l \in links' PROVE EndsOf(l) \in k.todo \/ Standing(k.picked, EndsOf(l))'
  <2>1. CASE EndsOf(l) = EndsOf(k.pair)
    BY <1>2, <1>3, <2>1 DEF Standing
  <2>2. CASE EndsOf(l) # EndsOf(k.pair)
    <3>1. LinksOf(EndsOf(l))' = LinksOf(EndsOf(l))
      BY <1>3, <2>2
    <3>2. \A s : IdsFor(EndsOf(l), s)' = IdsFor(EndsOf(l), s)
      BY <3>1 DEF IdsFor, Mentioned
    <3>3. l \in links
      BY <3>1 DEF LinksOf
    <3>4. EndsOf(l) \in k.todo \/ Standing(k.picked, EndsOf(l))
      BY <1>3, <2>2, <3>3 DEF Minding
    <3> QED
      BY <1>2, <3>2, <3>4 DEF Standing, world
  <2> QED
    BY <2>1, <2>2
<1>5. \A i \in {1, 2} : job'.got[i] = NoId
  BY <1>1, NothingFound
<1>6. k.picked \subseteq usable'
  BY <1>3 DEF Minding, world
<1>7. \A s \in DOMAIN k.cache : k.cache[s] # NoId => k.cache[s] \in Visible(k.picked, s)'
  BY <1>2, <1>3 DEF Minding
<1> QED
  BY <1>1, <1>4, <1>5, <1>6, <1>7 DEF CalmInv

\* A run whose failure leaves nothing to do is no calm one.
LEMMA FailureTold ==
    ASSUME NEW j, NEW fact, fact # "broken", j \in Jobs(j), NEW T, T \in {{}, j.todo},
           NEW k, k = [Told(j, "broken", fact) EXCEPT !.todo = T]
    PROVE  PairDone(k).calm = FALSE
PROOF
<1> DEFINE x == j.calm /\ "broken" = fact
<1>1. x = FALSE
  OBVIOUS
<1>2. PairDone(k).calm = x
  BY DEF Told, PairDone, Jobs
<1> QED
  BY <1>1, <1>2

\* A pair is removed with both of its rows, or the validation ends disturbed.
LEMMA RemoveCalm ==
    ASSUME SearchInv, CalmInv(job), Remove
    PROVE  CalmInv(job)'
PROOF
<1>1. job \in Jobs(job) /\ Minding(job) /\ UNCHANGED world
  BY Concluding, CalmMinds DEF Remove
<1>2. CASE links' = links \ LinksOf(EndsOf(job.pair)) /\ job' = PairDone(job)
  <2>1. \A l \in links' : EndsOf(l) # EndsOf(job.pair)
    BY <1>2 DEF LinksOf
  <2>2. \A q : q # EndsOf(job.pair) => LinksOf(q)' = LinksOf(q)
    BY <1>2 DEF LinksOf
  <2> QED
    BY <1>1, <1>2, <2>1, <2>2, CalmTable
<1>3. CASE job' = PairDone([Told(job, "broken", "ok") EXCEPT !.todo = {}])
  <2>1. job'.calm = FALSE
    BY <1>1, <1>3, FailureTold
  <2> QED
    BY <2>1, CalmOtherwise
<1> QED
  BY <1>2, <1>3 DEF Remove

\* Missing ids are filled in: bridges can be seen at both ends of the pair.
LEMMA FillCalm ==
    ASSUME SearchInv, CalmInv(job), Fill
    PROVE  CalmInv(job)'
PROOF
<1> DEFINE q == EndsOf(job.pair)
<1>1. job \in Jobs(job) /\ Minding(job) /\ UNCHANGED world /\ GotIds(job) /\ job.at = "fill"
  BY Concluding, CalmMinds DEF Fill
<1>2. PICK R \in SUBSET LinksOf(q) :
         LET said == IF R = LinksOf(q) THEN "ok" ELSE "broken"
             j == Told(job, said, "ok") IN
         /\ links' = (links \ R) \cup {Filled(l) : l \in R}
         /\ job' = PairDone(IF said = "ok" \/ j.kind = "discover" THEN j ELSE [j EXCEPT !.todo = {}])
  BY DEF Fill
<1>3. links' = (links \ R) \cup {Filled(l) : l \in R}
  BY <1>2
<1>4. \A l \in R : EndsOf(l) = q /\ EndsOf(Filled(l)) = q
  BY <1>1, FilledIn DEF LinksOf, SearchInv, SearchTypes, IdsAreOfTheirSystems
<1>5. \A p : p # q => LinksOf(p)' = LinksOf(p)
  BY <1>3, <1>4 DEF LinksOf
<1>6. Peaceful(job) => \A s \in q : Visible(job.picked, s) # {}
  <2> SUFFICES ASSUME Peaceful(job) PROVE \A s \in q : Visible(job.picked, s) # {}
    OBVIOUS
  <2>1. NoId \notin {job.got[1], job.got[2]}
    BY <1>1 DEF CalmInv, Peaceful
  <2>2. /\ job.got[1] \in Visible(job.picked, job.pair.from)
        /\ job.got[2] \in Visible(job.picked, job.pair.to)
    BY <1>1, <2>1 DEF Minding, End
  <2> QED
    BY <2>2 DEF EndsOf
<1>7. CASE R = LinksOf(q)
  <2> DEFINE k == Told(job, "ok", "ok")
  <2>1. job' = PairDone(k)
    BY <1>2, <1>7
  <2>2. /\ k \in Jobs(k) /\ k.kind = job.kind /\ k.picked = job.picked
        /\ k.cache = job.cache /\ k.todo = job.todo /\ k.pair = job.pair /\ k.got = job.got
    BY <1>1, ToldFields
  <2>3. k.calm = job.calm
    <3>1. k.calm = (job.calm /\ "ok" = "ok") /\ job.calm \in BOOLEAN
      BY <1>1 DEF Told, Jobs
    <3> QED
      BY <3>1
  <2> HIDE DEF k
  <2>4. Minding(k)
    BY <1>1, <2>2, <2>3, MindingOn
  <2>5. Peaceful(k) =>
          /\ \A p : p # EndsOf(k.pair) => LinksOf(p)' = LinksOf(p)
          /\ \A l \in links' : EndsOf(l) = EndsOf(k.pair) =>
               \A s \in EndsOf(l) : Visible(k.picked, s) # {}
    BY <1>5, <1>6, <2>2, <2>3 DEF Peaceful
  <2> QED
    BY <1>1, <2>1, <2>2, <2>4, <2>5, CalmTable
<1>8. CASE R # LinksOf(q)
  <2> DEFINE j == Told(job, "broken", "ok")
  <2>1. job' = PairDone(IF j.kind = "discover" THEN j ELSE [j EXCEPT !.todo = {}])
    BY <1>2, <1>8
  <2>2. j.todo = job.todo /\ j = [j EXCEPT !.todo = j.todo]
    <3>1. j \in Jobs(j) /\ j.todo = job.todo
      BY <1>1, ToldFields
    <3> HIDE DEF j
    <3> QED
      BY <3>1 DEF Jobs
  <2>3. PICK T \in {{}, job.todo} : job' = PairDone([j EXCEPT !.todo = T])
    BY <2>1, <2>2
  <2>4. job'.calm = FALSE
    BY <1>1, <2>3, FailureTold
  <2> QED
    BY <2>4, CalmOtherwise
<1> QED
  BY <1>7, <1>8

\* A run ends and leaves no job.
LEMMA RunEndsCalm ==
    ASSUME RunEnds
    PROVE  CalmInv(job)'
PROOF
<1>1. job'.kind = "none"
  BY DEF RunEnds, NoJob, Fresh
<1> QED
  BY <1>1, CalmOtherwise

\* What happens in EVE disturbs the run.
LEMMA EveCalm ==
    ASSUME SearchInv, Eve
    PROVE  CalmInv(job)'
PROOF
<1>1. job' = [job EXCEPT !.calm = FALSE]
  BY DEF Eve, Destroyed, AccessLost, TokenDies, RowWritten, ChangesAlliance, Moves
<1>2. job'.calm = FALSE
  BY <1>1 DEF SearchInv, SearchTypes, Jobs
<1> QED
  BY <1>2, CalmOtherwise

\* A discovery does not become a validation.
LEMMA DiscoveringCalm ==
    ASSUME SearchInv, Discovering
    PROVE  CalmInv(job)'
PROOF
<1>1. job \in Jobs(job) /\ JobInv(job)
  BY DEF SearchInv, SearchTypes
<1>2. CASE BeginDiscovery
  <2>1. job' = [Fresh("discover", "ask", Picked) EXCEPT !.left = Picked]
    BY <1>2 DEF BeginDiscovery, BeginRun
  <2>2. job'.kind = "discover"
    BY <2>1 DEF Fresh
  <2> QED
    BY <2>2, CalmOtherwise
<1>3. CASE ~BeginDiscovery
  <2>1. job.kind = "discover"
    <3>1. \/ job.at \in Asking \ {"next"} \/ job.why \in {"look", "name"}
          \/ job.at = "save" \/ job.kind = "discover"
      BY <1>3 DEF Discovering, GlobalSearch, GlobalEnds, LookAt, NameSearch, NextName, Proposed,
                  Save, NextSystem, EachHit, Asking
    <3> QED
      BY <1>1, <3>1 DEF JobInv, GotInv, ProposeInv
  <2>2. job'.kind = job.kind
    <3>1. CASE GlobalSearch \/ NameSearch
      <4>1. PICK j, c, T : SearchSays(j, c, T) /\ (j = job \/ \E r : j = [job EXCEPT !.rest = r])
        BY <3>1 DEF GlobalSearch, NameSearch
      <4>2. job.at \in {"ask", "names"}
        BY <3>1 DEF GlobalSearch, NameSearch
      <4>3. ASSUME NEW S, job' = AfterSearch(c, S) PROVE job'.kind = job.kind
        BY <1>1, <4>2, <4>3 DEF AfterSearch, Jobs
      <4>4. ASSUME NEW a, NEW fact, job' = AfterError(j, a, fact, c) PROVE job'.kind = job.kind
        BY <1>1, <4>1, <4>4 DEF AfterError, Told, Jobs
      <4> QED
        BY <4>1, <4>3, <4>4 DEF SearchSays, AfterError
    <3>2. CASE Save
      <4>1. job' = [job EXCEPT !.at = "fill"] \/ job' = PairDone(job)
        BY <3>2 DEF Save
      <4>2. PairDone(job).kind = job.kind
        BY <1>1, PairDoneFields
      <4>3. [job EXCEPT !.at = "fill"].kind = job.kind
        BY <1>1 DEF Jobs
      <4> QED
        BY <4>1, <4>2, <4>3
    <3>3. CASE LookAt
      <4> DEFINE t == Min(job.todo)
                 l == {f[2] : f \in {g \in job.finders : g[1] = t}}
      <4>1. job' = [AskAll([job EXCEPT !.todo = @ \ {t}], "look", t) EXCEPT !.left = l]
        BY <3>3 DEF LookAt
      <4> HIDE DEF t, l
      <4> QED
        BY <1>1, <4>1 DEF AskAll, Jobs
    <3>4. ASSUME NEW t, EachHit(t) PROVE job'.kind = job.kind
      BY <1>1, <3>4 DEF EachHit, AskAll, Jobs
    <3>5. CASE GlobalEnds
      BY <1>1, <3>5 DEF GlobalEnds, Jobs
    <3>6. CASE NextName
      BY <1>1, <3>6 DEF NextName, Jobs
    <3>7. CASE Proposed
      BY <1>1, <3>7 DEF Proposed, Jobs
    <3>8. ASSUME NEW s, NextSystem(s) PROVE job'.kind = job.kind
      BY <1>1, <3>8 DEF NextSystem, Jobs
    <3>9. CASE \E p \in job.todo : NextProposal(p)
      BY <1>1, <3>9 DEF NextProposal, Jobs
    <3> QED
      BY <1>3, <3>1, <3>2, <3>3, <3>4, <3>5, <3>6, <3>7, <3>8, <3>9 DEF Discovering
  <2> QED
    BY <2>1, <2>2, CalmOtherwise
<1> QED
  BY <1>2, <1>3

\* Every step keeps an undisturbed validation in order.
LEMMA CalmKept ==
    SearchInv /\ CalmInv(job) /\ [SearchNext]_searchVars => CalmInv(job)'
PROOF
<1> SUFFICES ASSUME SearchInv, CalmInv(job), [SearchNext]_searchVars PROVE CalmInv(job)'
  OBVIOUS
<1>1. CASE Resolving
  BY <1>1, ResolveEndCalm, SearchCalm, NoMatchCalm, SearchEndsCalm, FetchCalm, MatchCalm
     DEF Resolving
<1>2. CASE Judging
  BY <1>2, JudgingCalm
<1>3. CASE Validating
  BY <1>3, BeginValidationCalm, RemoveCalm, FillCalm, NextPairCalm DEF Validating
<1>4. CASE Discovering
  BY <1>4, DiscoveringCalm
<1>5. CASE RunEnds
  BY <1>5, RunEndsCalm
<1>6. CASE Eve
  BY <1>6, EveCalm
<1>7. CASE UNCHANGED searchVars
  BY <1>7, CalmStep DEF searchVars
<1> QED
  BY <1>1, <1>2, <1>3, <1>4, <1>5, <1>6, <1>7 DEF SearchNext

\* A validation that nothing disturbed leaves no pair with the structures of one end
\* gone unless its system has another bridge, which then vouches for it: the pair
\* keeps the id of the structure that is gone (validateExistingPair,
\* backfillPairStructureIDs).  The two rows of a pair may have different ids for one
\* end, as filling in replaces none; of these one is looked at (loadUniquePairs).
THEOREM CalmRunsAreThorough ==
    SearchSpec => []CalmRunsDropGoneBridges
PROOF
<1>1. SearchInit => SearchInv /\ CalmInv(job)
  <2>1. SearchInit => CalmInv(job)
    BY DEF SearchInit, NoJob, Fresh, CalmInv
  <2> QED
    BY <2>1, SearchBegins
<1>2. SearchInv /\ CalmInv(job) /\ [SearchNext]_searchVars => SearchInv' /\ CalmInv(job)'
  BY SearchKept, CalmKept
<1>3. CalmInv(job) => CalmRunsDropGoneBridges
  BY DEF CalmInv, AtHand, CalmRunsDropGoneBridges
<1> QED
  BY <1>1, <1>2, <1>3, PTL DEF SearchSpec
=============================================================================
