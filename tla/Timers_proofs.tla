---------------------------- MODULE Timers_proofs ----------------------------
(***************************************************************************)
(* The invariants of the timers' table and of the watch over the game's    *)
(* notifications, proved for any campaigns, webhooks, users, characters    *)
(* and runs, whatever the windows, intervals and bounds: first those of    *)
(* Timers, then those of SkyhookWatch.                                     *)
(*                                                                         *)
(* Of Timers: only an insertion, and a save that sets it, gives a timer a  *)
(* reference; so that of twins the later one was given its own by somebody *)
(* who had not seen the other; and a synchronisation that nothing disturbs *)
(* has in its hands the rows as they are, so that its end finds them as    *)
(* the feed has them.                                                      *)
(*                                                                         *)
(* Of SkyhookWatch: what a stored ETag hides was handled or is too old for *)
(* everybody; and what an eligible character has waited for, with the      *)
(* number of those before it in turn, is less than the number of all.      *)
(***************************************************************************)
EXTENDS Timers, SkyhookWatch, FiniteSetTheorems, TLAPS

-----------------------------------------------------------------------------
(* Timers *)

LEMMA FactsAre == Facts = 0..MaxVersion
  BY TimersAssumption DEF Facts, Versions, StaffWords

\* The record one saves, and the record inserted, have the types of a row.
LEMMA BlankRow == ASSUME NEW ref \in Synced \cup Hooks PROVE NoRow(ref) \in Row
  BY DEF NoRow, Row, Facts, Statuses

\* An insertion adds one row, with an id that was never given.
LEMMA Inserted ==
    ASSUME TypeOK, NEW row \in Row, NEW known \in 0..clock, Insert(row, known)
    PROVE  /\ Ids' = Ids \cup {lastId + 1} /\ lastId + 1 \notin Ids
           /\ lastId' \in Nat /\ Ids' \subseteq 1..lastId'
           /\ clock' = clock + 1 /\ clock \in Nat
           /\ rows'[lastId + 1] = row
           /\ took'[lastId + 1] = clock + 1 /\ knew'[lastId + 1] = known
           /\ \A i \in Ids : rows'[i] = rows[i] /\ took'[i] = took[i] /\ knew'[i] = knew[i]
           /\ rows' \in [Ids' -> Row]
           /\ took' \in [Ids' -> 1..clock'] /\ knew' \in [Ids' -> 0..clock']
           /\ RowsOf(row.ref)' = RowsOf(row.ref) \cup {lastId + 1}
           /\ \A ref : ref # row.ref => RowsOf(ref)' = RowsOf(ref)
<1>1. /\ lastId \in Nat /\ Ids \subseteq 1..lastId /\ rows \in [Ids -> Row] /\ clock \in Nat
      /\ took \in [Ids -> 1..clock] /\ knew \in [Ids -> 0..clock]
  BY DEF TypeOK
<1> DEFINE new == lastId + 1
           beat == clock + 1
<1>2. new \notin Ids /\ new \in Nat
  BY <1>1
<1>3. lastId' = new /\ clock' = beat /\ Ids' = Ids \cup {new}
  BY DEF Insert, Ids
<1>4. Ids' \subseteq 1..lastId' /\ beat \in 1..beat /\ 1..clock \subseteq 1..beat /\ 0..clock \subseteq 0..beat
  BY <1>1, <1>3
<1>5. rows' = [i \in Ids \cup {new} |-> IF i = new THEN row ELSE rows[i]]
  BY DEF Insert
<1>6. knew' = [i \in Ids \cup {new} |-> IF i = new THEN known ELSE knew[i]]
  BY DEF Insert
<1>7. took' = [i \in Ids \cup {new} |-> IF i = new THEN beat ELSE took[i]]
  BY DEF Insert
<1> HIDE DEF new, beat
<1>8. rows'[new] = row /\ \A i \in Ids : rows'[i] = rows[i]
  BY <1>2, <1>5
<1>9. knew'[new] = known /\ \A i \in Ids : knew'[i] = knew[i]
  BY <1>2, <1>6
<1>10. took'[new] = beat /\ \A i \in Ids : took'[i] = took[i]
  BY <1>2, <1>7
<1>11. rows' \in [Ids' -> Row]
  BY <1>1, <1>3, <1>5
<1>12. knew' \in [Ids' -> 0..clock']
  BY <1>1, <1>3, <1>4, <1>6
<1>13. took' \in [Ids' -> 1..clock']
  BY <1>1, <1>3, <1>4, <1>7
<1>14. RowsOf(row.ref)' = RowsOf(row.ref) \cup {new}
  BY <1>2, <1>3, <1>8 DEF RowsOf
<1>15. \A ref : ref # row.ref => RowsOf(ref)' = RowsOf(ref)
  BY <1>2, <1>3, <1>8 DEF RowsOf
<1> QED
  BY <1>1, <1>2, <1>3, <1>4, <1>8, <1>9, <1>10, <1>11, <1>12, <1>13, <1>14, <1>15 DEF new, beat

LEMMA MergedRow ==
    ASSUME NEW row \in Row, NEW old \in Row, NEW new \in Row
    PROVE  /\ Merged(row, old, new) \in Row
           /\ new.ref = old.ref => Merged(row, old, new).ref = row.ref
           /\ new.ref # old.ref => Merged(row, old, new).ref = new.ref
  BY DEF Merged, Row

\* A save changes one row at most.
LEMMA Saved ==
    ASSUME TypeOK, NEW i, NEW old \in Row, NEW new \in Row, Save(i, old, new)
    PROVE  /\ Ids' = Ids /\ lastId' = lastId /\ clock \in Nat /\ clock' \in {clock, clock + 1}
           /\ rows' \in [Ids -> Row]
           /\ took' \in [Ids -> 1..clock'] /\ knew' \in [Ids -> 0..clock']
           /\ \A j \in Ids : j # i => rows'[j] = rows[j] /\ took'[j] = took[j] /\ knew'[j] = knew[j]
           /\ i \in Ids => rows'[i] = Merged(rows[i], old, new)
<1>1. /\ rows \in [Ids -> Row] /\ clock \in Nat
      /\ took \in [Ids -> 1..clock] /\ knew \in [Ids -> 0..clock]
  BY DEF TypeOK
<1>2. rows' = [j \in Ids |-> IF j = i THEN Merged(rows[j], old, new) ELSE rows[j]] /\ lastId' = lastId
  BY DEF Save
<1>3. Ids' = Ids
  BY <1>2 DEF Ids
<1>4. rows' \in [Ids -> Row]
  <2>1. \A j \in Ids : rows[j] \in Row
    BY <1>1
  <2>2. \A j \in Ids : Merged(rows[j], old, new) \in Row
    BY MergedRow, <2>1
  <2> QED
    BY <1>2, <2>1, <2>2
<1>5. \A j \in Ids : (j # i => rows'[j] = rows[j]) /\ (j = i => rows'[j] = Merged(rows[j], old, new))
  BY <1>2
<1>6. CASE new.ref = old.ref
  <2>1. clock' = clock /\ took' = took /\ knew' = knew
    BY <1>6 DEF Save, references
  <2> QED
    BY <1>1, <1>2, <1>3, <1>4, <1>5, <2>1
<1>7. CASE new.ref # old.ref
  <2> DEFINE beat == clock + 1
  <2>1. /\ clock' = beat
        /\ took' = [j \in Ids |-> IF j = i THEN beat ELSE took[j]]
        /\ knew' = [j \in Ids |-> IF j = i THEN Blind ELSE knew[j]]
    BY <1>7 DEF Save
  <2>2. beat \in 1..beat /\ Blind \in 0..beat /\ 1..clock \subseteq 1..beat /\ 0..clock \subseteq 0..beat
    BY <1>1 DEF Blind
  <2> HIDE DEF beat
  <2>3. took' \in [Ids -> 1..clock'] /\ knew' \in [Ids -> 0..clock']
    BY <1>1, <2>1, <2>2
  <2>4. \A j \in Ids : j # i => took'[j] = took[j] /\ knew'[j] = knew[j]
    BY <2>1
  <2> QED
    BY <1>1, <1>2, <1>3, <1>4, <1>5, <2>1, <2>3, <2>4 DEF beat
<1> QED
  BY <1>6, <1>7

\* One that leaves the reference as it was loaded changes nobody's reference.
LEMMA SavedInPlace ==
    ASSUME TypeOK, NEW i, NEW old \in Row, NEW new \in Row, Save(i, old, new), new.ref = old.ref
    PROVE  UNCHANGED references /\ \A ref : RowsOf(ref)' = RowsOf(ref)
<1>1. UNCHANGED references
  BY DEF Save, references
<1>2. \A j \in Ids : rows[j] \in Row
  BY DEF TypeOK
<1>3. ASSUME NEW j \in Ids PROVE rows'[j].ref = rows[j].ref
  <2>1. CASE j # i
    BY <2>1, Saved
  <2>2. CASE j = i
    <3>1. rows'[j] = Merged(rows[j], old, new)
      BY <2>2, Saved
    <3> QED
      BY <1>2, <3>1, MergedRow
  <2> QED
    BY <2>1, <2>2
<1> QED
  BY <1>1, <1>3, Saved DEF RowsOf

\* A removal removes one row.
LEMMA Removed ==
    ASSUME TypeOK, NEW i, RemoveRow(i)
    PROVE  /\ Ids' = Ids \ {i} /\ lastId' = lastId /\ clock' = clock
           /\ rows' \in [Ids' -> Row]
           /\ took' \in [Ids' -> 1..clock] /\ knew' \in [Ids' -> 0..clock]
           /\ \A j \in Ids' : rows'[j] = rows[j] /\ took'[j] = took[j] /\ knew'[j] = knew[j]
           /\ \A ref : RowsOf(ref)' = RowsOf(ref) \ {i}
<1>1. rows \in [Ids -> Row] /\ took \in [Ids -> 1..clock] /\ knew \in [Ids -> 0..clock]
  BY DEF TypeOK
<1>2. /\ rows' = [j \in Ids \ {i} |-> rows[j]]
      /\ took' = [j \in Ids \ {i} |-> took[j]]
      /\ knew' = [j \in Ids \ {i} |-> knew[j]]
  BY DEF RemoveRow
<1>3. Ids' = Ids \ {i}
  BY <1>2 DEF Ids
<1>4. \A j \in Ids' : rows'[j] = rows[j] /\ took'[j] = took[j] /\ knew'[j] = knew[j]
  BY <1>2, <1>3
<1>5. rows' \in [Ids' -> Row] /\ took' \in [Ids' -> 1..clock] /\ knew' \in [Ids' -> 0..clock]
  BY <1>1, <1>2, <1>3
<1>6. \A ref : RowsOf(ref)' = RowsOf(ref) \ {i}
  BY <1>3, <1>4 DEF RowsOf
<1> QED
  BY <1>3, <1>4, <1>5, <1>6 DEF RemoveRow

\* The table after a step: one row inserted, one saved, one removed, or none.
TableTypes ==
    /\ lastId \in Nat /\ Ids \subseteq 1..lastId
    /\ rows \in [Ids -> Row]
    /\ clock \in Nat /\ took \in [Ids -> 1..clock] /\ knew \in [Ids -> 0..clock]

Room == [Syncs -> 0..clock]

LEMMA TableInserted ==
    ASSUME TypeOK, NEW row \in Row, NEW known \in 0..clock, Insert(row, known)
    PROVE  TableTypes' /\ upTo \in Room'
<1>1. TableTypes'
  BY Inserted DEF TableTypes
<1>2. upTo \in [Syncs -> 0..clock] /\ clock \in Nat /\ clock' = clock + 1
  BY Inserted DEF TypeOK
<1> QED
  BY <1>1, <1>2 DEF Room

LEMMA TableSaved ==
    ASSUME TypeOK, NEW i, NEW old \in Row, NEW new \in Row, Save(i, old, new)
    PROVE  TableTypes' /\ upTo \in Room'
<1>1. /\ Ids' = Ids /\ lastId' = lastId /\ clock' \in {clock, clock + 1}
      /\ rows' \in [Ids -> Row] /\ took' \in [Ids -> 1..clock'] /\ knew' \in [Ids -> 0..clock']
  BY Saved
<1>2. upTo \in [Syncs -> 0..clock] /\ clock \in Nat /\ lastId \in Nat /\ Ids \subseteq 1..lastId
  BY DEF TypeOK
<1>3. clock' \in Nat
  BY <1>1, <1>2
<1>4. TableTypes'
  BY <1>1, <1>2, <1>3 DEF TableTypes
<1> QED
  BY <1>1, <1>2, <1>4 DEF Room

LEMMA TableRemoved ==
    ASSUME TypeOK, NEW i, RemoveRow(i)
    PROVE  TableTypes' /\ upTo \in Room'
<1>1. /\ Ids' = Ids \ {i} /\ lastId' = lastId /\ clock' = clock /\ rows' \in [Ids' -> Row]
      /\ took' \in [Ids' -> 1..clock] /\ knew' \in [Ids' -> 0..clock]
  BY Removed
<1>2. lastId \in Nat /\ clock \in Nat /\ Ids \subseteq 1..lastId /\ upTo \in [Syncs -> 0..clock]
  BY DEF TypeOK
<1> QED
  BY <1>1, <1>2 DEF TableTypes, Room

LEMMA TableKept == ASSUME TypeOK, UNCHANGED table PROVE TableTypes' /\ upTo \in Room'
  BY DEF TypeOK, table, references, TableTypes, Room, Ids

\* The rest of the types, of which an action changes a part.
RunTypes ==
    /\ pc \in [Syncs -> Labels]
    /\ want \in [Syncs -> [Campaigns -> 0..MaxVersion]]
    /\ copy \in [Syncs -> [Campaigns -> [id : Nat, row : Row]]]
    /\ todo \in [Syncs -> SUBSET Campaigns]
    /\ calm \subseteq Syncs
GameTypes ==
    mode \in {"standalone", "webhook"} /\ feed \in [Campaigns -> 0..MaxVersion] /\ left \in BOOLEAN
Kinds == {"none", "edit", "create", "patch"}
RequestTypes ==
    req \in [Requests -> [kind : Kinds, id : Nat, hook : Hooks \cup {"none"}, row : SUBSET Row]]

LEMMA TypeParts == TypeOK <=> GameTypes /\ TableTypes /\ RunTypes /\ upTo \in Room /\ RequestTypes
  BY DEF TypeOK, GameTypes, TableTypes, RunTypes, Room, RequestTypes, Kinds

LEMMA Nothing0 ==
    /\ Nothing \in [Campaigns -> 0..MaxVersion]
    /\ NoCopies \in [Campaigns -> [id : Nat, row : Row]]
    /\ NoRequest \in [kind : Kinds, id : Nat, hook : Hooks \cup {"none"}, row : SUBSET Row]
<1>1. MaxVersion \in Nat
  BY TimersAssumption
<1>2. \A c \in Campaigns : NoCopy(c) \in [id : Nat, row : Row]
  BY BlankRow DEF NoCopy, Synced
<1> QED
  BY <1>1, <1>2 DEF Nothing, Unlisted, NoCopies, NoRequest, Kinds

LEMMA Forgets == ASSUME TypeOK, NEW s \in Syncs, Forget(s), calm' \subseteq Syncs,
                        UNCHANGED clock
                 PROVE  RunTypes' /\ upTo' \in Room'
  BY Nothing0 DEF TypeOK, Forget, Goto, Labels, RunTypes, Room

LEMMA DesiredRow == ASSUME NEW c \in Campaigns, NEW v \in 0..MaxVersion PROVE Desired(c, v) \in Row
  BY FactsAre DEF Desired, Row, Synced, Statuses

\* What staff makes of a row is a row, and of the external system's one of the same
\* identifier.
LEMMA ChangedRow ==
    ASSUME NEW old \in Row, NEW new \in Changes(old)
    PROVE  new \in Row /\ (new.ref # old.ref => new.ref \in Synced)
<1>1. References(old) \subseteq Synced \cup Hooks
  BY DEF References, Row
<1>2. new \in Row /\ new.ref \in References(old)
  BY <1>1 DEF Changes, Row
<1> QED
  BY <1>2 DEF References

\* Every step keeps the types.
LEMMA TypeStep == TypeOK /\ HookInv /\ [Next]_vars => TypeOK'
<1> SUFFICES ASSUME TypeOK, HookInv, [Next]_vars PROVE TypeOK'
  OBVIOUS
<1>0. GameTypes /\ TableTypes /\ RunTypes /\ upTo \in Room /\ RequestTypes
  BY TypeParts
<1> SUFFICES GameTypes' /\ TableTypes' /\ RunTypes' /\ upTo' \in Room' /\ RequestTypes'
  BY DEF TypeOK, GameTypes, TableTypes, RunTypes, Room, RequestTypes, Kinds
<1>1. ASSUME NEW c \in Campaigns, CampaignChanges(c)
      PROVE  GameTypes' /\ TableTypes' /\ RunTypes' /\ upTo' \in Room' /\ RequestTypes'
  <2>1. GameTypes'
    BY <1>0, <1>1, TimersAssumption DEF CampaignChanges, GameTypes, Versions, Unlisted
  <2>2. UNCHANGED <<left, table, runs, req, calm>>
    BY <1>1 DEF CampaignChanges
  <2> QED
    BY <1>0, <2>1, <2>2, TableKept DEF runs, RunTypes, RequestTypes
<1>18. ASSUME NEW s \in Syncs, LookForRun(s)
       PROVE  GameTypes' /\ TableTypes' /\ RunTypes' /\ upTo' \in Room' /\ RequestTypes'
  <2>1. UNCHANGED <<world, left, table, want, copy, upTo, todo, req, calm>>
    BY <1>18 DEF LookForRun
  <2>2. pc' \in [Syncs -> Labels]
    BY <1>0, <1>18 DEF LookForRun, Goto, RunTypes, Labels
  <2> QED
    BY <1>0, <2>1, <2>2, TableKept DEF world, GameTypes, RunTypes, RequestTypes
<1>2. ASSUME NEW s \in Syncs, FetchCampaigns(s)
      PROVE  GameTypes' /\ TableTypes' /\ RunTypes' /\ upTo' \in Room' /\ RequestTypes'
  <2>1. UNCHANGED <<world, left, table, copy, upTo, todo, req, calm>>
    BY <1>2 DEF FetchCampaigns
  <2>2. pc' \in [Syncs -> Labels]
    BY <1>0, <1>2 DEF FetchCampaigns, Goto, RunTypes, Labels
  <2>3. want' \in [Syncs -> [Campaigns -> 0..MaxVersion]]
    <3>1. PICK unknown \in SUBSET Campaigns :
             want' = [want EXCEPT ![s] = [c \in Campaigns |-> IF c \in unknown THEN Unlisted ELSE feed[c]]]
      BY <1>2 DEF FetchCampaigns
    <3>2. [c \in Campaigns |-> IF c \in unknown THEN Unlisted ELSE feed[c]] \in [Campaigns -> 0..MaxVersion]
      BY <1>0, TimersAssumption DEF GameTypes, Unlisted
    <3> QED
      BY <1>0, <3>1, <3>2 DEF RunTypes
  <2> QED
    BY <1>0, <2>1, <2>2, <2>3, TableKept DEF world, GameTypes, RunTypes, RequestTypes
<1>3. ASSUME NEW s \in Syncs, LoadExisting(s)
      PROVE  GameTypes' /\ TableTypes' /\ RunTypes' /\ upTo' \in Room' /\ RequestTypes'
  <2>1. UNCHANGED <<world, left, table, want, req>>
    BY <1>3 DEF LoadExisting
  <2>2. PICK k \in [Campaigns -> {0} \cup Ids] :
           LET loaded == [c \in Campaigns |->
                            IF k[c] = 0 THEN NoCopy(c) ELSE [id |-> k[c], row |-> rows[k[c]]]]
           IN  /\ copy' = [copy EXCEPT ![s] = loaded]
               /\ todo' = [todo EXCEPT ![s] = {c \in Campaigns :
                     want[s][c] # Unlisted /\ Differs(loaded[c], want[s][c])}]
    BY <1>3 DEF LoadExisting
  <2> DEFINE loaded == [c \in Campaigns |->
                          IF k[c] = 0 THEN NoCopy(c) ELSE [id |-> k[c], row |-> rows[k[c]]]]
             rest == {c \in Campaigns : want[s][c] # Unlisted /\ Differs(loaded[c], want[s][c])}
  <2>3. copy' = [copy EXCEPT ![s] = loaded] /\ todo' = [todo EXCEPT ![s] = rest]
    BY <2>2
  <2>4. loaded \in [Campaigns -> [id : Nat, row : Row]]
    <3>1. ASSUME NEW c \in Campaigns PROVE loaded[c] \in [id : Nat, row : Row]
      <4>1. NoCopy(c) \in [id : Nat, row : Row]
        BY BlankRow DEF NoCopy, Synced
      <4>2. k[c] # 0 => k[c] \in Nat /\ rows[k[c]] \in Row
        <5>1. k[c] # 0 => k[c] \in Ids
          OBVIOUS
        <5>2. Ids \subseteq Nat /\ \A i \in Ids : rows[i] \in Row
          BY <1>0 DEF TableTypes
        <5> QED
          BY <5>1, <5>2
      <4> QED
        BY <4>1, <4>2
    <3> QED
      BY <3>1
  <2>5. rest \in SUBSET Campaigns
    OBVIOUS
  <2> HIDE DEF loaded, rest
  <2>6. copy' \in [Syncs -> [Campaigns -> [id : Nat, row : Row]]]
    BY <1>0, <2>3, <2>4 DEF RunTypes
  <2>7. todo' \in [Syncs -> SUBSET Campaigns]
    BY <1>0, <2>3, <2>5 DEF RunTypes
  <2>8. pc' \in [Syncs -> Labels] /\ calm' \subseteq Syncs
    BY <1>0, <1>3 DEF LoadExisting, Goto, Labels, RunTypes
  <2>9. upTo' \in Room'
    <3>1. clock' = clock /\ clock \in Nat /\ clock \in 0..clock
      BY <1>0, <2>1 DEF table, references, TableTypes
    <3>2. upTo' = [upTo EXCEPT ![s] = clock]
      BY <1>3 DEF LoadExisting
    <3> QED
      BY <1>0, <3>1, <3>2 DEF Room
  <2> QED
    BY <1>0, <2>1, <2>6, <2>7, <2>8, <2>9, TableKept DEF world, GameTypes, RunTypes, RequestTypes
<1>4. ASSUME NEW s \in Syncs, NEW c \in Campaigns, Apply(s, c)
      PROVE  GameTypes' /\ TableTypes' /\ RunTypes' /\ upTo' \in Room' /\ RequestTypes'
  <2>1. UNCHANGED <<world, left, pc, want, copy, upTo, req>>
    BY <1>4 DEF Apply
  <2>2. todo' \in [Syncs -> SUBSET Campaigns] /\ calm' \subseteq Syncs
    BY <1>0, <1>4 DEF Apply, Disturb, RunTypes
  <2>3. Desired(c, want[s][c]) \in Row /\ copy[s][c].row \in Row /\ upTo[s] \in 0..clock
    BY <1>0, DesiredRow DEF RunTypes, Room
  <2>4. TableTypes' /\ upTo' \in Room'
    BY <1>4, <2>1, <2>3, TableInserted, TableSaved DEF Apply
  <2> QED
    BY <1>0, <2>1, <2>2, <2>4 DEF world, GameTypes, RunTypes, RequestTypes
<1>5. ASSUME NEW s \in Syncs, Applied(s)
      PROVE  GameTypes' /\ TableTypes' /\ RunTypes' /\ upTo' \in Room' /\ RequestTypes'
  <2>1. UNCHANGED <<world, left, table, want, copy, upTo, req, calm>>
    BY <1>5 DEF Applied
  <2>2. pc' \in [Syncs -> Labels] /\ todo' \in [Syncs -> SUBSET Campaigns]
    BY <1>0, <1>5 DEF Applied, Goto, Labels, Stale, RunTypes
  <2> QED
    BY <1>0, <2>1, <2>2, TableKept DEF world, GameTypes, RunTypes, RequestTypes
<1>6. ASSUME NEW s \in Syncs, NEW c \in Campaigns, CancelStale(s, c)
      PROVE  GameTypes' /\ TableTypes' /\ RunTypes' /\ upTo' \in Room' /\ RequestTypes'
  <2>1. UNCHANGED <<world, left, pc, want, copy, upTo, req>>
    BY <1>6 DEF CancelStale
  <2>2. todo' \in [Syncs -> SUBSET Campaigns] /\ calm' \subseteq Syncs
    BY <1>0, <1>6 DEF CancelStale, Disturb, RunTypes
  <2>3. copy[s][c].row \in Row
    BY <1>0 DEF RunTypes
  <2>4. [copy[s][c].row EXCEPT !.status = "canceled"] \in Row
    BY <2>3 DEF Row, Statuses
  <2>5. TableTypes' /\ upTo' \in Room'
    BY <1>6, <2>1, <2>3, <2>4, TableSaved DEF CancelStale
  <2> QED
    BY <1>0, <2>1, <2>2, <2>5 DEF world, GameTypes, RunTypes, RequestTypes
<1>7. ASSUME NEW s \in Syncs, SyncEnds(s) \/ SyncFails(s)
      PROVE  GameTypes' /\ TableTypes' /\ RunTypes' /\ upTo' \in Room' /\ RequestTypes'
  <2>1. UNCHANGED <<world, table, req>> /\ Forget(s) /\ calm' = calm \ {s} /\ left' \in {left, TRUE}
    BY <1>7 DEF SyncEnds, SyncFails
  <2>2. RunTypes' /\ upTo' \in Room'
    BY <1>0, <2>1, Forgets DEF table, references, RunTypes
  <2> QED
    BY <1>0, <2>1, <2>2, TableKept DEF world, GameTypes, RequestTypes
<1>8. ASSUME Create
      PROVE  GameTypes' /\ TableTypes' /\ RunTypes' /\ upTo' \in Room' /\ RequestTypes'
  <2>1. UNCHANGED <<world, left, runs, req>> /\ calm' \subseteq Syncs
    BY <1>8 DEF Create, Disturb
  <2>2. PICK row \in Entered : Insert(row, Blind)
    BY <1>8 DEF Create
  <2>3. row \in Row /\ Blind \in 0..clock
    BY <1>0 DEF Entered, NoRow, Row, Synced, Facts, Statuses, Blind, TableTypes
  <2>4. TableTypes' /\ upTo \in Room'
    BY <2>2, <2>3, TableInserted
  <2> QED
    BY <1>0, <2>1, <2>4 DEF world, runs, GameTypes, RunTypes, RequestTypes
<1>9. ASSUME NEW a \in Requests, NEW i \in Ids, StaffLoads(a, i)
      PROVE  GameTypes' /\ TableTypes' /\ RunTypes' /\ upTo' \in Room' /\ RequestTypes'
  <2>1. UNCHANGED <<world, left, table, runs, calm>>
    BY <1>9 DEF StaffLoads
  <2>2. [kind |-> "edit", id |-> i, hook |-> "none", row |-> {rows[i]}]
           \in [kind : Kinds, id : Nat, hook : Hooks \cup {"none"}, row : SUBSET Row]
    BY <1>0 DEF TableTypes, Kinds
  <2>3. RequestTypes'
    BY <1>0, <1>9, <2>2 DEF StaffLoads, RequestTypes
  <2> QED
    BY <1>0, <2>1, <2>3, TableKept DEF world, runs, GameTypes, RunTypes
<1>10. ASSUME NEW a \in Requests, Saves(a)
       PROVE  GameTypes' /\ TableTypes' /\ RunTypes' /\ upTo' \in Room' /\ RequestTypes'
  <2>1. UNCHANGED <<world, left, runs>> /\ calm' \subseteq Syncs
    BY <1>10 DEF Saves, Disturb
  <2>2. RequestTypes'
    BY <1>0, <1>10, Nothing0 DEF Saves, Ends, RequestTypes
  <2>3. PICK old \in req[a].row : \E new \in Changes(old) : Save(req[a].id, old, new)
    BY <1>10 DEF Saves
  <2>4. PICK new \in Changes(old) : Save(req[a].id, old, new)
    BY <2>3
  <2>5. old \in Row
    BY <1>0 DEF RequestTypes
  <2>6. new \in Row
    BY <2>5, ChangedRow
  <2> QED
    BY <1>0, <2>1, <2>2, <2>4, <2>5, <2>6, TableSaved DEF world, runs, GameTypes, RunTypes
<1>11. ASSUME NEW i \in Ids, Delete(i)
       PROVE  GameTypes' /\ TableTypes' /\ RunTypes' /\ upTo' \in Room' /\ RequestTypes'
  <2>1. UNCHANGED <<world, left, runs, req>> /\ calm' \subseteq Syncs /\ RemoveRow(i)
    BY <1>11 DEF Delete, Disturb
  <2> QED
    BY <1>0, <2>1, TableRemoved DEF world, runs, GameTypes, RunTypes, RequestTypes
<1>12. ASSUME NEW a \in Requests, NEW h \in Hooks, HookLooks(a, h)
       PROVE  GameTypes' /\ TableTypes' /\ RunTypes' /\ upTo' \in Room' /\ RequestTypes'
  <2>1. UNCHANGED <<world, left, table, runs, calm>>
    BY <1>12 DEF HookLooks
  <2>2. RequestTypes'
    BY <1>0, <1>12 DEF HookLooks, RequestTypes, Kinds
  <2> QED
    BY <1>0, <2>1, <2>2, TableKept DEF world, runs, GameTypes, RunTypes
<1>13. ASSUME NEW a \in Requests, HookInserts(a)
       PROVE  GameTypes' /\ TableTypes' /\ RunTypes' /\ upTo' \in Room' /\ RequestTypes'
  <2>1. UNCHANGED <<world, left, runs>> /\ calm' \subseteq Syncs
    BY <1>0, <1>13 DEF HookInserts, Disturb, RunTypes
  <2>2. RequestTypes'
    BY <1>0, <1>13, Nothing0 DEF HookInserts, Ends, RequestTypes
  <2>3. TableTypes' /\ upTo \in Room'
    <3>1. CASE UNCHANGED table
      BY <3>1, TableKept
    <3>2. CASE \E st \in Statuses : Insert([NoRow(req[a].hook) EXCEPT !.status = st], Blind)
      <4>1. PICK st \in Statuses : Insert([NoRow(req[a].hook) EXCEPT !.status = st], Blind)
        BY <3>2
      <4>2. NoRow(req[a].hook) \in Row
        BY <1>13, BlankRow DEF HookInserts, HookInv
      <4>3. [NoRow(req[a].hook) EXCEPT !.status = st] \in Row
        BY <4>2 DEF Row
      <4>4. Blind \in 0..clock
        BY <1>0 DEF Blind, TableTypes
      <4> QED
        BY <4>1, <4>3, <4>4, TableInserted
    <3> QED
      BY <1>13, <3>1, <3>2 DEF HookInserts
  <2> QED
    BY <1>0, <2>1, <2>2, <2>3 DEF world, runs, GameTypes, RunTypes
<1>14. ASSUME NEW a \in Requests, NEW i \in Ids, HookFinds(a, i)
       PROVE  GameTypes' /\ TableTypes' /\ RunTypes' /\ upTo' \in Room' /\ RequestTypes'
  <2>1. UNCHANGED <<world, left, table, runs, calm>>
    BY <1>14 DEF HookFinds
  <2>2. [kind |-> "patch", id |-> i, hook |-> rows[i].ref, row |-> {}]
           \in [kind : Kinds, id : Nat, hook : Hooks \cup {"none"}, row : SUBSET Row]
    BY <1>0, <1>14 DEF HookFinds, TableTypes, Kinds
  <2>3. RequestTypes'
    BY <1>0, <1>14, <2>2 DEF HookFinds, RequestTypes
  <2> QED
    BY <1>0, <2>1, <2>3, TableKept DEF world, runs, GameTypes, RunTypes
<1>15. ASSUME NEW a \in Requests, HookLoads(a)
       PROVE  GameTypes' /\ TableTypes' /\ RunTypes' /\ upTo' \in Room' /\ RequestTypes'
  <2>1. UNCHANGED <<world, left, table, runs, calm>>
    BY <1>15 DEF HookLoads
  <2>2. RequestTypes'
    <3>1. CASE req[a].id \in Ids
      <4>1. rows[req[a].id] \in Row
        BY <1>0, <3>1 DEF TableTypes
      <4>2. req' = [req EXCEPT ![a].kind = "edit", ![a].row = {rows[req[a].id]}]
        BY <1>15, <3>1 DEF HookLoads
      <4> QED
        BY <1>0, <4>1, <4>2 DEF RequestTypes, Kinds
    <3>2. CASE req[a].id \notin Ids
      BY <1>0, <1>15, <3>2, Nothing0 DEF HookLoads, Ends, RequestTypes
    <3> QED
      BY <3>1, <3>2
  <2> QED
    BY <1>0, <2>1, <2>2, TableKept DEF world, runs, GameTypes, RunTypes
<1>16. ASSUME Restart
       PROVE  GameTypes' /\ TableTypes' /\ RunTypes' /\ upTo' \in Room' /\ RequestTypes'
  <2>1. UNCHANGED <<feed, table>> /\ GameTypes'
    BY <1>0, <1>16 DEF Restart, GameTypes
  <2>2. RunTypes' /\ RequestTypes'
    BY <1>16, Nothing0 DEF Restart, RunTypes, RequestTypes, Labels
  <2>3. upTo' \in Room'
    <3>1. clock' = clock /\ clock \in Nat /\ 0 \in 0..clock
      BY <1>0, <2>1 DEF table, references, TableTypes
    <3> QED
      BY <1>16, <3>1 DEF Restart, Room
  <2> QED
    BY <1>0, <2>1, <2>2, <2>3, TableKept
<1>17. CASE UNCHANGED vars
  BY <1>0, <1>17, TableKept DEF vars, world, runs, GameTypes, RunTypes, RequestTypes
<1> QED
  BY <1>1, <1>2, <1>3, <1>4, <1>5, <1>6, <1>7, <1>8, <1>9, <1>10, <1>11, <1>12, <1>13, <1>14,
     <1>15, <1>16, <1>17, <1>18 DEF Next, SyncStep, RequestStep, RequestBegins

\* A request that creates a timer does so for an identifier of the external system.
LEMMA HookStep == TypeOK /\ HookInv /\ [Next]_vars => HookInv'
<1> SUFFICES ASSUME TypeOK, HookInv, [Next]_vars PROVE HookInv'
  OBVIOUS
<1>0. req \in [Requests -> [kind : Kinds, id : Nat, hook : Hooks \cup {"none"}, row : SUBSET Row]]
  BY DEF TypeOK, Kinds
<1>1. ASSUME UNCHANGED req PROVE HookInv'
  BY <1>1 DEF HookInv
<1>2. ASSUME NEW a \in Requests, req' = [req EXCEPT ![a] = NoRequest] PROVE HookInv'
  BY <1>0, <1>2 DEF HookInv, NoRequest
<1>3. ASSUME NEW a \in Requests, RequestBegins(a) PROVE HookInv'
  BY <1>0, <1>3 DEF HookInv, RequestBegins, StaffLoads, HookLooks, HookFinds
<1>4. ASSUME NEW a \in Requests, RequestStep(a) PROVE HookInv'
  <2>1. CASE Saves(a) \/ HookInserts(a)
    BY <1>2, <2>1 DEF Saves, HookInserts, Ends
  <2>2. CASE HookLoads(a)
    <3>1. CASE req[a].id \in Ids
      BY <1>0, <2>2, <3>1 DEF HookInv, HookLoads
    <3>2. CASE req[a].id \notin Ids
      BY <1>2, <2>2, <3>2 DEF HookLoads, Ends
    <3> QED
      BY <3>1, <3>2
  <2> QED
    BY <1>4, <2>1, <2>2 DEF RequestStep
<1>5. ASSUME Restart PROVE HookInv'
  BY <1>5 DEF HookInv, Restart, NoRequest
<1> QED
  BY <1>1, <1>3, <1>4, <1>5
  DEF Next, vars, CampaignChanges, LookForRun, FetchCampaigns, SyncStep, SyncFails, LoadExisting, Apply, Applied,
      CancelStale, SyncEnds, Create, Delete

\* What a run loads for a campaign is the campaign's.
LEMMA CopyStep == TypeOK /\ CopyInv /\ [Next]_vars => CopyInv'
<1> SUFFICES ASSUME TypeOK, CopyInv, [Next]_vars PROVE CopyInv'
  OBVIOUS
<1>0. copy \in [Syncs -> [Campaigns -> [id : Nat, row : Row]]]
  BY DEF TypeOK
<1>1. ASSUME UNCHANGED copy PROVE CopyInv'
  BY <1>1 DEF CopyInv
<1>2. ASSUME NEW c \in Campaigns PROVE NoCopies[c].row.ref = c
  BY DEF NoCopies, NoCopy, NoRow
<1>3. ASSUME NEW s \in Syncs, Forget(s) PROVE CopyInv'
  <2>1. copy' = [copy EXCEPT ![s] = NoCopies]
    BY <1>3 DEF Forget
  <2> QED
    BY <1>0, <1>2, <2>1 DEF CopyInv
<1>4. ASSUME NEW s \in Syncs, LoadExisting(s) PROVE CopyInv'
  <2> DEFINE loaded(k) == [c \in Campaigns |->
                             IF k[c] = 0 THEN NoCopy(c) ELSE [id |-> k[c], row |-> rows[k[c]]]]
  <2>1. PICK k \in [Campaigns -> {0} \cup Ids] :
           /\ \A c \in Campaigns : IF TimersOf(c) = {} THEN k[c] = 0 ELSE k[c] \in TimersOf(c)
           /\ copy' = [copy EXCEPT ![s] = loaded(k)]
    BY <1>4 DEF LoadExisting
  <2>2. ASSUME NEW c \in Campaigns PROVE loaded(k)[c].row.ref = c
    <3>1. CASE k[c] = 0
      BY <3>1 DEF NoCopy, NoRow
    <3>2. CASE k[c] # 0
      <4>1. k[c] \in RowsOf(c)
        BY <2>1, <3>2 DEF TimersOf
      <4> QED
        BY <3>2, <4>1 DEF RowsOf
    <3> QED
      BY <3>1, <3>2
  <2> HIDE DEF loaded
  <2> QED
    BY <1>0, <2>1, <2>2 DEF CopyInv
<1>5. ASSUME Restart PROVE CopyInv'
  BY <1>2, <1>5 DEF Restart, CopyInv
<1>6. CASE UNCHANGED vars
  BY <1>1, <1>6 DEF vars, runs
<1> QED
  BY <1>1, <1>3, <1>4, <1>5, <1>6
  DEF Next, CampaignChanges, LookForRun, SyncStep, SyncFails, FetchCampaigns, Apply,
      Applied, CancelStale, SyncEnds, Create, Delete, RequestBegins, RequestStep, StaffLoads,
      HookLooks, HookFinds, Saves, HookInserts, HookLoads, runs

\* Runs that load nothing and write nothing keep what they did not find.
Kept(s) ==
    /\ Writing(s)' => Writing(s)
    /\ copy'[s] = copy[s] \/ ~Writing(s)'
    /\ upTo'[s] = upTo[s] \/ ~Writing(s)'

\* When timer n is given a reference, now, the causes of twins are kept if the giver
\* knew of none of the campaign's timers, or the identifier had none, or it is neither's.
LEMMA TwinsGiven ==
    ASSUME TypeOK, TwinsHaveACause, LoadInv, NEW n, NEW ref,
           \A i \in Ids' \ {n} :
              i \in Ids /\ rows'[i].ref = rows[i].ref /\ took'[i] = took[i] /\ knew'[i] = knew[i],
           n \in Ids' => rows'[n].ref = ref /\ took'[n] = clock + 1,
           ref \in Hooks => RowsOf(ref) = {},
           n \in Ids' /\ ref \in Campaigns => \A i \in RowsOf(ref) : knew'[n] < took[i],
           \A s \in Syncs : Kept(s)
    PROVE  TwinsHaveACause' /\ LoadInv'
<1>1. clock \in Nat /\ \A i \in Ids : took[i] \in 1..clock
  BY DEF TypeOK
<1>2. ASSUME NEW r, NEW i \in RowsOf(r)', i # n
      PROVE  i \in RowsOf(r) /\ took'[i] = took[i] /\ knew'[i] = knew[i] /\ took[i] \in 1..clock
  BY <1>1, <1>2 DEF RowsOf
<1>3. ASSUME NEW r, n \in RowsOf(r)' PROVE r = ref /\ n \in Ids' /\ took'[n] = clock + 1
  BY <1>3 DEF RowsOf
<1>4. ASSUME NEW h \in Hooks, NEW i \in RowsOf(h)', NEW j \in RowsOf(h)' PROVE i = j
  BY <1>2, <1>3, <1>4 DEF TwinsHaveACause
<1>5. ASSUME NEW c \in Campaigns, NEW i \in RowsOf(c)', NEW j \in RowsOf(c)',
             i # j, took'[i] <= took'[j]
      PROVE  knew'[j] < took'[i]
  <2>1. CASE i # n /\ j # n
    BY <1>2, <1>5, <2>1 DEF TwinsHaveACause
  <2>2. CASE j = n
    <3>1. i \in RowsOf(ref) /\ took'[i] = took[i]
      BY <1>2, <1>3, <1>5, <2>2
    <3> QED
      BY <1>3, <1>5, <2>2, <3>1
  <2>3. CASE i = n
    <3>1. took'[j] \in 1..clock /\ took'[i] = clock + 1
      BY <1>2, <1>3, <1>5, <2>3
    <3> QED
      BY <1>1, <1>5, <3>1
  <2> QED
    BY <2>1, <2>2, <2>3
<1>6. ASSUME NEW s \in Syncs, Writing(s)', NEW c \in Campaigns, copy'[s][c].id = 0, NEW i \in RowsOf(c)'
      PROVE  upTo'[s] < took'[i]
  <2>1. Writing(s) /\ copy[s][c].id = 0 /\ upTo'[s] = upTo[s]
    BY <1>6 DEF Kept
  <2>2. upTo[s] \in 0..clock
    BY DEF TypeOK
  <2>3. CASE i = n
    BY <1>1, <1>3, <1>6, <2>1, <2>2, <2>3
  <2>4. CASE i # n
    BY <1>2, <1>6, <2>1, <2>4 DEF LoadInv
  <2> QED
    BY <2>3, <2>4
<1> QED
  BY <1>4, <1>5, <1>6 DEF TwinsHaveACause, LoadInv

\* So they are in a step after which no timer has another reference.
LEMMA TwinsKept ==
    ASSUME TwinsHaveACause, LoadInv,
           \A ref : RowsOf(ref)' \subseteq RowsOf(ref),
           \A i \in Ids' : took'[i] = took[i] /\ knew'[i] = knew[i],
           \A s \in Syncs : Kept(s)
    PROVE  TwinsHaveACause' /\ LoadInv'
<1>1. \A ref : RowsOf(ref)' \subseteq Ids'
  BY DEF RowsOf
<1>2. TwinsHaveACause'
  BY <1>1 DEF TwinsHaveACause
<1>3. ASSUME NEW s \in Syncs, Writing(s)', NEW c \in Campaigns, copy'[s][c].id = 0, NEW i \in RowsOf(c)'
      PROVE  upTo'[s] < took'[i]
  BY <1>1, <1>3 DEF Kept, LoadInv
<1> QED
  BY <1>2, <1>3 DEF LoadInv

\* An insertion gives a reference to a new timer.
LEMMA TwinsInserted ==
    ASSUME TypeOK, TwinsHaveACause, LoadInv, NEW row \in Row, NEW known \in 0..clock,
           Insert(row, known),
           row.ref \in Hooks => RowsOf(row.ref) = {},
           row.ref \in Campaigns => \A i \in RowsOf(row.ref) : known < took[i],
           \A s \in Syncs : Kept(s)
    PROVE  TwinsHaveACause' /\ LoadInv'
<1> DEFINE n == lastId + 1
<1>1. /\ n \notin Ids /\ Ids' = Ids \cup {n} /\ rows'[n] = row
      /\ took'[n] = clock + 1 /\ knew'[n] = known
      /\ \A i \in Ids : rows'[i] = rows[i] /\ took'[i] = took[i] /\ knew'[i] = knew[i]
  BY Inserted
<1> HIDE DEF n
<1> QED
  BY <1>1, TwinsGiven

\* Staff's save may give one to a timer of the synchronisation.
LEMMA TwinsMoved ==
    ASSUME TypeOK, TwinsHaveACause, LoadInv, NEW i, NEW old \in Row, NEW new \in Row,
           Save(i, old, new), new.ref # old.ref, new.ref \in Synced,
           \A s \in Syncs : Kept(s)
    PROVE  TwinsHaveACause' /\ LoadInv'
<1>1. new.ref \notin Hooks
  BY TimersAssumption DEF Synced, Stray
<1>2. \A j \in Ids : took[j] \in 1..clock /\ rows[j] \in Row
  BY DEF TypeOK
<1>3. Ids' = Ids /\ \A j \in Ids : j # i => rows'[j] = rows[j] /\ took'[j] = took[j] /\ knew'[j] = knew[j]
  BY Saved
<1>4. i \in Ids => took'[i] = clock + 1 /\ knew'[i] = 0
  BY DEF Save, Blind
<1>5. i \in Ids => rows'[i].ref = new.ref
  BY <1>2, Saved, MergedRow
<1>6. i \in Ids' => \A j \in RowsOf(new.ref) : knew'[i] < took[j]
  BY <1>2, <1>3, <1>4 DEF RowsOf
<1> QED
  BY <1>1, <1>3, <1>4, <1>5, <1>6, TwinsGiven

LEMMA SameRows == ASSUME UNCHANGED table
                  PROVE  Ids' = Ids /\ \A ref : RowsOf(ref)' = RowsOf(ref)
  BY DEF table, Ids, RowsOf

LEMMA ForgottenIsKept == ASSUME TypeOK, NEW s \in Syncs, Forget(s) PROVE \A q \in Syncs : Kept(q)
  BY DEF TypeOK, Forget, Goto, Kept, Writing

\* Every step keeps the causes of twins.
LEMMA TwinStep ==
    TypeOK /\ HookInv /\ CopyInv /\ TwinsHaveACause /\ LoadInv /\ [Next]_vars
        => TwinsHaveACause' /\ LoadInv'
<1> SUFFICES ASSUME TypeOK, HookInv, CopyInv, TwinsHaveACause, LoadInv, [Next]_vars
             PROVE  TwinsHaveACause' /\ LoadInv'
  OBVIOUS
<1>0. GameTypes /\ TableTypes /\ RunTypes /\ upTo \in Room /\ RequestTypes
  BY TypeParts
<1>1. ASSUME UNCHANGED table, \A s \in Syncs : Kept(s) PROVE TwinsHaveACause' /\ LoadInv'
  <2>1. (\A ref : RowsOf(ref)' = RowsOf(ref)) /\ took' = took /\ knew' = knew
    BY <1>1, SameRows DEF table, references
  <2> QED
    BY <1>1, <2>1, TwinsKept
<1>2. ASSUME UNCHANGED <<pc, copy, upTo>> PROVE \A s \in Syncs : Kept(s)
  BY <1>2 DEF Kept, Writing
<1>3. ASSUME UNCHANGED <<table, pc, copy, upTo>> PROVE TwinsHaveACause' /\ LoadInv'
  BY <1>1, <1>2, <1>3
<1>4. ASSUME NEW i, NEW old \in Row, NEW new \in Row, Save(i, old, new), new.ref = old.ref,
             UNCHANGED <<pc, copy, upTo>>
      PROVE  TwinsHaveACause' /\ LoadInv'
  <2>1. Save(i, old, new)
    BY <1>4
  <2>2. (\A ref : RowsOf(ref)' = RowsOf(ref)) /\ took' = took /\ knew' = knew
    BY <1>4, <2>1, SavedInPlace DEF references
  <2> QED
    BY <1>2, <1>4, <2>2, TwinsKept
<1>5. ASSUME NEW s \in Syncs, FetchCampaigns(s) PROVE TwinsHaveACause' /\ LoadInv'
  <2>1. UNCHANGED <<table, copy, upTo>> /\ pc' = [pc EXCEPT ![s] = "load"]
    BY <1>5 DEF FetchCampaigns, Goto
  <2>2. \A q \in Syncs : Kept(q)
    BY <1>0, <2>1 DEF RunTypes, Kept, Writing
  <2> QED
    BY <1>1, <2>1, <2>2
<1>6. ASSUME NEW s \in Syncs, LoadExisting(s) PROVE TwinsHaveACause' /\ LoadInv'
  <2>1. UNCHANGED table /\ upTo' = [upTo EXCEPT ![s] = clock] /\ pc' = [pc EXCEPT ![s] = "apply"]
    BY <1>6 DEF LoadExisting, Goto
  <2>2. PICK k \in [Campaigns -> {0} \cup Ids] :
           /\ \A c \in Campaigns : IF TimersOf(c) = {} THEN k[c] = 0 ELSE k[c] \in TimersOf(c)
           /\ copy' = [copy EXCEPT ![s] = [c \in Campaigns |->
                 IF k[c] = 0 THEN NoCopy(c) ELSE [id |-> k[c], row |-> rows[k[c]]]]]
    BY <1>6 DEF LoadExisting
  <2>3. (\A ref : RowsOf(ref)' = RowsOf(ref)) /\ Ids' = Ids /\ took' = took /\ knew' = knew
    BY <2>1, SameRows DEF table, references
  <2>4. TwinsHaveACause'
    BY <2>3 DEF TwinsHaveACause
  <2>5. ASSUME NEW q \in Syncs, Writing(q)', NEW c \in Campaigns, copy'[q][c].id = 0,
               NEW i \in RowsOf(c)'
        PROVE  upTo'[q] < took'[i]
    <3>1. CASE q = s
      <4>1. copy'[s][c] = IF k[c] = 0 THEN NoCopy(c) ELSE [id |-> k[c], row |-> rows[k[c]]]
        BY <1>0, <2>2 DEF RunTypes
      <4>2. k[c] = 0
        BY <2>5, <3>1, <4>1
      <4>3. 0 \notin Ids
        BY <1>0 DEF TableTypes
      <4>4. RowsOf(c) = {}
        BY <2>2, <4>2, <4>3 DEF TimersOf, RowsOf
      <4> QED
        BY <2>3, <2>5, <4>4
    <3>2. CASE q # s
      <4>1. Writing(q) /\ copy'[q] = copy[q] /\ upTo'[q] = upTo[q]
        BY <1>0, <2>1, <2>2, <2>5, <3>2 DEF RunTypes, Room, Writing
      <4> QED
        BY <2>3, <2>5, <4>1 DEF LoadInv
    <3> QED
      BY <3>1, <3>2
  <2> QED
    BY <2>4, <2>5 DEF LoadInv
<1>7. ASSUME NEW s \in Syncs, NEW c \in Campaigns, Apply(s, c) PROVE TwinsHaveACause' /\ LoadInv'
  <2>1. UNCHANGED <<pc, copy, upTo>> /\ Writing(s)
    BY <1>7 DEF Apply, Writing
  <2> DEFINE new == Desired(c, want[s][c])
  <2>2. new \in Row /\ new.ref = c /\ copy[s][c].row \in Row /\ copy[s][c].row.ref = c /\ upTo[s] \in 0..clock
    BY <1>0, DesiredRow DEF RunTypes, Room, Desired, CopyInv
  <2>3. CASE copy[s][c].id = 0
    <3>1. Insert(new, upTo[s])
      BY <1>7, <2>3 DEF Apply
    <3>2. \A i \in RowsOf(c) : upTo[s] < took[i]
      BY <2>1, <2>3 DEF LoadInv
    <3>3. c \notin Hooks
      BY TimersAssumption
    <3> HIDE DEF new
    <3> QED
      BY <1>2, <2>1, <2>2, <3>1, <3>2, <3>3, TwinsInserted
  <2>4. CASE copy[s][c].id # 0
    <3>1. Save(copy[s][c].id, copy[s][c].row, new)
      BY <1>7, <2>4 DEF Apply
    <3> HIDE DEF new
    <3> QED
      BY <1>4, <2>1, <2>2, <3>1
  <2> QED
    BY <2>3, <2>4
<1>8. ASSUME NEW s \in Syncs, Applied(s) PROVE TwinsHaveACause' /\ LoadInv'
  <2>1. UNCHANGED <<table, copy, upTo>> /\ pc' = [pc EXCEPT ![s] = "cancel"] /\ pc[s] = "apply"
    BY <1>8 DEF Applied, Goto
  <2>2. \A q \in Syncs : Kept(q)
    BY <1>0, <2>1 DEF RunTypes, Kept, Writing
  <2> QED
    BY <1>1, <2>1, <2>2
<1>9. ASSUME NEW s \in Syncs, NEW c \in Campaigns, CancelStale(s, c) PROVE TwinsHaveACause' /\ LoadInv'
  <2>1. UNCHANGED <<pc, copy, upTo>>
    BY <1>9 DEF CancelStale
  <2> DEFINE old == copy[s][c].row
             new == [old EXCEPT !.status = "canceled"]
  <2>2. old \in Row
    BY <1>0 DEF RunTypes
  <2>3. new \in Row /\ new.ref = old.ref
    BY <2>2 DEF Row, Statuses
  <2>4. Save(copy[s][c].id, old, new)
    BY <1>9 DEF CancelStale
  <2> HIDE DEF old, new
  <2> QED
    BY <1>4, <2>1, <2>2, <2>3, <2>4
<1>10. ASSUME NEW s \in Syncs, SyncEnds(s) \/ SyncFails(s) PROVE TwinsHaveACause' /\ LoadInv'
  BY <1>1, <1>10, ForgottenIsKept DEF SyncEnds, SyncFails
<1>11. ASSUME Create PROVE TwinsHaveACause' /\ LoadInv'
  <2>1. UNCHANGED <<pc, copy, upTo>>
    BY <1>11 DEF Create, runs
  <2>2. PICK row \in Entered : Insert(row, Blind)
    BY <1>11 DEF Create
  <2>3. row \in Row /\ row.ref \notin Hooks /\ Blind \in 0..clock
    BY <1>0, TimersAssumption
    DEF Entered, NoRow, Row, Synced, Stray, Facts, Statuses, Blind, TableTypes
  <2>4. \A i \in RowsOf(row.ref) : Blind < took[i]
    BY <1>0 DEF RowsOf, TableTypes, Blind
  <2> QED
    BY <1>2, <2>1, <2>2, <2>3, <2>4, TwinsInserted
<1>12. ASSUME NEW a \in Requests, RequestBegins(a) PROVE TwinsHaveACause' /\ LoadInv'
  BY <1>3, <1>12 DEF RequestBegins, StaffLoads, HookLooks, HookFinds, runs
<1>13. ASSUME NEW a \in Requests, Saves(a) PROVE TwinsHaveACause' /\ LoadInv'
  <2>1. PICK old \in req[a].row : \E new \in Changes(old) : Save(req[a].id, old, new)
    BY <1>13 DEF Saves
  <2>2. PICK new \in Changes(old) : Save(req[a].id, old, new)
    BY <2>1
  <2>3. old \in Row
    BY <1>0 DEF RequestTypes
  <2>4. new \in Row /\ (new.ref # old.ref => new.ref \in Synced)
    BY <2>3, ChangedRow
  <2>5. UNCHANGED <<pc, copy, upTo>>
    BY <1>13 DEF Saves, runs
  <2>6. CASE new.ref = old.ref
    BY <1>4, <2>2, <2>3, <2>4, <2>5, <2>6
  <2>7. CASE new.ref # old.ref
    BY <1>2, <2>2, <2>3, <2>4, <2>5, <2>7, TwinsMoved
  <2> QED
    BY <2>6, <2>7
<1>14. ASSUME NEW a \in Requests, HookInserts(a) PROVE TwinsHaveACause' /\ LoadInv'
  <2>1. UNCHANGED <<pc, copy, upTo>>
    BY <1>14 DEF HookInserts, runs
  <2>2. CASE UNCHANGED table
    BY <1>3, <2>1, <2>2
  <2>3. CASE RowsOf(req[a].hook) = {}
             /\ \E st \in Statuses : Insert([NoRow(req[a].hook) EXCEPT !.status = st], Blind)
    <3>1. PICK st \in Statuses : Insert([NoRow(req[a].hook) EXCEPT !.status = st], Blind)
      BY <2>3
    <3> DEFINE row == [NoRow(req[a].hook) EXCEPT !.status = st]
    <3>2. req[a].hook \in Hooks /\ req[a].hook \notin Campaigns
      BY <1>14, TimersAssumption DEF HookInserts, HookInv
    <3>3. NoRow(req[a].hook) \in Row
      BY <3>2, BlankRow
    <3>4. row \in Row /\ row.ref = req[a].hook
      BY <3>3 DEF Row, NoRow
    <3>5. Insert(row, Blind) /\ Blind \in 0..clock
      BY <1>0, <3>1 DEF TableTypes, Blind
    <3> HIDE DEF row
    <3> QED
      BY <1>2, <2>1, <2>3, <3>2, <3>4, <3>5, TwinsInserted
  <2> QED
    BY <1>14, <2>2, <2>3 DEF HookInserts
<1>15. ASSUME NEW a \in Requests, HookLoads(a) PROVE TwinsHaveACause' /\ LoadInv'
  BY <1>3, <1>15 DEF HookLoads, runs
<1>16. ASSUME NEW i \in Ids, Delete(i) PROVE TwinsHaveACause' /\ LoadInv'
  <2>1. RemoveRow(i) /\ UNCHANGED <<pc, copy, upTo>>
    BY <1>16 DEF Delete, runs
  <2>2. /\ \A ref : RowsOf(ref)' = RowsOf(ref) \ {i}
        /\ \A j \in Ids' : took'[j] = took[j] /\ knew'[j] = knew[j]
    BY <2>1, Removed
  <2>3. \A s \in Syncs : Kept(s)
    BY <1>2, <2>1
  <2>4. \A ref : RowsOf(ref)' \subseteq RowsOf(ref)
    BY <2>2
  <2> QED
    BY <2>2, <2>3, <2>4, TwinsKept
<1>17. ASSUME Restart PROVE TwinsHaveACause' /\ LoadInv'
  <2>1. UNCHANGED table /\ \A s \in Syncs : Kept(s)
    BY <1>17 DEF Restart, Kept, Writing
  <2> QED
    BY <1>1, <2>1
<1>18. ASSUME NEW c \in Campaigns, CampaignChanges(c) PROVE TwinsHaveACause' /\ LoadInv'
  BY <1>3, <1>18 DEF CampaignChanges, runs
<1>19. CASE UNCHANGED vars
  BY <1>3, <1>19 DEF vars, runs
<1>20. ASSUME NEW s \in Syncs, LookForRun(s) PROVE TwinsHaveACause' /\ LoadInv'
  <2>1. UNCHANGED <<table, copy, upTo>> /\ pc' = [pc EXCEPT ![s] = "fetch"]
    BY <1>20 DEF LookForRun, Goto
  <2>2. \A q \in Syncs : Kept(q)
    BY <1>0, <2>1 DEF RunTypes, Kept, Writing
  <2> QED
    BY <1>1, <2>1, <2>2
<1> QED
  BY <1>5, <1>6, <1>7, <1>8, <1>9, <1>10, <1>11, <1>12, <1>13, <1>14, <1>15, <1>16, <1>17, <1>18,
     <1>19, <1>20 DEF Next, SyncStep, RequestStep

\* What run s knows and what it has still to do are as they were.
SameRun(s) == pc'[s] = pc[s] /\ want'[s] = want[s] /\ copy'[s] = copy[s] /\ todo'[s] = todo[s]

\* The progress of a run is of its own state and of the rows.
LEMMA ProgressKept ==
    ASSUME UNCHANGED table, NEW s \in Syncs, SameRun(s), NEW c \in Campaigns, Progress(s, c)
    PROVE  Progress(s, c)'
<1>1. UNCHANGED rows
  BY DEF table
<1> QED
  BY <1>1 DEF SameRun, Progress, Untouched, Said, Over, RowsOf, Ids

\* A run that was left alone is as calm as it was.
LEMMA CalmKept ==
    ASSUME CalmInv, NEW s \in Syncs, SameRun(s), s \in calm' => s \in calm /\ UNCHANGED table
    PROVE  /\ Writing(s)' => Work(s)'
           /\ s \in calm' => Writing(s)' /\ \A c \in Campaigns : Progress(s, c)'
<1>1. Writing(s)' => Work(s)'
  BY DEF CalmInv, SameRun, Writing, Work
<1>2. ASSUME s \in calm' PROVE Writing(s)' /\ \A c \in Campaigns : Progress(s, c)'
  <2>1. Writing(s) /\ (\A c \in Campaigns : Progress(s, c)) /\ UNCHANGED table
    BY <1>2 DEF CalmInv
  <2> QED
    BY <2>1, ProgressKept DEF SameRun, Writing
<1> QED
  BY <1>1, <1>2

\* So is one of the others, after a step of run s.
LEMMA CalmOfOne ==
    ASSUME CalmInv, NEW s \in Syncs,
           \A q \in Syncs \ {s} : SameRun(q) /\ (q \in calm' => q \in calm /\ UNCHANGED table),
           Writing(s)' => Work(s)',
           s \in calm' => Writing(s)' /\ \A c \in Campaigns : Progress(s, c)'
    PROVE  CalmInv'
<1>1. ASSUME NEW q \in Syncs, q # s
      PROVE  /\ Writing(q)' => Work(q)'
             /\ q \in calm' => Writing(q)' /\ \A c \in Campaigns : Progress(q, c)'
  BY <1>1, CalmKept
<1> QED
  BY <1>1 DEF CalmInv

\* Staff, the webhook and the cleanup, who write for no run.
LEMMA CalmOfNone ==
    ASSUME CalmInv, UNCHANGED runs, calm' \subseteq calm, calm' = {} \/ UNCHANGED table
    PROVE  CalmInv'
<1>1. \A s \in Syncs : SameRun(s)
  BY DEF runs, SameRun
<1> QED
  BY <1>1, CalmKept DEF CalmInv

\* A run that is forgotten writes nothing.
LEMMA CalmOfForgotten ==
    ASSUME TypeOK, CalmInv, NEW s \in Syncs, Forget(s), calm' = calm \ {s}, UNCHANGED table
    PROVE  CalmInv'
<1>1. \A q \in Syncs \ {s} : SameRun(q)
  BY DEF TypeOK, Forget, Goto, SameRun
<1>2. ~Writing(s)' /\ s \notin calm'
  BY DEF TypeOK, Forget, Goto, Writing
<1> QED
  BY <1>1, <1>2, CalmOfOne

\* What a run loads of a campaign is what there is, and no more is left to do for it
\* than to write what differs.
LEMMA CalmLoads ==
    ASSUME TypeOK, CalmInv, NEW s \in Syncs, LoadExisting(s)
    PROVE  CalmInv'
<1> DEFINE loaded(k) == [c \in Campaigns |->
                           IF k[c] = 0 THEN NoCopy(c) ELSE [id |-> k[c], row |-> rows[k[c]]]]
           rest(k) == {c \in Campaigns : want[s][c] # Unlisted /\ Differs(loaded(k)[c], want[s][c])}
<1>1. PICK k \in [Campaigns -> {0} \cup Ids] :
         /\ \A c \in Campaigns : IF TimersOf(c) = {} THEN k[c] = 0 ELSE k[c] \in TimersOf(c)
         /\ copy' = [copy EXCEPT ![s] = loaded(k)]
         /\ todo' = [todo EXCEPT ![s] = rest(k)]
  BY DEF LoadExisting
<1>2. UNCHANGED <<table, want>> /\ pc' = [pc EXCEPT ![s] = "apply"] /\ calm' = calm \cup {s}
  BY DEF LoadExisting, Goto
<1>3. pc'[s] = "apply" /\ copy'[s] = loaded(k) /\ todo'[s] = rest(k)
  BY <1>1, <1>2 DEF TypeOK
<1>4. \A q \in Syncs \ {s} : SameRun(q)
  BY <1>1, <1>2 DEF TypeOK, SameRun
<1>5. Work(s)' /\ Writing(s)'
  BY <1>2, <1>3 DEF Work, Writing
<1>6. ASSUME NEW c \in Campaigns PROVE Progress(s, c)'
  <2>1. rows' = rows /\ Ids' = Ids /\ RowsOf(c)' = RowsOf(c)
    BY <1>2, SameRows DEF table
  <2>2. copy'[s][c] = IF k[c] = 0 THEN NoCopy(c) ELSE [id |-> k[c], row |-> rows[k[c]]]
    BY <1>3
  <2>3. 0 \notin Ids /\ RowsOf(c) \subseteq Ids
    BY DEF TypeOK, RowsOf
  <2>4. IF RowsOf(c) = {} THEN k[c] = 0 ELSE k[c] \in RowsOf(c)
    BY <1>1 DEF TimersOf
  <2>5. Untouched(s, c)'
    <3>1. CASE k[c] = 0
      BY <2>1, <2>2, <2>3, <2>4, <3>1 DEF Untouched, NoCopy
    <3>2. CASE k[c] # 0
      BY <2>1, <2>2, <2>4, <3>2 DEF Untouched
    <3> QED
      BY <3>1, <3>2
  <2>6. CASE want[s][c] = Unlisted
    BY <1>2, <1>3, <2>5, <2>6 DEF Progress
  <2>7. CASE want[s][c] # Unlisted /\ c \in rest(k)
    BY <1>2, <1>3, <2>5, <2>7 DEF Progress
  <2>8. CASE want[s][c] # Unlisted /\ c \notin rest(k)
    <3>1. ~Differs(copy'[s][c], want[s][c])
      BY <1>3, <2>8
    <3>2. copy'[s][c].id # 0 /\ copy'[s][c].row.facts = want[s][c] /\ copy'[s][c].row.status = "active"
      BY <3>1 DEF Differs
    <3>3. Said(c, want[s][c])'
      BY <1>2, <2>1, <2>5, <3>2 DEF Untouched, Said
    <3> QED
      BY <1>2, <1>3, <2>8, <3>3 DEF Progress
  <2> QED
    BY <2>6, <2>7, <2>8
<1> QED
  BY <1>2, <1>4, <1>5, <1>6, CalmOfOne

\* The rows of one campaign are not those of another.
LEMMA RowsApart == ASSUME NEW c, NEW d, NEW i \in RowsOf(c), i \in RowsOf(d) PROVE c = d
  BY DEF RowsOf

\* A run that writes for one campaign keeps its progress with the others.
LEMMA OthersProgress ==
    ASSUME NEW s \in Syncs, NEW c, NEW d \in Campaigns, d # c, Progress(s, d),
           pc'[s] = pc[s], want'[s] = want[s], copy'[s] = copy[s], d \in todo'[s] <=> d \in todo[s],
           RowsOf(d)' = RowsOf(d), \A i \in RowsOf(d) : rows'[i] = rows[i]
    PROVE  Progress(s, d)'
<1>1. Untouched(s, d) => Untouched(s, d)'
  BY DEF Untouched
<1>2. \A v : Said(d, v) => Said(d, v)'
  BY DEF Said
<1>3. Over(s, d) => Over(s, d)'
  BY DEF Over
<1> QED
  BY <1>1, <1>2, <1>3 DEF Progress

\* After a run has written for a campaign, there is a timer that says so.
LEMMA CalmApplies ==
    ASSUME TypeOK, CopyInv, CalmInv, NEW s \in Syncs, NEW c \in Campaigns, Apply(s, c)
    PROVE  CalmInv'
<1> DEFINE k == copy[s][c]
           v == want[s][c]
           new == Desired(c, v)
<1>1. pc[s] = "apply" /\ c \in todo[s] /\ UNCHANGED <<pc, want, copy>>
  BY DEF Apply
<1>2. todo' = [todo EXCEPT ![s] = @ \ {c}] /\ calm' = calm \cap {s}
  BY DEF Apply, Disturb
<1>3. todo'[s] = todo[s] \ {c} /\ \A q \in Syncs \ {s} : todo'[q] = todo[q]
  BY <1>2 DEF TypeOK
<1>4. \A q \in Syncs \ {s} : SameRun(q) /\ q \notin calm'
  BY <1>1, <1>2, <1>3 DEF SameRun
<1>5. Writing(s) /\ Writing(s)' /\ Work(s) /\ v # Unlisted
  BY <1>1 DEF Writing, CalmInv, Work
<1>6. Work(s)'
  BY <1>1, <1>3, <1>5 DEF Work
<1>7. new \in Row /\ k.row \in Row /\ k.row.ref = c /\ upTo[s] \in 0..clock
  BY DesiredRow DEF TypeOK, CopyInv
<1>8. new.ref = c /\ new.facts = v /\ new.status = "active"
  BY DEF Desired
<1>9. ASSUME s \in calm', NEW d \in Campaigns PROVE Progress(s, d)'
  <2>1. Progress(s, c) /\ Progress(s, d)
    BY <1>2, <1>9 DEF CalmInv
  <2>2. Untouched(s, c)
    BY <1>1, <1>5, <2>1 DEF Progress
  <2>3. CASE k.id = 0
    <3>1. Insert(new, upTo[s])
      BY <2>3 DEF Apply
    <3> HIDE DEF new
    <3>2. /\ rows'[lastId + 1] = new /\ lastId + 1 \in RowsOf(c)'
          /\ \A i \in Ids : rows'[i] = rows[i]
          /\ \A ref : ref # c => RowsOf(ref)' = RowsOf(ref)
      BY <1>7, <1>8, <3>1, Inserted
    <3>3. CASE d = c
      <4>1. Said(c, v)'
        BY <1>1, <1>8, <3>2 DEF Said
      <4> QED
        BY <1>1, <1>3, <1>5, <3>3, <4>1 DEF Progress
    <3>4. CASE d # c
      <4>1. RowsOf(d) \subseteq Ids
        BY DEF RowsOf
      <4> QED
        BY <1>1, <1>3, <2>1, <3>2, <3>4, <4>1, OthersProgress
    <3> QED
      BY <3>3, <3>4
  <2>4. CASE k.id # 0
    <3>1. Save(k.id, k.row, new)
      BY <2>4 DEF Apply
    <3>2. k.id \in RowsOf(c) /\ rows[k.id] = k.row /\ k.id \in Ids
      BY <2>2, <2>4 DEF Untouched, RowsOf
    <3> HIDE DEF new, k
    <3>3. /\ \A j \in Ids : j # k.id => rows'[j] = rows[j]
          /\ rows'[k.id] = Merged(rows[k.id], k.row, new)
          /\ \A ref : RowsOf(ref)' = RowsOf(ref)
      BY <1>7, <1>8, <3>1, <3>2, Saved, SavedInPlace
    <3>4. CASE d = c
      <4>1. Merged(k.row, k.row, new).facts = new.facts /\ Merged(k.row, k.row, new).status = new.status
        BY <1>7 DEF Merged, Row
      <4>2. Said(c, v)'
        BY <1>1, <1>8, <3>2, <3>3, <4>1 DEF Said
      <4> QED
        BY <1>1, <1>3, <1>5, <3>4, <4>2 DEF Progress
    <3>5. CASE d # c
      <4>1. k.id \notin RowsOf(d) /\ RowsOf(d) \subseteq Ids
        BY <3>2, <3>5, RowsApart DEF RowsOf
      <4>2. \A i \in RowsOf(d) : rows'[i] = rows[i]
        BY <3>3, <4>1
      <4> QED
        BY <1>1, <1>3, <2>1, <3>3, <3>5, <4>2, OthersProgress
    <3> QED
      BY <3>4, <3>5
  <2> QED
    BY <2>3, <2>4
<1> QED
  BY <1>4, <1>5, <1>6, <1>9, CalmOfOne

\* When all was written, what is left is stale.
LEMMA CalmApplied ==
    ASSUME TypeOK, CalmInv, NEW s \in Syncs, Applied(s)
    PROVE  CalmInv'
<1>1. /\ pc[s] = "apply" /\ todo[s] = {} /\ UNCHANGED <<table, want, copy, calm>>
      /\ todo' = [todo EXCEPT ![s] = Stale(s)] /\ pc' = [pc EXCEPT ![s] = "cancel"]
  BY DEF Applied, Goto
<1>2. todo'[s] = Stale(s) /\ pc'[s] = "cancel"
  BY <1>1 DEF TypeOK
<1>3. \A q \in Syncs \ {s} : SameRun(q)
  BY <1>1 DEF TypeOK, SameRun
<1>4. Writing(s)' /\ Work(s)'
  BY <1>1, <1>2 DEF Writing, Work, Stale
<1>5. ASSUME s \in calm', NEW c \in Campaigns PROVE Progress(s, c)'
  <2>1. Progress(s, c)
    BY <1>1, <1>5 DEF CalmInv
  <2>2. rows' = rows /\ RowsOf(c)' = RowsOf(c)
    BY <1>1, SameRows DEF table
  <2>3. CASE want[s][c] # Unlisted
    <3>1. Said(c, want[s][c])
      BY <1>1, <2>1, <2>3 DEF Progress
    <3>2. Said(c, want[s][c])'
      BY <1>1, <2>2, <3>1 DEF Said
    <3> QED
      BY <1>1, <1>2, <2>3, <3>2 DEF Progress
  <2>4. CASE want[s][c] = Unlisted
    <3>1. Untouched(s, c)
      BY <1>1, <2>1, <2>4 DEF Progress
    <3>2. Untouched(s, c)'
      BY <1>1, <2>2, <3>1 DEF Untouched
    <3>3. c \notin Stale(s) => Over(s, c)'
      <4>1. ASSUME c \notin Stale(s), copy[s][c].id # 0 PROVE copy[s][c].row.status = "canceled"
        BY <2>4, <4>1 DEF Stale
      <4> QED
        BY <1>1, <3>2, <4>1 DEF Untouched, Over
    <3> QED
      BY <1>1, <1>2, <2>4, <3>2, <3>3 DEF Progress
  <2> QED
    BY <2>3, <2>4
<1> QED
  BY <1>1, <1>3, <1>4, <1>5, CalmOfOne

\* After a run has canceled what is stale of a campaign, its timer is canceled.
LEMMA CalmCancels ==
    ASSUME TypeOK, CopyInv, CalmInv, NEW s \in Syncs, NEW c \in Campaigns, CancelStale(s, c)
    PROVE  CalmInv'
<1> DEFINE k == copy[s][c]
           new == [k.row EXCEPT !.status = "canceled"]
<1>1. pc[s] = "cancel" /\ c \in todo[s] /\ UNCHANGED <<pc, want, copy>> /\ Save(k.id, k.row, new)
  BY DEF CancelStale
<1>2. todo' = [todo EXCEPT ![s] = @ \ {c}] /\ calm' = calm \cap {s}
  BY DEF CancelStale, Disturb
<1>3. todo'[s] = todo[s] \ {c} /\ \A q \in Syncs \ {s} : todo'[q] = todo[q]
  BY <1>2 DEF TypeOK
<1>4. \A q \in Syncs \ {s} : SameRun(q) /\ q \notin calm'
  BY <1>1, <1>2, <1>3 DEF SameRun
<1>5. Writing(s) /\ Writing(s)' /\ Work(s) /\ want[s][c] = Unlisted /\ k.id # 0
  BY <1>1 DEF Writing, CalmInv, Work
<1>6. Work(s)'
  BY <1>1, <1>3, <1>5 DEF Work
<1>7. k.row \in Row
  BY DEF TypeOK
<1>8. new \in Row /\ new.status = "canceled" /\ new.facts = k.row.facts /\ new.ref = k.row.ref
  BY <1>7 DEF Row, Statuses
<1>9. ASSUME s \in calm', NEW d \in Campaigns PROVE Progress(s, d)'
  <2>1. Progress(s, c) /\ Progress(s, d)
    BY <1>2, <1>9 DEF CalmInv
  <2>2. Untouched(s, c)
    BY <1>1, <1>5, <2>1 DEF Progress
  <2>3. k.id \in RowsOf(c) /\ rows[k.id] = k.row /\ k.id \in Ids
    BY <1>5, <2>2 DEF Untouched, RowsOf
  <2> HIDE DEF new, k
  <2>4. /\ \A j \in Ids : j # k.id => rows'[j] = rows[j]
        /\ rows'[k.id] = Merged(rows[k.id], k.row, new)
        /\ \A ref : RowsOf(ref)' = RowsOf(ref)
    BY <1>1, <1>7, <1>8, <2>3, Saved, SavedInPlace
  <2>5. CASE d = c
    <3>1. Merged(k.row, k.row, new).status = "canceled"
      BY <1>7, <1>8 DEF Merged, Row
    <3>2. Over(s, c)'
      BY <1>1, <1>5, <2>3, <2>4, <3>1 DEF Over, k
    <3> QED
      BY <1>1, <1>3, <1>5, <2>5, <3>2 DEF Progress
  <2>6. CASE d # c
    <3>1. k.id \notin RowsOf(d) /\ RowsOf(d) \subseteq Ids
      BY <2>3, <2>6, RowsApart DEF RowsOf
    <3>2. \A i \in RowsOf(d) : rows'[i] = rows[i]
      BY <2>4, <3>1
    <3> QED
      BY <1>1, <1>3, <2>1, <2>4, <2>6, <3>2, OthersProgress
  <2> QED
    BY <2>5, <2>6
<1> QED
  BY <1>4, <1>5, <1>6, <1>9, CalmOfOne

\* Every step keeps what a run that nobody disturbs has reached.
LEMMA CalmStep == TypeOK /\ CopyInv /\ CalmInv /\ [Next]_vars => CalmInv'
<1> SUFFICES ASSUME TypeOK, CopyInv, CalmInv, [Next]_vars PROVE CalmInv'
  OBVIOUS
<1>1. ASSUME NEW s \in Syncs, FetchCampaigns(s) PROVE CalmInv'
  <2>1. pc[s] = "fetch" /\ pc' = [pc EXCEPT ![s] = "load"] /\ UNCHANGED <<table, copy, todo, calm>>
    BY <1>1 DEF FetchCampaigns, Goto
  <2>2. \A q \in Syncs \ {s} : want'[q] = want[q]
    BY <1>1 DEF FetchCampaigns, TypeOK
  <2>3. \A q \in Syncs \ {s} : SameRun(q)
    BY <2>1, <2>2 DEF TypeOK, SameRun
  <2>4. ~Writing(s)' /\ s \notin calm'
    BY <2>1 DEF TypeOK, Writing, CalmInv
  <2> QED
    BY <2>1, <2>3, <2>4, CalmOfOne
<1>10. ASSUME NEW s \in Syncs, LookForRun(s) PROVE CalmInv'
  <2>1. pc[s] = "idle" /\ pc' = [pc EXCEPT ![s] = "fetch"] /\ UNCHANGED <<table, want, copy, todo, calm>>
    BY <1>10 DEF LookForRun, Goto
  <2>2. \A q \in Syncs \ {s} : SameRun(q)
    BY <2>1 DEF TypeOK, SameRun
  <2>3. ~Writing(s)' /\ s \notin calm'
    BY <2>1 DEF TypeOK, Writing, CalmInv
  <2> QED
    BY <2>1, <2>2, <2>3, CalmOfOne
<1>2. ASSUME NEW s \in Syncs, SyncStep(s) \/ SyncFails(s) PROVE CalmInv'
  BY <1>1, <1>2, CalmLoads, CalmApplies, CalmApplied, CalmCancels, CalmOfForgotten
  DEF SyncStep, SyncEnds, SyncFails
<1>3. ASSUME NEW a \in Requests, RequestBegins(a) PROVE CalmInv'
  BY <1>3, CalmOfNone DEF RequestBegins, StaffLoads, HookLooks, HookFinds
<1>4. ASSUME NEW a \in Requests, RequestStep(a) PROVE CalmInv'
  BY <1>4, CalmOfNone DEF RequestStep, Saves, HookInserts, HookLoads, Disturb
<1>5. ASSUME Create PROVE CalmInv'
  BY <1>5, CalmOfNone DEF Create, Disturb
<1>6. ASSUME NEW i \in Ids, Delete(i) PROVE CalmInv'
  BY <1>6, CalmOfNone DEF Delete, Disturb
<1>7. ASSUME NEW c \in Campaigns, CampaignChanges(c) PROVE CalmInv'
  BY <1>7, CalmOfNone DEF CampaignChanges
<1>8. ASSUME Restart PROVE CalmInv'
  BY <1>8 DEF Restart, CalmInv, Writing
<1>9. CASE UNCHANGED vars
  BY <1>9, CalmOfNone DEF vars
<1> QED
  BY <1>1, <1>2, <1>3, <1>4, <1>5, <1>6, <1>7, <1>8, <1>9, <1>10
  DEF Next

LEMMA InitialTimers == Init => IInv
<1> SUFFICES ASSUME Init PROVE IInv
  OBVIOUS
<1>1. Ids = {} /\ lastId = 0 /\ calm = {} /\ \A s \in Syncs : pc[s] = "idle"
  BY DEF Init, Ids
<1>2. \A ref : RowsOf(ref) = {}
  BY <1>1 DEF RowsOf
<1>3. GameTypes
  <2>1. Versions \cup {Unlisted} = 0..MaxVersion
    BY TimersAssumption DEF Versions, Unlisted
  <2>2. left \in BOOLEAN
    BY Zenon DEF Init
  <2>3. mode \in {"standalone", "webhook"} /\ feed \in [Campaigns -> 0..MaxVersion]
    BY <2>1 DEF Init
  <2> QED
    BY <2>2, <2>3 DEF GameTypes
<1>4. TableTypes
  <2>1. rows = << >> /\ took = << >> /\ knew = << >> /\ clock = 0
    BY DEF Init
  <2>2. << >> \in [{} -> Row] /\ << >> \in [{} -> 1..0] /\ << >> \in [{} -> 0..0]
    OBVIOUS
  <2>3. rows \in [Ids -> Row] /\ took \in [Ids -> 1..clock] /\ knew \in [Ids -> 0..clock]
    BY <1>1, <2>1, <2>2
  <2>4. lastId \in Nat /\ Ids \subseteq 1..lastId /\ clock \in Nat
    BY <1>1, <2>1
  <2> QED
    BY <2>3, <2>4 DEF TableTypes
<1>5. RunTypes /\ upTo \in Room /\ RequestTypes
  BY <1>1, Nothing0 DEF Init, RunTypes, Room, RequestTypes, Labels
<1>6. HookInv
  BY DEF Init, HookInv, NoRequest
<1>7. CopyInv
  BY DEF Init, CopyInv, NoCopies, NoCopy, NoRow
<1> QED
  BY <1>1, <1>2, <1>3, <1>4, <1>5, <1>6, <1>7, TypeParts DEF IInv, TwinsHaveACause, LoadInv, CalmInv, Writing

\* What TLC finds in the run's instance holds for any campaigns, identifiers, runs and
\* requests (SyncSovereigntyCampaignTimers, the handlers of api/timers and
\* api/timerwebhook).
THEOREM TimersInvariant == Spec => []IInv
<1>1. IInv /\ [Next]_vars => IInv'
  BY TypeStep, HookStep, CopyStep, TwinStep, CalmStep DEF IInv
<1> QED
  BY <1>1, InitialTimers, PTL DEF Spec

\* For any number of overlapping runs and requests, of two timers with a campaign's
\* reference the one that was given it last was given it by staff or by a run that had
\* loaded the table before the other had it, and the external system has one timer for
\* each of its identifiers (applyDesiredSovRecords, Create and Update in timers).
THEOREM TwinsAreOfBlindWriters == Spec => []TwinsHaveACause
<1>1. IInv => TwinsHaveACause
  BY DEF IInv
<1> QED
  BY <1>1, TimersInvariant, PTL

\* At the end of a run that nobody disturbed the table says what the run wanted.
LEMMA EndSettles ==
    ASSUME TypeOK, CalmInv, NEW s \in Syncs, SyncEnds(s), s \in calm, NEW c \in Campaigns
    PROVE  SettledAs(c, want[s][c])
<1> DEFINE v == want[s][c]
<1>1. pc[s] = "cancel" /\ todo[s] = {} /\ Progress(s, c)
  BY DEF SyncEnds, CalmInv
<1>2. IsFiniteSet(RowsOf(c))
  <2>1. IsFiniteSet(1..lastId)
    BY FS_Interval DEF TypeOK
  <2>2. RowsOf(c) \subseteq 1..lastId
    BY DEF RowsOf, TypeOK
  <2> QED
    BY <2>1, <2>2, FS_Subset
<1>3. ASSUME Cardinality(RowsOf(c)) = 1, NEW i \in RowsOf(c), NEW j \in RowsOf(c) PROVE i = j
  <2>1. \E x : RowsOf(c) = {x}
    BY <1>2, <1>3, FS_Singleton
  <2> QED
    BY <2>1
<1>4. CASE v # Unlisted
  <2>1. PICK j \in RowsOf(c) : rows[j].facts = v /\ rows[j].status = "active"
    BY <1>1, <1>4 DEF Progress, Said
  <2> QED
    BY <1>3, <1>4, <2>1 DEF SettledAs
<1>5. CASE v = Unlisted
  <2>1. RowsOf(c) = {} \/ \E j \in RowsOf(c) : rows[j].status = "canceled"
    BY <1>1, <1>5 DEF Progress, Over
  <2> QED
    BY <1>3, <1>5, <2>1 DEF SettledAs
<1> QED
  BY <1>4, <1>5

\* Whatever overlapped before, a run that ends without an error and alone with the
\* table since it loaded it leaves every campaign it wanted active and up to date, and
\* every other canceled.
THEOREM CalmRunsSettle == Spec => CalmRunsSettleTheTable
<1>1. IInv /\ [Next]_vars =>
        [\A s \in Syncs : SyncEnds(s) /\ s \in calm =>
            \A c \in Campaigns : SettledAs(c, want[s][c])]_vars
  BY EndSettles DEF IInv
<1> QED
  BY <1>1, TimersInvariant, PTL DEF Spec, CalmRunsSettleTheTable

-----------------------------------------------------------------------------
(* SkyhookWatch *)

\* The remainder of what is less than twice the divisor.
LEMMA SmallRemainder ==
    ASSUME NEW n \in Nat \ {0}, NEW a \in Nat, a < 2 * n
    PROVE  a % n = IF a < n THEN a ELSE a - n
  OBVIOUS

LEMMA RemainderType == ASSUME NEW n \in Nat \ {0}, NEW a \in Nat PROVE a % n \in 0..n-1
  OBVIOUS

LEMMA PositiveQuotient == ASSUME NEW n \in Nat \ {0}, NEW a \in Nat PROVE a \div n \in Nat
  OBVIOUS

\* A run polls at least one character, and none twice.
LEMMA RequestsType == ASSUME NEW n \in Nat \ {0} PROVE RequestsPerRun(n) \in 1..n
<1>1. SinceWindow \in Nat /\ CoverageWindow \in Nat /\ MinInterval \in Nat \ {0}
  BY SkyhookAssumption
<1>2. CoverageWindow \div n \in Nat
  BY <1>1, PositiveQuotient
<1> DEFINE every == Greater(MinInterval, CoverageWindow \div n)
<1>3. every \in Nat \ {0}
  BY <1>1, <1>2 DEF Greater
<1> HIDE DEF every
<1>4. SinceWindow \div every \in Nat
  BY <1>1, <1>3, PositiveQuotient
<1>5. Greater(1, SinceWindow \div every) \in Nat /\ Greater(1, SinceWindow \div every) >= 1
  BY <1>4 DEF Greater
<1> QED
  BY <1>5 DEF RequestsPerRun, Lesser, every

\* The eligible characters are finitely many, and each has a rank of its own.
LEMMA EligibleAreFinite ==
    ASSUME WatchTypeOK
    PROVE  IsFiniteSet(eligible) /\ Cardinality(eligible) \in Nat
<1>1. IsFiniteSet(Characters) /\ eligible \in SUBSET Characters
  BY SkyhookAssumption DEF WatchTypeOK
<1>2. IsFiniteSet(eligible)
  BY <1>1, FS_Subset
<1> QED
  BY <1>2, FS_CardinalityType

LEMMA RankType ==
    ASSUME WatchTypeOK, NEW c \in eligible
    PROVE  Rank(c) \in 1..Cardinality(eligible)
<1> DEFINE upTo_c == {d \in eligible : d =< c}
<1>1. IsFiniteSet(eligible) /\ Cardinality(eligible) \in Nat
  BY EligibleAreFinite
<1>2. upTo_c \in SUBSET eligible /\ c \in Nat
  BY SkyhookAssumption DEF WatchTypeOK
<1>3. c \in upTo_c
  BY <1>2
<1> HIDE DEF upTo_c
<1>4. IsFiniteSet(upTo_c) /\ Cardinality(upTo_c) =< Cardinality(eligible)
  BY <1>1, <1>2, FS_Subset
<1>5. Cardinality(upTo_c) \in Nat /\ Cardinality(upTo_c) # 0
  BY <1>3, <1>4, FS_CardinalityType, FS_EmptySet
<1>6. Rank(c) = Cardinality(upTo_c)
  BY DEF Rank, upTo_c
<1> QED
  BY <1>1, <1>4, <1>5, <1>6

LEMMA RankIsItsOwn ==
    ASSUME WatchTypeOK, NEW c \in eligible, NEW d \in eligible, Rank(c) = Rank(d)
    PROVE  c = d
<1> DEFINE Below(x) == {e \in eligible : e =< x}
<1>1. IsFiniteSet(eligible) /\ eligible \subseteq Nat
  BY EligibleAreFinite, SkyhookAssumption DEF WatchTypeOK
<1>2. ASSUME NEW x \in eligible, NEW y \in eligible, x =< y, Cardinality(Below(x)) = Cardinality(Below(y))
      PROVE  x = y
  <2>1. Below(x) \in SUBSET Below(y)
    <3>1. ASSUME NEW e \in Below(x) PROVE e \in Below(y)
      <4>1. e \in eligible /\ e =< x /\ e \in Nat /\ x \in Nat /\ y \in Nat
        BY <1>1, <3>1
      <4>2. e =< y
        BY <1>2, <4>1
      <4> QED
        BY <4>1, <4>2
    <3> QED
      BY <3>1
  <2>2. IsFiniteSet(Below(y))
    <3>1. Below(y) \in SUBSET eligible
      OBVIOUS
    <3> HIDE DEF Below
    <3> QED
      BY <1>1, <3>1, FS_Subset
  <2>3. Below(x) = Below(y)
    <3> HIDE DEF Below
    <3> QED
      BY <1>2, <2>1, <2>2, FS_Subset
  <2>4. y \in Below(y)
    BY <1>1
  <2>5. y \in Below(x)
    BY <2>3, <2>4
  <2> QED
    BY <1>1, <1>2, <2>5
<1>3. Cardinality(Below(c)) = Cardinality(Below(d))
  BY DEF Rank
<1> HIDE DEF Below
<1>4. c =< d \/ d =< c
  BY <1>1
<1> QED
  BY <1>2, <1>3, <1>4

\* An order lists the eligible characters by their rank.
LEMMA OrderType ==
    ASSUME NEW order \in InOrder, Cardinality(eligible) \in Nat
    PROVE  /\ Len(order) = Cardinality(eligible)
           /\ \A i \in 1..Cardinality(eligible) : order[i] \in eligible /\ Rank(order[i]) = i
<1>1. /\ order \in [1..Cardinality(eligible) -> eligible]
      /\ \A i \in DOMAIN order : Rank(order[i]) = i
  BY DEF InOrder
<1>2. order \in Seq(eligible) /\ Len(order) = Cardinality(eligible)
  BY <1>1
<1> QED
  BY <1>1, <1>2

\* Those who take their turn are eligible, and are all within reach of the cursor.
LEMMA SelectionType ==
    ASSUME WatchTypeOK, eligible # {}, NEW order \in InOrder, NEW at \in 0..Cardinality(eligible) - 1
    PROVE  /\ Selection(order, at) \in Seq(eligible)
           /\ \A c \in eligible :
                 Before(Cardinality(eligible), c, at) < RequestsPerRun(Cardinality(eligible))
                   => c \in Range(Selection(order, at))
<1> DEFINE n == Cardinality(eligible)
           k == RequestsPerRun(n)
<1>1. n \in Nat /\ n # 0
  BY EligibleAreFinite, FS_EmptySet
<1>2. k \in 1..n
  BY <1>1, RequestsType
<1>3. Len(order) = n /\ \A i \in 1..n : order[i] \in eligible /\ Rank(order[i]) = i
  BY <1>1, OrderType
<1>4. Selection(order, at) = [i \in 1..k |-> order[((at + i - 1) % n) + 1]]
  BY <1>3 DEF Selection
<1> HIDE DEF n, k
<1>5. ASSUME NEW i \in 1..k PROVE ((at + i - 1) % n) + 1 \in 1..n
  <2>1. at + i - 1 \in Nat /\ n \in Nat \ {0}
    BY <1>1, <1>2 DEF n
  <2> QED
    BY <2>1, RemainderType
<1>6. Selection(order, at) \in [1..k -> eligible]
  BY <1>3, <1>4, <1>5
<1>7. Selection(order, at) \in Seq(eligible)
  BY <1>2, <1>1, <1>6
<1>8. ASSUME NEW c \in eligible, Before(n, c, at) < k PROVE c \in Range(Selection(order, at))
  <2>1. Rank(c) \in 1..n
    BY RankType DEF n
  <2>2. at % n = at /\ at \in Nat
    BY <1>1, SmallRemainder DEF n
  <2> DEFINE i == Before(n, c, at) + 1
  <2>3. Before(n, c, at) = IF Rank(c) > at THEN Rank(c) - 1 - at ELSE Rank(c) - 1 - at + n
    BY <2>2 DEF Before
  <2>4. at \in 0..n-1
    BY DEF n
  <2>5. i \in 1..k
    BY <1>1, <1>2, <1>8, <2>1, <2>3, <2>4
  <2>6. (at + i - 1) % n = Rank(c) - 1
    <3>1. CASE Rank(c) > at
      <4>1. at + i - 1 = Rank(c) - 1
        BY <2>1, <2>3, <2>4, <3>1
      <4> QED
        BY <1>1, <2>1, <4>1, SmallRemainder
    <3>2. CASE ~(Rank(c) > at)
      <4>1. at + i - 1 = Rank(c) - 1 + n
        BY <1>1, <2>1, <2>3, <2>4, <3>2
      <4> QED
        BY <1>1, <2>1, <4>1, SmallRemainder
    <3> QED
      BY <3>1, <3>2
  <2> HIDE DEF i
  <2>7. Selection(order, at)[i] = order[Rank(c)]
    <3>1. Selection(order, at)[i] = order[((at + i - 1) % n) + 1]
      BY <1>4, <2>5
    <3> QED
      BY <2>1, <2>6, <3>1
  <2>8. order[Rank(c)] = c
    BY <1>3, <2>1, RankIsItsOwn
  <2> QED
    BY <1>6, <2>5, <2>7, <2>8 DEF Range
<1> QED
  BY <1>7, <1>8 DEF n, k

\* The next cursor has passed those who take their turn.
LEMMA NextTurnPasses ==
    ASSUME WatchTypeOK, eligible # {}, NEW at \in 0..Cardinality(eligible) - 1, NEW c \in eligible,
           NEW n, n = Cardinality(eligible), NEW k, k = RequestsPerRun(n)
    PROVE  /\ NextTurn(n, at) \in 0..n-1
           /\ Before(n, c, at) \in 0..n-1
           /\ Before(n, c, NextTurn(n, at)) \in 0..n-1
           /\ Before(n, c, at) >= k => Before(n, c, NextTurn(n, at)) = Before(n, c, at) - k
<1>1. n \in Nat /\ n # 0
  BY EligibleAreFinite, FS_EmptySet
<1>2. k \in 1..n /\ Rank(c) \in 1..n /\ at \in 0..n-1
  BY <1>1, RequestsType, RankType
<1>3. at % n = at
  BY <1>1, <1>2, SmallRemainder
<1>4. NextTurn(n, at) = IF at + k < n THEN at + k ELSE at + k - n
  <2> DEFINE next == at + k
  <2>1. next \in Nat /\ next < 2 * n /\ n \in Nat \ {0}
    BY <1>1, <1>2
  <2> HIDE DEF next
  <2>2. next % n = IF next < n THEN next ELSE next - n
    BY <2>1, SmallRemainder
  <2>3. NextTurn(n, at) = next % n
    BY DEF NextTurn, next
  <2> QED
    BY <1>1, <1>2, <2>2, <2>3 DEF next
<1>5. NextTurn(n, at) \in 0..n-1
  BY <1>1, <1>2, <1>4
<1>6. NextTurn(n, at) % n = NextTurn(n, at)
  BY <1>1, <1>5, SmallRemainder
<1>7. Before(n, c, at) = IF Rank(c) > at THEN Rank(c) - 1 - at ELSE Rank(c) - 1 - at + n
  BY <1>3 DEF Before
<1>8. Before(n, c, NextTurn(n, at)) =
        IF Rank(c) > NextTurn(n, at) THEN Rank(c) - 1 - NextTurn(n, at)
                                     ELSE Rank(c) - 1 - NextTurn(n, at) + n
  BY <1>6 DEF Before
<1> QED
  BY <1>1, <1>2, <1>4, <1>5, <1>7, <1>8

LEMMA BeforeType ==
    ASSUME WatchTypeOK, NEW c \in eligible, NEW x \in Nat
    PROVE  Before(Cardinality(eligible), c, x) \in 0..Cardinality(eligible) - 1
<1>1. Cardinality(eligible) \in Nat \ {0}
  BY EligibleAreFinite, FS_EmptySet
<1>2. x % Cardinality(eligible) \in 0..Cardinality(eligible) - 1 /\ Rank(c) \in 1..Cardinality(eligible)
  BY <1>1, RemainderType, RankType
<1> QED
  BY <1>1, <1>2 DEF Before

\* The parts of the types, of which an action changes one or two.
NotedTypes ==
    /\ cursor \in Nat /\ eligible \subseteq Characters /\ waited \in [Characters -> Nat]
ListTypes ==
    /\ now \in Nat /\ born \in [Notifications -> Nat]
    /\ list \in [Characters -> SUBSET Notifications] /\ etag \in [Characters -> SUBSET Notifications]
PollTypes ==
    /\ stage \in [Runs -> Stages] /\ cutoff \in [Runs -> Int] /\ turn \in [Runs -> Nat]
    /\ queue \in [Runs -> Seq(Characters)]
    /\ pending \in [Runs -> SUBSET Notifications] /\ missing \in [Runs -> SUBSET Notifications]

LEMMA WatchParts == WatchTypeOK <=> NotedTypes /\ ListTypes /\ PollTypes
  BY DEF WatchTypeOK, NotedTypes, ListTypes, PollTypes

LEMMA WindowType == Window \in Nat
<1>1. 60 \in Nat \ {0} /\ SinceWindow \in Nat
  BY SkyhookAssumption
<1> QED
  BY <1>1, PositiveQuotient DEF Window

\* A queue gives characters, and leaves characters.
LEMMA QueueHead ==
    ASSUME NEW q \in Seq(Characters), q # << >>
    PROVE  Head(q) \in Characters /\ Tail(q) \in Seq(Characters)
  OBVIOUS

\* A run begins with a selection of the eligible characters.
LEMMA BeginsInTurn ==
    ASSUME WatchTypeOK, NEW r \in Runs, Begin(r)
    PROVE  /\ Cardinality(eligible) \in Nat \ {0}
           /\ \E order \in InOrder, at \in 0..Cardinality(eligible) - 1 :
                /\ at = cursor % Cardinality(eligible)
                /\ queue' = [queue EXCEPT ![r] = Selection(order, at)]
                /\ Selection(order, at) \in Seq(Characters)
                /\ turn' = [turn EXCEPT ![r] = NextTurn(Cardinality(eligible), at)]
                /\ NextTurn(Cardinality(eligible), at) \in Nat
                /\ waited' = IF \E q \in Runs : stage[q] = "select" THEN NoOne
                             ELSE [c \in Characters |->
                                     IF c \in eligible /\ c \notin Range(Selection(order, at))
                                       THEN waited[c] + 1 ELSE 0]
<1>1. Cardinality(eligible) \in Nat \ {0}
  BY EligibleAreFinite, FS_EmptySet DEF Begin
<1>2. PICK order \in InOrder : LET at == cursor % Len(order) IN
          /\ queue' = [queue EXCEPT ![r] = Selection(order, at)]
          /\ turn' = [turn EXCEPT ![r] = NextTurn(Len(order), at)]
          /\ waited' = IF \E q \in Runs : stage[q] = "select" THEN NoOne
                       ELSE [c \in Characters |->
                               IF c \in eligible /\ c \notin Range(Selection(order, at))
                                 THEN waited[c] + 1 ELSE 0]
  BY DEF Begin
<1>3. Len(order) = Cardinality(eligible)
  BY <1>1, OrderType
<1>4. cursor % Cardinality(eligible) \in 0..Cardinality(eligible) - 1
  BY <1>1, RemainderType DEF WatchTypeOK
<1> DEFINE at == cursor % Cardinality(eligible)
<1>5. Selection(order, at) \in Seq(Characters)
  <2>1. Selection(order, at) \in Seq(eligible)
    BY <1>1, <1>4, SelectionType DEF Begin
  <2> QED
    BY <2>1 DEF WatchTypeOK
<1>6. NextTurn(Cardinality(eligible), at) \in Nat
  <2>1. at \in Nat /\ RequestsPerRun(Cardinality(eligible)) \in Nat
    BY <1>1, <1>4, RequestsType
  <2> HIDE DEF at
  <2>2. at + RequestsPerRun(Cardinality(eligible)) \in Nat
    BY <2>1
  <2> QED
    BY <1>1, <2>2, RemainderType DEF NextTurn
<1> QED
  BY <1>1, <1>2, <1>3, <1>4, <1>5, <1>6

\* Every step keeps the types.
LEMMA WatchTypeStep == WatchTypeOK /\ [WatchNext]_watchVars => WatchTypeOK'
<1> SUFFICES ASSUME WatchTypeOK, [WatchNext]_watchVars PROVE NotedTypes' /\ ListTypes' /\ PollTypes'
  BY DEF WatchTypeOK, NotedTypes, ListTypes, PollTypes
<1>0. NotedTypes /\ ListTypes /\ PollTypes
  BY WatchParts
<1>a. NoOne \in [Characters -> Nat]
  BY DEF NoOne
<1>1. ASSUME Tick PROVE NotedTypes' /\ ListTypes' /\ PollTypes'
  BY <1>0, <1>1 DEF Tick, memory, game, polling, history, NotedTypes, ListTypes, PollTypes
<1>2. ASSUME NEW n \in Notifications, Listed(n) PROVE NotedTypes' /\ ListTypes' /\ PollTypes'
  <2>1. list' \in [Characters -> SUBSET Notifications]
    BY <1>0, <1>2 DEF Listed, ListTypes
  <2> QED
    BY <1>0, <1>2, <2>1 DEF Listed, memory, polling, history, NotedTypes, ListTypes, PollTypes
<1>3. ASSUME NEW c \in Characters, EligibleChanges(c) PROVE NotedTypes' /\ ListTypes' /\ PollTypes'
  BY <1>0, <1>3, <1>a DEF EligibleChanges, memory, game, polling, NotedTypes, ListTypes, PollTypes
<1>4. ASSUME NEW r \in Runs, Begin(r) PROVE NotedTypes' /\ ListTypes' /\ PollTypes'
  <2>1. PICK order \in InOrder, at \in 0..Cardinality(eligible) - 1 :
          /\ queue' = [queue EXCEPT ![r] = Selection(order, at)]
          /\ Selection(order, at) \in Seq(Characters)
          /\ turn' = [turn EXCEPT ![r] = NextTurn(Cardinality(eligible), at)]
          /\ NextTurn(Cardinality(eligible), at) \in Nat
          /\ waited' = IF \E q \in Runs : stage[q] = "select" THEN NoOne
                       ELSE [c \in Characters |->
                               IF c \in eligible /\ c \notin Range(Selection(order, at))
                                 THEN waited[c] + 1 ELSE 0]
    BY <1>4, BeginsInTurn
  <2>2. queue' \in [Runs -> Seq(Characters)] /\ turn' \in [Runs -> Nat]
    BY <1>0, <2>1 DEF PollTypes
  <2>3. waited' \in [Characters -> Nat]
    BY <1>0, <1>a, <2>1 DEF NotedTypes
  <2>4. now - Window \in Int
    BY <1>0, WindowType DEF ListTypes
  <2>5. stage' \in [Runs -> Stages] /\ cutoff' \in [Runs -> Int]
    BY <1>0, <1>4, <2>4 DEF Begin, MovesTo, Stages, PollTypes
  <2>6. UNCHANGED <<now, eligible, memory, game, pending, missing>>
    BY <1>4 DEF Begin
  <2> QED
    BY <1>0, <2>2, <2>3, <2>5, <2>6 DEF memory, game, NotedTypes, ListTypes, PollTypes
<1>5. ASSUME NEW r \in Runs, StoreCursor(r) PROVE NotedTypes' /\ ListTypes' /\ PollTypes'
  <2>1. cursor' \in Nat /\ waited' \in [Characters -> Nat]
    BY <1>0, <1>5, <1>a DEF StoreCursor, NotedTypes, PollTypes
  <2>2. stage' \in [Runs -> Stages] /\ turn' \in [Runs -> Nat]
    BY <1>0, <1>5 DEF StoreCursor, MovesTo, Stages, PollTypes
  <2>3. UNCHANGED <<now, eligible, etag, game, cutoff, queue, pending, missing>>
    BY <1>5 DEF StoreCursor
  <2> QED
    BY <1>0, <2>1, <2>2, <2>3 DEF game, NotedTypes, ListTypes, PollTypes
<1>6. ASSUME NEW r \in Runs, Poll(r) PROVE NotedTypes' /\ ListTypes' /\ PollTypes'
  <2> DEFINE c == Head(queue[r])
  <2>1. queue[r] \in Seq(Characters) /\ queue[r] # << >>
    BY <1>0, <1>6 DEF Poll, PollTypes
  <2>2. c \in Characters /\ Tail(queue[r]) \in Seq(Characters)
    BY <2>1, QueueHead
  <2>3. /\ etag' = [etag EXCEPT ![c] = list[c]] \/ etag' = etag
        /\ pending' = [pending EXCEPT ![r] = IF etag[c] = list[c] THEN {} ELSE list[c]]
        /\ queue' = [queue EXCEPT ![r] = Tail(queue[r])]
        /\ UNCHANGED <<now, eligible, cursor, game, stage, cutoff, turn, missing, waited>>
    BY <1>6 DEF Poll
  <2> HIDE DEF c
  <2>4. list[c] \in SUBSET Notifications
    BY <1>0, <2>2 DEF ListTypes
  <2>5. etag' \in [Characters -> SUBSET Notifications]
    BY <1>0, <2>3, <2>4 DEF ListTypes
  <2>6. pending' \in [Runs -> SUBSET Notifications]
    BY <1>0, <2>3, <2>4 DEF PollTypes
  <2>7. queue' \in [Runs -> Seq(Characters)]
    BY <1>0, <2>2, <2>3 DEF PollTypes
  <2> QED
    BY <1>0, <2>3, <2>5, <2>6, <2>7 DEF game, NotedTypes, ListTypes, PollTypes
<1>7. ASSUME NEW r \in Runs, PollFails(r) PROVE NotedTypes' /\ ListTypes' /\ PollTypes'
  <2>1. queue[r] \in Seq(Characters) /\ queue[r] # << >>
    BY <1>0, <1>7 DEF PollFails, PollTypes
  <2>2. Tail(queue[r]) \in Seq(Characters) /\ << >> \in Seq(Characters)
    BY <2>1, QueueHead
  <2>3. queue' \in [Runs -> Seq(Characters)]
    BY <1>0, <1>7, <2>2 DEF PollFails, PollTypes
  <2> QED
    BY <1>0, <1>7, <2>3 DEF PollFails, memory, game, history, NotedTypes, ListTypes, PollTypes
<1>8. ASSUME NEW r \in Runs, NEW n \in Notifications, Look(r, n) \/ Make(r, n) \/ NotificationFails(r, n)
      PROVE  NotedTypes' /\ ListTypes' /\ PollTypes'
  <2>1. pending' = pending \/ pending' = [pending EXCEPT ![r] = pending[r] \ {n}]
    BY <1>8 DEF Look, Make, NotificationFails, Processed
  <2>2. pending[r] \ {n} \in SUBSET Notifications
    BY <1>0 DEF PollTypes
  <2>3. pending' \in [Runs -> SUBSET Notifications]
    BY <1>0, <2>1, <2>2 DEF PollTypes
  <2>4. missing' \in [Runs -> SUBSET Notifications]
    BY <1>0, <1>8 DEF Look, Make, NotificationFails, PollTypes
  <2>5. UNCHANGED <<now, eligible, cursor, etag, game, stage, cutoff, turn, queue, waited>>
    BY <1>8 DEF Look, Make, NotificationFails, memory, history
  <2> QED
    BY <1>0, <2>3, <2>4, <2>5 DEF game, NotedTypes, ListTypes, PollTypes
<1>9. ASSUME NEW R, Forgotten(R), UNCHANGED <<now, eligible, memory, game>>, waited' \in [Characters -> Nat]
      PROVE  NotedTypes' /\ ListTypes' /\ PollTypes'
  <2>1. << >> \in Seq(Characters)
    OBVIOUS
  <2>2. PollTypes'
    BY <1>0, <1>9, <2>1 DEF Forgotten, Stages, PollTypes
  <2> QED
    BY <1>0, <1>9, <2>2 DEF memory, game, NotedTypes, ListTypes
<1>10. ASSUME NEW r \in Runs, End(r) \/ TimesOut(r) PROVE NotedTypes' /\ ListTypes' /\ PollTypes'
  BY <1>0, <1>9, <1>10 DEF End, TimesOut, history, NotedTypes
<1>11. ASSUME Crash PROVE NotedTypes' /\ ListTypes' /\ PollTypes'
  BY <1>9, <1>11, <1>a DEF Crash
<1>12. CASE UNCHANGED watchVars
  BY <1>0, <1>12 DEF watchVars, memory, game, polling, history, NotedTypes, ListTypes, PollTypes
<1> QED
  BY <1>1, <1>2, <1>3, <1>4, <1>5, <1>6, <1>7, <1>8, <1>10, <1>11, <1>12 DEF WatchNext, RunStep

\* Every step keeps what a run knows of its time, and fetches only while it polls.
LEMMA PollStep == WatchTypeOK /\ PollInv /\ [WatchNext]_watchVars => PollInv'
<1> SUFFICES ASSUME WatchTypeOK, PollInv, [WatchNext]_watchVars PROVE PollInv'
  OBVIOUS
<1>0. Window \in Nat /\ now \in Nat
  BY WindowType DEF WatchTypeOK
<1>1. ASSUME Tick PROVE PollInv'
  <2>1. now' = now + 1 /\ UNCHANGED <<stage, pending, cutoff>>
    BY <1>1 DEF Tick, polling
  <2>2. \A r \in Runs : cutoff[r] \in Int
    BY DEF WatchTypeOK
  <2> QED
    BY <1>0, <2>1, <2>2, WindowType DEF PollInv, Window
<1>2. ASSUME UNCHANGED <<now, polling>> PROVE PollInv'
  BY <1>2 DEF polling, PollInv
<1>3. ASSUME NEW r \in Runs, Begin(r) PROVE PollInv'
  BY <1>0, <1>3 DEF WatchTypeOK, Begin, MovesTo, PollInv
<1>4. ASSUME NEW r \in Runs, StoreCursor(r) PROVE PollInv'
  BY <1>4 DEF WatchTypeOK, StoreCursor, MovesTo, PollInv
<1>5. ASSUME NEW r \in Runs, Poll(r) PROVE PollInv'
  <2>1. /\ stage[r] = "poll" /\ UNCHANGED <<now, stage, cutoff>>
        /\ \A q \in Runs \ {r} : pending'[q] = pending[q]
    BY <1>5 DEF WatchTypeOK, Poll
  <2> QED
    BY <2>1 DEF PollInv
<1>6. ASSUME NEW r \in Runs, PollFails(r) PROVE PollInv'
  BY <1>6 DEF PollFails, PollInv
<1>7. ASSUME NEW r \in Runs, NEW n \in Notifications, Look(r, n) \/ Make(r, n) \/ NotificationFails(r, n)
      PROVE  PollInv'
  <2>1. pending' = pending \/ pending' = [pending EXCEPT ![r] = pending[r] \ {n}]
    BY <1>7 DEF Look, Make, NotificationFails, Processed
  <2>2. \A q \in Runs : pending'[q] \subseteq pending[q]
    BY <2>1 DEF WatchTypeOK
  <2>3. UNCHANGED <<now, stage, cutoff>>
    BY <1>7 DEF Look, Make, NotificationFails
  <2> QED
    BY <2>2, <2>3 DEF PollInv
<1>8. ASSUME NEW R, Forgotten(R), now' = now PROVE PollInv'
  BY <1>8 DEF Forgotten, PollInv
<1>9. ASSUME NEW r \in Runs, End(r) \/ TimesOut(r) PROVE PollInv'
  BY <1>8, <1>9 DEF End, TimesOut
<1>10. ASSUME Crash PROVE PollInv'
  BY <1>8, <1>10 DEF Crash
<1>11. ASSUME NEW n \in Notifications, Listed(n) PROVE PollInv'
  BY <1>2, <1>11 DEF Listed
<1>12. ASSUME NEW c \in Characters, EligibleChanges(c) PROVE PollInv'
  BY <1>2, <1>12 DEF EligibleChanges
<1>13. CASE UNCHANGED watchVars
  BY <1>2, <1>13 DEF watchVars
<1> QED
  BY <1>1, <1>3, <1>4, <1>5, <1>6, <1>7, <1>9, <1>10, <1>11, <1>12, <1>13 DEF WatchNext, RunStep

\* What is handled stays so while what leaves a run's hands has a record or a cause.
LEMMA HandledKept ==
    ASSUME NEW n, Handled(n), born'[n] = born[n],
           recorded \cup dropped \cup late \subseteq (recorded \cup dropped \cup late)',
           \A r \in Runs : n \in pending[r] /\ Recent(n, r) =>
              n \in (recorded \cup dropped \cup late)' \/ (n \in pending'[r] /\ cutoff'[r] = cutoff[r])
    PROVE  Handled(n)'
<1>1. CASE n \in recorded \cup dropped \cup late
  BY <1>1 DEF Handled
<1>2. CASE \E r \in Runs : n \in pending[r] /\ Recent(n, r)
  BY <1>2 DEF Handled, Recent
<1> QED
  BY <1>1, <1>2 DEF Handled

\* What is too old stays so: a run that begins passes it over too.
LEMMA TooOldKept ==
    ASSUME WatchTypeOK, NEW n \in Notifications, TooOld(n), born'[n] = born[n], now' \in Nat, now =< now',
           \A r \in Runs : stage'[r] # "idle" =>
              \/ stage[r] # "idle" /\ cutoff'[r] = cutoff[r]
              \/ cutoff'[r] = now - Window
    PROVE  TooOld(n)'
<1>1. born[n] \in Nat /\ now \in Nat /\ Window \in Nat
  BY WindowType DEF WatchTypeOK
<1>2. born[n] < now - Window
  BY DEF TooOld
<1>3. born'[n] < now' - Window
  BY <1>1, <1>2
<1>4. ASSUME NEW r \in Runs, stage'[r] # "idle" PROVE ~Recent(n, r)'
  <2>1. CASE stage[r] # "idle" /\ cutoff'[r] = cutoff[r]
    BY <2>1 DEF TooOld, Recent
  <2>2. CASE cutoff'[r] = now - Window
    BY <1>1, <1>2, <2>2 DEF Recent
  <2> QED
    BY <1>4, <2>1, <2>2
<1> QED
  BY <1>3, <1>4 DEF TooOld, Window

\* A step that stores no ETag and gives no run a list.
LEMMA HiddenKept ==
    ASSUME WatchTypeOK, HiddenInv,
           UNCHANGED <<etag, inTime>>, \A c \in Characters : list[c] \subseteq list'[c],
           \A n \in Notifications : (\E c \in Characters : n \in list[c]) => born'[n] = born[n],
           now' \in Nat, now =< now',
           recorded \cup dropped \cup late \subseteq (recorded \cup dropped \cup late)',
           \A n \in Notifications : \A r \in Runs : n \in pending[r] /\ Recent(n, r) =>
              n \in (recorded \cup dropped \cup late)' \/ (n \in pending'[r] /\ cutoff'[r] = cutoff[r]),
           \A r \in Runs : stage'[r] # "idle" =>
              \/ stage[r] # "idle" /\ cutoff'[r] = cutoff[r]
              \/ cutoff'[r] = now - Window
    PROVE  HiddenInv'
<1>1. ASSUME NEW n \in Notifications, born'[n] = born[n], Handled(n) PROVE Handled(n)'
  BY <1>1, HandledKept
<1>2. ASSUME NEW n \in Notifications, born'[n] = born[n], TooOld(n) PROVE TooOld(n)'
  BY <1>2, TooOldKept
<1>3. ASSUME NEW c \in Characters, NEW n \in etag[c]
      PROVE  n \in list'[c] /\ (Handled(n)' \/ TooOld(n)')
  <2>1. n \in Notifications /\ n \in list[c] /\ (Handled(n) \/ TooOld(n))
    BY DEF WatchTypeOK, HiddenInv
  <2> QED
    BY <1>1, <1>2, <2>1
<1>4. ASSUME NEW n \in inTime PROVE Handled(n)' /\ \E c \in Characters : n \in list'[c]
  <2>1. n \in Notifications /\ Handled(n) /\ \E c \in Characters : n \in list[c]
    BY DEF WatchTypeOK, HiddenInv
  <2> QED
    BY <1>1, <2>1
<1> QED
  BY <1>3, <1>4 DEF HiddenInv

\* A poll: a list that is new is fetched with all that is on it, whether its ETag could
\* be stored or not; of one that is not, everything was handled or is too old.
LEMMA HiddenByPoll ==
    ASSUME WatchTypeOK, PollInv, HiddenInv, NEW r \in Runs, Poll(r)
    PROVE  HiddenInv'
<1> DEFINE c == Head(queue[r])
<1>1. c \in Characters
  BY QueueHead DEF Poll, WatchTypeOK
<1>2. /\ etag' = [etag EXCEPT ![c] = list[c]] \/ etag' = etag
      /\ pending' = [pending EXCEPT ![r] = IF etag[c] = list[c] THEN {} ELSE list[c]]
      /\ inTime' = inTime \cup {n \in list[c] : Recent(n, r)}
      /\ late' = late \cup {n \in list[c] : ~Recent(n, r) /\ Elsewhere(n, r)}
      /\ stage[r] = "poll" /\ pending[r] = {}
      /\ UNCHANGED <<now, recorded, game, stage, cutoff, dropped>>
  BY DEF Poll
<1> HIDE DEF c
<1>3. list[c] \subseteq Notifications
  BY <1>1 DEF WatchTypeOK
<1>4. /\ pending'[r] = IF etag[c] = list[c] THEN {} ELSE list[c]
      /\ \A q \in Runs \ {r} : pending'[q] = pending[q]
  BY <1>2 DEF WatchTypeOK
<1>5. \A n \in Notifications : born'[n] = born[n] /\ \A q \in Runs : cutoff'[q] = cutoff[q]
  BY <1>2 DEF game
<1>6. ASSUME NEW n \in Notifications, Handled(n) PROVE Handled(n)'
  <2>1. \A q \in Runs : n \in pending[q] => n \in pending'[q]
    BY <1>2, <1>4
  <2>2. recorded \cup dropped \cup late \subseteq (recorded \cup dropped \cup late)'
    BY <1>2
  <2> QED
    BY <1>5, <1>6, <2>1, <2>2, HandledKept
<1>7. ASSUME NEW n \in Notifications, TooOld(n) PROVE TooOld(n)'
  BY <1>2, <1>7 DEF game, TooOld, Recent, Window
<1>8. ASSUME NEW n \in list[c] PROVE Handled(n)' \/ TooOld(n)'
  <2>1. n \in Notifications
    BY <1>3
  <2>2. CASE etag[c] = list[c]
    BY <1>1, <1>6, <1>7, <2>1, <2>2 DEF HiddenInv
  <2>3. CASE etag[c] # list[c] /\ Recent(n, r)
    <3>1. n \in pending'[r] /\ Recent(n, r)'
      BY <1>4, <1>5, <2>1, <2>3 DEF Recent
    <3> QED
      BY <3>1 DEF Handled
  <2>4. CASE ~Recent(n, r) /\ Elsewhere(n, r)
    <3>1. n \in late'
      BY <1>2, <2>4
    <3> QED
      BY <3>1 DEF Handled
  <2>5. CASE ~Recent(n, r) /\ ~Elsewhere(n, r)
    <3>1. \A q \in Runs : stage[q] # "idle" => ~Recent(n, q)
      BY <2>5 DEF Elsewhere
    <3>2. cutoff[r] =< now - Window /\ cutoff[r] \in Int /\ born[n] \in Nat /\ now - Window \in Int
      BY <1>2, <2>1, WindowType DEF PollInv, WatchTypeOK
    <3>3. born[n] < now - Window
      BY <2>5, <3>2 DEF Recent
    <3> QED
      BY <1>7, <2>1, <3>1, <3>3 DEF TooOld
  <2> QED
    BY <2>2, <2>3, <2>4, <2>5
<1>9. ASSUME NEW n \in list[c], Recent(n, r) PROVE Handled(n)'
  <2>1. n \in Notifications /\ stage'[r] # "idle" /\ Recent(n, r)'
    BY <1>2, <1>3, <1>5, <1>9 DEF Recent
  <2>2. ~TooOld(n)'
    BY <2>1 DEF TooOld
  <2> QED
    BY <1>8, <2>2
<1>10. ASSUME NEW d \in Characters, NEW n \in etag'[d]
       PROVE  n \in list'[d] /\ (Handled(n)' \/ TooOld(n)')
  <2>1. list' = list
    BY <1>2 DEF game
  <2>2. CASE n \in etag[d]
    <3>1. n \in Notifications
      BY <2>2 DEF WatchTypeOK
    <3> QED
      BY <1>6, <1>7, <2>1, <2>2, <3>1 DEF HiddenInv
  <2>3. CASE n \notin etag[d]
    <3>1. d = c /\ n \in list[c]
      BY <1>2, <1>10, <2>3 DEF WatchTypeOK
    <3> QED
      BY <1>8, <2>1, <3>1
  <2> QED
    BY <2>2, <2>3
<1>11. ASSUME NEW n \in inTime' PROVE Handled(n)' /\ \E d \in Characters : n \in list'[d]
  <2>1. list' = list
    BY <1>2 DEF game
  <2>2. CASE n \in inTime
    <3>1. Handled(n) /\ \E d \in Characters : n \in list[d]
      BY <2>2 DEF HiddenInv
    <3>2. n \in Notifications
      BY <3>1 DEF WatchTypeOK
    <3> QED
      BY <1>6, <2>1, <3>1, <3>2
  <2>3. CASE n \in list[c] /\ Recent(n, r)
    BY <1>1, <1>9, <2>1, <2>3
  <2> QED
    BY <1>2, <1>11, <2>2, <2>3
<1> QED
  BY <1>10, <1>11 DEF HiddenInv

LEMMA HiddenStep ==
    WatchTypeOK /\ PollInv /\ HiddenInv /\ [WatchNext]_watchVars => HiddenInv'
<1> SUFFICES ASSUME WatchTypeOK, PollInv, HiddenInv, [WatchNext]_watchVars PROVE HiddenInv'
  OBVIOUS
<1>0. now \in Nat
  BY DEF WatchTypeOK
<1>1. ASSUME Tick PROVE HiddenInv'
  <2>1. now' = now + 1 /\ UNCHANGED <<memory, game, polling, history>>
    BY <1>1 DEF Tick
  <2> QED
    BY <1>0, <2>1, HiddenKept DEF memory, game, polling, history
<1>2. ASSUME UNCHANGED <<now, recorded, etag, polling, inTime, dropped, late, game>> PROVE HiddenInv'
  BY <1>0, <1>2, HiddenKept DEF game, polling
<1>3. ASSUME NEW n \in Notifications, Listed(n) PROVE HiddenInv'
  <2>1. \A c \in Characters : list[c] \subseteq list'[c]
    BY <1>3 DEF Listed
  <2>2. \A m \in Notifications : (\E c \in Characters : m \in list[c]) => born'[m] = born[m]
    BY <1>3 DEF Listed, WatchTypeOK
  <2>3. UNCHANGED <<now, memory, polling, history>>
    BY <1>3 DEF Listed
  <2> QED
    BY <1>0, <2>1, <2>2, <2>3, HiddenKept DEF memory, polling, history
<1>4. ASSUME NEW c \in Characters, EligibleChanges(c) PROVE HiddenInv'
  BY <1>2, <1>4 DEF EligibleChanges, memory
<1>5. ASSUME NEW r \in Runs, Begin(r) PROVE HiddenInv'
  <2>1. /\ stage[r] = "idle" /\ pending[r] = {}
        /\ UNCHANGED <<now, memory, game, pending, inTime, dropped, late>>
    BY <1>5 DEF Begin, PollInv
  <2>2. cutoff'[r] = now - Window /\ \A q \in Runs \ {r} : cutoff'[q] = cutoff[q] /\ stage'[q] = stage[q]
    BY <1>5 DEF Begin, MovesTo, WatchTypeOK
  <2> QED
    BY <1>0, <2>1, <2>2, HiddenKept DEF memory, game
<1>6. ASSUME NEW r \in Runs, StoreCursor(r) PROVE HiddenInv'
  <2>1. UNCHANGED <<now, etag, recorded, game, cutoff, pending, inTime, dropped, late>>
    BY <1>6 DEF StoreCursor
  <2>2. \A q \in Runs : stage'[q] # "idle" => stage[q] # "idle"
    BY <1>6 DEF StoreCursor, MovesTo, WatchTypeOK
  <2> QED
    BY <1>0, <2>1, <2>2, HiddenKept DEF game
<1>7. ASSUME NEW r \in Runs, PollFails(r) PROVE HiddenInv'
  <2>1. UNCHANGED <<now, memory, game, stage, cutoff, pending, history>>
    BY <1>7 DEF PollFails
  <2> QED
    BY <1>0, <2>1, HiddenKept DEF memory, game, history
<1>8. ASSUME NEW r \in Runs, NEW n \in Notifications, Look(r, n) \/ Make(r, n) \/ NotificationFails(r, n)
      PROVE  HiddenInv'
  <2>1. UNCHANGED <<now, etag, game, stage, cutoff, inTime, late>>
    BY <1>8 DEF Look, Make, NotificationFails, memory, history
  <2>2. recorded \subseteq recorded' /\ dropped \subseteq dropped'
    BY <1>8 DEF Look, Make, NotificationFails, memory, history
  <2>3. pending' = pending \/ pending' = [pending EXCEPT ![r] = pending[r] \ {n}]
    BY <1>8 DEF Look, Make, NotificationFails, Processed
  <2>4. pending'[r] # pending[r] => ~Recent(n, r) \/ n \in recorded' \/ n \in dropped'
    BY <1>8 DEF Look, Make, NotificationFails, memory
  <2>5. \A m \in Notifications : \A q \in Runs : m \in pending[q] /\ Recent(m, q) =>
           m \in (recorded \cup dropped \cup late)' \/ m \in pending'[q]
    <3>1. ASSUME NEW m \in Notifications, NEW q \in Runs, m \in pending[q], Recent(m, q), m \notin pending'[q]
          PROVE  m \in recorded' \/ m \in dropped'
      <4>1. q = r /\ m = n
        BY <2>3, <3>1 DEF WatchTypeOK
      <4> QED
        BY <2>4, <3>1, <4>1
    <3> QED
      BY <3>1
  <2> QED
    BY <1>0, <2>1, <2>2, <2>5, HiddenKept DEF game
<1>9. ASSUME NEW R, Forgotten(R), UNCHANGED <<now, memory, game, inTime, late>>, dropped \subseteq dropped',
             \A q \in R : q \in Runs => pending[q] \subseteq dropped'
      PROVE  HiddenInv'
  <2>1. \A q \in Runs : q \notin R => pending'[q] = pending[q] /\ cutoff'[q] = cutoff[q] /\ stage'[q] = stage[q]
    BY <1>9 DEF Forgotten
  <2>2. \A q \in Runs : q \in R => stage'[q] = "idle"
    BY <1>9 DEF Forgotten
  <2> QED
    BY <1>0, <1>9, <2>1, <2>2, HiddenKept DEF memory, game
<1>10. ASSUME NEW r \in Runs, End(r) \/ TimesOut(r) PROVE HiddenInv'
  BY <1>9, <1>10 DEF End, TimesOut, history
<1>11. ASSUME Crash PROVE HiddenInv'
  BY <1>9, <1>11 DEF Crash
<1>12. CASE UNCHANGED watchVars
  BY <1>2, <1>12 DEF watchVars, memory, history
<1> QED
  BY <1>1, <1>3, <1>4, <1>5, <1>6, <1>7, <1>8, <1>10, <1>11, <1>12, HiddenByPoll DEF WatchNext, RunStep

\* The bound of TurnInv, with its parts as parameters.
WithinTurn(c, w, x) ==
    w * RequestsPerRun(Cardinality(eligible)) + Before(Cardinality(eligible), c, x)
      < Cardinality(eligible)

LEMMA TurnParts ==
    TurnInv <=> \A c \in eligible :
                   /\ (\A r \in Runs : stage[r] # "select") => WithinTurn(c, waited[c], cursor)
                   /\ \A r \in Runs : stage[r] = "select" => WithinTurn(c, waited[c], turn[r])
  BY DEF TurnInv, WithinTurn

\* Who has not waited is within its turn, whatever the cursor.
LEMMA NotWaited ==
    ASSUME WatchTypeOK, NEW c \in eligible, NEW x \in Nat
    PROVE  WithinTurn(c, 0, x)
<1> DEFINE n == Cardinality(eligible)
           k == RequestsPerRun(n)
           b == Before(n, c, x)
<1>1. n \in Nat \ {0}
  BY EligibleAreFinite, FS_EmptySet
<1>2. k \in Nat
  BY <1>1, RequestsType
<1>3. b \in 0..n-1
  BY BeforeType
<1> HIDE DEF n, k, b
<1>4. 0 * k + b < n
  BY <1>1, <1>2, <1>3
<1> QED
  BY <1>4 DEF WithinTurn, n, k, b

\* Who is not polled comes nearer by as many as are.
LEMMA PassedOver ==
    ASSUME WatchTypeOK, eligible # {}, NEW at \in 0..Cardinality(eligible) - 1, NEW c \in eligible,
           NEW w \in Nat, WithinTurn(c, w, at),
           Before(Cardinality(eligible), c, at) >= RequestsPerRun(Cardinality(eligible))
    PROVE  WithinTurn(c, w + 1, NextTurn(Cardinality(eligible), at))
<1> DEFINE n == Cardinality(eligible)
           k == RequestsPerRun(n)
           b == Before(n, c, at)
           a == Before(n, c, NextTurn(n, at))
<1>1. n \in Nat \ {0} /\ k \in Nat
  BY EligibleAreFinite, FS_EmptySet, RequestsType
<1>2. b \in Nat /\ a \in Nat /\ a = b - k
  BY NextTurnPasses, <1>1
<1>3. w * k + b < n
  BY DEF WithinTurn
<1> HIDE DEF n, k, b, a
<1>4. (w + 1) * k + a = w * k + b
  <2>1. (w + 1) * k = w * k + k /\ w * k \in Nat
    BY <1>1
  <2> QED
    BY <1>1, <1>2, <2>1
<1>5. (w + 1) * k + a < n
  BY <1>3, <1>4
<1> QED
  BY <1>5 DEF WithinTurn, n, k, a

\* The same bound of the state to come, while nobody comes or goes.
LEMMA TurnPartsThen ==
    ASSUME UNCHANGED eligible,
           \A c \in eligible :
              /\ (\A r \in Runs : stage'[r] # "select") => WithinTurn(c, waited'[c], cursor')
              /\ \A r \in Runs : stage'[r] = "select" => WithinTurn(c, waited'[c], turn'[r])
    PROVE  TurnInv'
<1> DEFINE size == Cardinality(eligible)
           place(c) == Rank(c)
           sizeThen == Cardinality(eligible')
           placeThen(c) == Cardinality({d \in eligible' : d =< c})
           ahead(n, p, x) == LET at == x % n IN IF p > at THEN p - 1 - at ELSE p - 1 - at + n
           within(n, p, w, x) == w * RequestsPerRun(n) + ahead(n, p, x) < n
<1>1. sizeThen = size /\ \A c : placeThen(c) = place(c)
  BY DEF Rank
<1>2. \A c, w, x : WithinTurn(c, w, x) <=> within(size, place(c), w, x)
  BY DEF WithinTurn, Before
<1>3. TurnInv' <=> \A c \in eligible' :
         /\ (\A r \in Runs : stage'[r] # "select") => within(sizeThen, placeThen(c), waited'[c], cursor')
         /\ \A r \in Runs : stage'[r] = "select" => within(sizeThen, placeThen(c), waited'[c], turn'[r])
  BY DEF TurnInv, Before, Rank
<1> HIDE DEF size, place, sizeThen, placeThen, ahead, within
<1> QED
  BY <1>1, <1>2, <1>3

\* Nobody has waited.
LEMMA NobodyWaited == WatchTypeOK /\ waited = NoOne => TurnInv
<1> SUFFICES ASSUME WatchTypeOK, waited = NoOne PROVE TurnInv
  OBVIOUS
<1>1. \A c \in eligible : waited[c] = 0
  BY DEF WatchTypeOK, NoOne
<1>2. cursor \in Nat /\ \A r \in Runs : turn[r] \in Nat
  BY DEF WatchTypeOK
<1> QED
  BY <1>1, <1>2, NotWaited, TurnParts

LEMMA NobodyWaitedThen == WatchTypeOK' /\ waited' = NoOne => TurnInv'
<1>1. (WatchTypeOK /\ waited = NoOne => TurnInv)'
  BY NobodyWaited, PTL
<1> QED
  BY <1>1 DEF NoOne

\* A step of neither the turns nor who takes them.
LEMMA TurnsKept ==
    ASSUME TurnInv, UNCHANGED <<eligible, cursor, waited>>,
           \A r \in Runs : stage'[r] = "select" <=> stage[r] = "select",
           \A r \in Runs : stage[r] = "select" => turn'[r] = turn[r]
    PROVE  TurnInv'
  BY TurnParts, TurnPartsThen

\* A run that begins takes its turns from the cursor, which nobody else is about to
\* store, or nobody's waiting counts.
LEMMA TurnsBegin ==
    ASSUME WatchTypeOK, WatchTypeOK', TurnInv, NEW r \in Runs, Begin(r)
    PROVE  TurnInv'
<1> DEFINE n == Cardinality(eligible)
<1>1. PICK order \in InOrder, at \in 0..n - 1 :
          /\ at = cursor % n
          /\ turn' = [turn EXCEPT ![r] = NextTurn(n, at)]
          /\ waited' = IF \E q \in Runs : stage[q] = "select" THEN NoOne
                       ELSE [c \in Characters |->
                               IF c \in eligible /\ c \notin Range(Selection(order, at))
                                 THEN waited[c] + 1 ELSE 0]
  BY BeginsInTurn
<1>2. stage' = [stage EXCEPT ![r] = "select"] /\ UNCHANGED <<eligible, cursor>> /\ eligible # {}
  BY DEF Begin, MovesTo, memory
<1>3. n \in Nat \ {0}
  BY BeginsInTurn
<1> HIDE DEF n
<1>4. CASE \E q \in Runs : stage[q] = "select"
  BY <1>1, <1>4, NobodyWaitedThen
<1>5. CASE \A q \in Runs : stage[q] # "select"
  <2>1. stage'[r] = "select" /\ turn'[r] = NextTurn(n, at) /\ \A q \in Runs \ {r} : stage'[q] # "select"
    BY <1>1, <1>2, <1>5 DEF WatchTypeOK
  <2>2. ASSUME NEW c \in eligible PROVE WithinTurn(c, waited'[c], NextTurn(n, at))
    <3>1. WithinTurn(c, waited[c], cursor) /\ waited[c] \in Nat
      BY <1>5, TurnParts DEF WatchTypeOK
    <3>2. at % n = at
      BY <1>3, SmallRemainder
    <3>3. Before(n, c, at) = Before(n, c, cursor)
      BY <1>1, <3>2 DEF Before
    <3>4. WithinTurn(c, waited[c], at)
      BY <3>1, <3>3 DEF WithinTurn, n
    <3>5. waited'[c] = IF c \notin Range(Selection(order, at)) THEN waited[c] + 1 ELSE 0
      BY <1>1, <1>5 DEF WatchTypeOK
    <3>6. CASE c \notin Range(Selection(order, at))
      <4>1. ~(Before(n, c, at) < RequestsPerRun(n))
        BY <1>2, <3>6, SelectionType DEF n
      <4>2. Before(n, c, at) \in Nat /\ RequestsPerRun(n) \in Nat
        BY <1>2, <1>3, BeforeType, RequestsType DEF n
      <4>3. Before(n, c, at) >= RequestsPerRun(n)
        BY <4>1, <4>2
      <4> QED
        BY <1>2, <3>1, <3>4, <3>5, <3>6, <4>3, PassedOver DEF n
    <3>7. CASE c \in Range(Selection(order, at))
      <4>1. NextTurn(n, at) \in Nat
        BY <1>2, <1>3, NextTurnPasses DEF n
      <4> QED
        BY <3>5, <3>7, <4>1, NotWaited
    <3> QED
      BY <3>6, <3>7
  <2>3. ASSUME NEW c \in eligible, NEW q \in Runs, stage'[q] = "select"
        PROVE  WithinTurn(c, waited'[c], turn'[q])
    <3>1. turn'[q] = NextTurn(n, at)
      BY <2>1, <2>3
    <3> QED
      BY <2>2, <3>1
  <2> QED
    BY <1>2, <2>1, <2>3, TurnPartsThen
<1> QED
  BY <1>4, <1>5

\* The cursor that is stored is of a run that selects; if it cannot be, nobody's
\* waiting counts.
LEMMA TurnsStored ==
    ASSUME WatchTypeOK, WatchTypeOK', TurnInv, NEW r \in Runs, StoreCursor(r)
    PROVE  TurnInv'
<1>1. /\ stage[r] = "select" /\ stage' = [stage EXCEPT ![r] = "poll"]
      /\ turn' = [turn EXCEPT ![r] = 0] /\ UNCHANGED eligible
  BY DEF StoreCursor, MovesTo
<1>2. CASE waited' = NoOne
  BY <1>2, NobodyWaitedThen
<1>3. CASE cursor' = turn[r] /\ waited' = waited
  <2>1. ASSUME NEW c \in eligible PROVE WithinTurn(c, waited'[c], cursor')
    BY <1>1, <1>3, TurnParts
  <2>2. ASSUME NEW c \in eligible, NEW q \in Runs, stage'[q] = "select"
        PROVE  WithinTurn(c, waited'[c], turn'[q])
    <3>1. stage[q] = "select" /\ turn'[q] = turn[q]
      BY <1>1, <2>2 DEF WatchTypeOK
    <3> QED
      BY <1>3, <3>1, TurnParts
  <2> QED
    BY <1>1, <2>1, <2>2, TurnPartsThen
<1> QED
  BY <1>2, <1>3 DEF StoreCursor

\* Every step keeps the turns.
LEMMA TurnStep == WatchTypeOK /\ TurnInv /\ [WatchNext]_watchVars => TurnInv'
<1> SUFFICES ASSUME WatchTypeOK, TurnInv, [WatchNext]_watchVars PROVE TurnInv'
  OBVIOUS
<1>0. WatchTypeOK'
  BY WatchTypeStep
<1>1. ASSUME UNCHANGED <<eligible, cursor, waited, stage, turn>> PROVE TurnInv'
  BY <1>1, TurnsKept
<1>2. ASSUME Tick PROVE TurnInv'
  BY <1>1, <1>2 DEF Tick, memory, polling, history
<1>3. ASSUME NEW n \in Notifications, Listed(n) PROVE TurnInv'
  BY <1>1, <1>3 DEF Listed, memory, polling, history
<1>4. ASSUME NEW c \in Characters, EligibleChanges(c) PROVE TurnInv'
  BY <1>0, <1>4, NobodyWaitedThen DEF EligibleChanges
<1>5. ASSUME NEW r \in Runs, Poll(r) \/ PollFails(r) PROVE TurnInv'
  BY <1>1, <1>5 DEF Poll, PollFails, memory, history
<1>6. ASSUME NEW r \in Runs, NEW n \in Notifications, Look(r, n) \/ Make(r, n) \/ NotificationFails(r, n)
      PROVE  TurnInv'
  BY <1>1, <1>6 DEF Look, Make, NotificationFails, memory, history
<1>7. ASSUME NEW r \in Runs, End(r) \/ TimesOut(r) PROVE TurnInv'
  <2>1. stage[r] = "poll" /\ Forgotten({r}) /\ UNCHANGED <<eligible, memory, history>>
    BY <1>7 DEF End, TimesOut
  <2>2. \A q \in Runs : (stage'[q] = "select" <=> stage[q] = "select")
                       /\ (stage[q] = "select" => turn'[q] = turn[q])
    BY <2>1 DEF Forgotten
  <2> QED
    BY <2>1, <2>2, TurnsKept DEF memory, history
<1>8. ASSUME Crash PROVE TurnInv'
  BY <1>0, <1>8, NobodyWaitedThen DEF Crash
<1>9. CASE UNCHANGED watchVars
  BY <1>1, <1>9 DEF watchVars, memory, polling, history
<1> QED
  BY <1>0, <1>2, <1>3, <1>4, <1>5, <1>6, <1>7, <1>8, <1>9, TurnsBegin, TurnsStored
  DEF WatchNext, RunStep

LEMMA InitialWatch == WatchInit => WatchInv
<1> SUFFICES ASSUME WatchInit PROVE WatchInv
  OBVIOUS
<1>1. WatchTypeOK
  BY SkyhookAssumption DEF WatchInit, WatchTypeOK, NoOne, Stages
<1>2. PollInv /\ HiddenInv
  BY DEF WatchInit, PollInv, HiddenInv
<1>3. TurnInv
  BY <1>1, NobodyWaited DEF WatchInit
<1> QED
  BY <1>1, <1>2, <1>3 DEF WatchInv

\* What TLC finds in the run's instance holds for any characters, notifications and
\* runs, and for windows and intervals of any length (SyncSkyhookNotifications).
THEOREM WatchInvariant == WatchSpec => []WatchInv
<1>1. WatchInv /\ [WatchNext]_watchVars => WatchInv'
  BY WatchTypeStep, PollStep, HiddenStep, TurnStep DEF WatchInv
<1> QED
  BY <1>1, InitialWatch, PTL DEF WatchSpec

\* However runs overlap, fail or stop, and whatever the three memories hide, what could
\* have been acted upon has its record, is being processed, or was given up for one of
\* two causes.
THEOREM NothingIsMissed == WatchSpec => []MissedHaveACause
<1>1. WatchInv => MissedHaveACause
  BY DEF WatchInv, HiddenInv, Handled, MissedHaveACause
<1> QED
  BY <1>1, WatchInvariant, PTL

\* A bound on multiples is one on how many there are.
LEMMA FewEnough ==
    ASSUME NEW n \in Nat \ {0}, NEW k \in 1..n, NEW w \in Nat, NEW b \in Nat, w * k + b < n
    PROVE  w < (n + k - 1) \div k
<1> DEFINE q == (n + k - 1) \div k
<1>1. q \in Nat /\ n + k - 1 < (q + 1) * k
  <2>1. n + k - 1 \in Nat /\ k \in Nat \ {0}
    OBVIOUS
  <2> DEFINE m == n + k - 1
  <2>2. m \in Nat /\ k \in Nat \ {0}
    BY <2>1
  <2> HIDE DEF m
  <2>3. m \div k \in Nat /\ m < (m \div k + 1) * k
    BY <2>2
  <2> QED
    BY <2>3 DEF m
<1> HIDE DEF q
<1>2. (q + 1) * k = q * k + k /\ q * k \in Nat /\ w * k \in Nat
  BY <1>1
<1>3. w * k < q * k
  BY <1>1, <1>2
<1>4. ~(q =< w)
  <2> SUFFICES ASSUME q =< w PROVE FALSE
    OBVIOUS
  <2>1. q * k =< w * k
    BY <1>1
  <2> QED
    BY <1>2, <1>3, <2>1
<1>5. w < q
  BY <1>1, <1>4
<1> QED
  BY <1>5 DEF q

\* Whatever the number of the eligible and the cursor an earlier list left, one that
\* nothing disturbed waits for no more runs than it takes to poll them all.
THEOREM EveryoneIsPolled == WatchSpec => []EveryoneHasATurn
<1>1. ASSUME WatchInv, NEW c \in eligible
      PROVE  LET n == Cardinality(eligible)  k == RequestsPerRun(n)
             IN  waited[c] < (n + k - 1) \div k
  <2> DEFINE n == Cardinality(eligible)
             k == RequestsPerRun(n)
  <2>1. WatchTypeOK /\ TurnInv
    BY <1>1 DEF WatchInv
  <2>2. n \in Nat \ {0} /\ k \in 1..n /\ waited[c] \in Nat
    BY <2>1, EligibleAreFinite, FS_EmptySet, RequestsType DEF WatchTypeOK
  <2>3. PICK x \in Nat : WithinTurn(c, waited[c], x)
    <3>1. WithinTurn(c, waited[c], cursor) \/ \E r \in Runs : WithinTurn(c, waited[c], turn[r])
      BY <2>1, TurnParts
    <3> QED
      BY <2>1, <3>1 DEF WatchTypeOK
  <2>4. Before(n, c, x) \in Nat
    BY <2>1, <2>2, BeforeType
  <2>5. waited[c] * k + Before(n, c, x) < n
    BY <2>3 DEF WithinTurn
  <2> HIDE DEF n, k
  <2> QED
    BY <2>2, <2>4, <2>5, FewEnough DEF n, k
<1>2. WatchInv => EveryoneHasATurn
  BY <1>1 DEF EveryoneHasATurn
<1> QED
  BY <1>2, WatchInvariant, PTL
=============================================================================
