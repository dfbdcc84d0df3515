------------------------- MODULE MapAndRoutes_proofs -------------------------
(***************************************************************************)
(* Proofs about the import of the map, for any files, layouts, releases    *)
(* and number of overlapping runs, and about the routes planned over it,   *)
(* for any map, bridges and requests.                                      *)
(*                                                                         *)
(* The rows of a file that no two runs raced for never get older (Grown),  *)
(* so what a run found or wrote of it stays.  A run that holds a release's *)
(* ETag has each of its files in, or ahead of it in a version at least as  *)
(* new (TagInv).  LayoutInv and OptionalInv name, for everything still to  *)
(* be drawn or brought in, a run that will do it or leave a mark in left.  *)
(*                                                                         *)
(* The search of a leg is followed round by round and edge by edge, with   *)
(* the depth at which each system was found: what is done has all its      *)
(* neighbours found, at most one deeper, so no walk is shorter than its    *)
(* end is deep, and the path found is just as long.  RecentInv says who    *)
(* will store a recent graph, CourseInv what is still to be appended.      *)
(***************************************************************************)
EXTENDS MapImport, RoutePlanner, SequenceTheorems, FiniteSetTheorems, WellFoundedInduction, TLAPS

Items == Files \cup Layouts \cup {"meta"}

-----------------------------------------------------------------------------
(* Sequences of work. *)

LEMMA RangeOfBoth ==
    ASSUME NEW a, NEW b, a \in Seq(Range(a)), b \in Seq(Range(b))
    PROVE  Range(a \o b) = Range(a) \cup Range(b)
<1>1. /\ DOMAIN (a \o b) = 1..(Len(a) + Len(b)) /\ Len(a) \in Nat /\ Len(b) \in Nat
      /\ DOMAIN a = 1..Len(a) /\ DOMAIN b = 1..Len(b)
  OBVIOUS
<1>2. \A i \in 1..(Len(a) + Len(b)) : (a \o b)[i] = IF i <= Len(a) THEN a[i] ELSE b[i - Len(a)]
  OBVIOUS
<1>3. Range(a \o b) \subseteq Range(a) \cup Range(b)
  <2>1. SUFFICES ASSUME NEW i \in 1..(Len(a) + Len(b)) PROVE (a \o b)[i] \in Range(a) \cup Range(b)
    BY <1>1 DEF Range
  <2>2. CASE i <= Len(a)
    BY <2>2, <1>1, <1>2 DEF Range
  <2>3. CASE ~(i <= Len(a))
    <3>1. i - Len(a) \in 1..Len(b)
      BY <2>3, <1>1
    <3>2. (a \o b)[i] = b[i - Len(a)]
      BY <2>3, <1>2
    <3> QED
      BY <3>1, <3>2, <1>1 DEF Range
  <2> QED
    BY <2>2, <2>3
<1>4. Range(a) \subseteq Range(a \o b)
  <2>1. SUFFICES ASSUME NEW i \in 1..Len(a) PROVE a[i] \in Range(a \o b)
    BY <1>1 DEF Range
  <2>2. i \in 1..(Len(a) + Len(b)) /\ (a \o b)[i] = a[i]
    BY <1>1, <1>2
  <2> QED
    BY <2>2, <1>1 DEF Range
<1>5. Range(b) \subseteq Range(a \o b)
  <2>1. SUFFICES ASSUME NEW i \in 1..Len(b) PROVE b[i] \in Range(a \o b)
    BY <1>1 DEF Range
  <2>2. i + Len(a) \in 1..(Len(a) + Len(b)) /\ (a \o b)[i + Len(a)] = b[i]
    BY <1>1, <1>2
  <2> QED
    BY <2>2, <1>1 DEF Range
<1> QED
  BY <1>3, <1>4, <1>5

LEMMA MapFacts ==
    /\ Systems \in Range(Topology) /\ Range(Topology) \cap Range(Optional) = {}
    /\ Files = Range(Topology) \cup Range(Optional)
    /\ Layouts = Range(Early) \cup Range(Late)
    /\ Files \cap Layouts = {} /\ "meta" \notin Files /\ "meta" \notin Layouts
<1>2. /\ Topology \in Seq(Range(Topology)) /\ Optional \in Seq(Range(Optional))
      /\ Early \in Seq(Range(Early)) /\ Late \in Seq(Range(Late))
  BY MapAssumption
<1>3. Files = Range(Topology) \cup Range(Optional) /\ Layouts = Range(Early) \cup Range(Late)
  BY <1>2, RangeOfBoth DEF Files, Layouts
<1> QED
  BY <1>3, MapAssumption

\* What is left of a sequence of work without its first item.
LEMMA TailFacts ==
    ASSUME NEW q \in Seq(Items), q # << >>
    PROVE  /\ Head(q) \in Range(q) /\ Head(q) \in Items /\ Tail(q) \in Seq(Items)
           /\ Range(q) = {Head(q)} \cup Range(Tail(q))
           /\ Len(q) = 1 <=> Tail(q) = << >>
           /\ \A i \in DOMAIN Tail(q) : i + 1 \in DOMAIN q /\ Tail(q)[i] = q[i + 1] /\ i \in Nat \ {0}
           /\ 1 \in DOMAIN q /\ q[1] = Head(q)
<1>1. /\ Len(q) \in Nat \ {0} /\ DOMAIN q = 1..Len(q) /\ Head(q) = q[1] /\ 1 \in DOMAIN q
      /\ Tail(q) \in Seq(Items) /\ Len(Tail(q)) = Len(q) - 1 /\ DOMAIN Tail(q) = 1..(Len(q) - 1)
  OBVIOUS
<1>2. \A i \in 1..(Len(q) - 1) : Tail(q)[i] = q[i + 1] /\ i + 1 \in DOMAIN q
  BY <1>1
<1>3. Range(q) \subseteq {Head(q)} \cup Range(Tail(q))
  <2>1. SUFFICES ASSUME NEW i \in 1..Len(q), i # 1 PROVE q[i] \in Range(Tail(q))
    BY <1>1 DEF Range
  <2>2. i - 1 \in 1..(Len(q) - 1) /\ (i - 1) + 1 = i
    BY <1>1, <2>1
  <2>3. Tail(q)[i - 1] = q[i]
    BY <1>2, <2>2
  <2> QED
    BY <2>2, <2>3, <1>1 DEF Range
<1>4. Range(Tail(q)) \subseteq Range(q) /\ Head(q) \in Range(q)
  BY <1>1, <1>2 DEF Range
<1>5. Len(q) = 1 <=> Tail(q) = << >>
  <2>1. \A s \in Seq(Items) : Len(s) = 0 <=> s = << >>
    OBVIOUS
  <2>2. Len(Tail(q)) = 0 <=> Tail(q) = << >>
    BY <1>1, <2>1, Zenon
  <2>3. Len(Tail(q)) = 0 <=> Len(q) = 1
    BY <1>1
  <2> QED
    BY <2>2, <2>3, Zenon
<1>6. Head(q) \in Items
  OBVIOUS
<1> QED
  BY <1>1, <1>2, <1>3, <1>4, <1>5, <1>6

LEMMA WorkTail ==
    ASSUME NEW k, NEW q \in Seq(Items), q # << >>, Work(k, q)
    PROVE  /\ Work(k, Tail(q))
           /\ Head(q) \in Range(Topology) => "meta" \in Range(Tail(q))
           /\ Head(q) = "meta" => "meta" \notin Range(Tail(q)) /\ Range(Tail(q)) \cap Range(Topology) = {}
           /\ "meta" \in Range(Tail(q)) => Head(q) \in Range(Topology)
<1> DEFINE t == Tail(q)
<1>0. /\ Head(q) \in Range(q) /\ Range(q) = {Head(q)} \cup Range(t)
      /\ \A i \in DOMAIN t : i + 1 \in DOMAIN q /\ t[i] = q[i + 1] /\ i \in Nat \ {0}
      /\ 1 \in DOMAIN q /\ q[1] = Head(q)
  BY TailFacts
<1>1. \A i, j \in DOMAIN q : q[j] = "meta" =>
          /\ i < j => q[i] \in Range(Topology)
          /\ i > j => q[i] \notin Range(Topology) \cup {"meta"}
  BY DEF Work
<1>2. Head(q) = "meta" => \A i \in DOMAIN t : t[i] \notin Range(Topology) \cup {"meta"}
  <2>1. \A i \in DOMAIN t : i + 1 > 1 /\ t[i] = q[i + 1] /\ i + 1 \in DOMAIN q
    BY <1>0
  <2> QED
    BY <2>1, <1>0, <1>1
<1>3. "meta" \in Range(t) => Head(q) \in Range(Topology)
  <2>1. SUFFICES ASSUME NEW j \in DOMAIN t, t[j] = "meta" PROVE Head(q) \in Range(Topology)
    BY DEF Range
  <2>2. j + 1 > 1 /\ q[j + 1] = "meta" /\ j + 1 \in DOMAIN q
    BY <1>0, <2>1
  <2> QED
    BY <2>2, <1>0, <1>1
<1>4. Head(q) = "meta" => "meta" \notin Range(t) /\ Range(t) \cap Range(Topology) = {}
  BY <1>2 DEF Range
<1>5. Head(q) \in Range(Topology) => "meta" \in Range(t)
  BY <1>0, MapFacts DEF Work
<1>6. Work(k, t)
  <2>1. \A i, j \in DOMAIN t : t[j] = "meta" =>
          /\ i < j => t[i] \in Range(Topology)
          /\ i > j => t[i] \notin Range(Topology) \cup {"meta"}
    <3>1. SUFFICES ASSUME NEW i \in DOMAIN t, NEW j \in DOMAIN t, t[j] = "meta"
                   PROVE  /\ i < j => t[i] \in Range(Topology)
                          /\ i > j => t[i] \notin Range(Topology) \cup {"meta"}
      OBVIOUS
    <3>2. /\ i + 1 \in DOMAIN q /\ j + 1 \in DOMAIN q /\ q[j + 1] = "meta" /\ t[i] = q[i + 1]
          /\ i \in Nat /\ j \in Nat
      BY <1>0, <3>1
    <3>3. (i < j => i + 1 < j + 1) /\ (i > j => i + 1 > j + 1)
      BY <3>2
    <3> QED
      BY <3>2, <3>3, <1>1
  <2>2. Range(t) \cap Range(Topology) # {} => "meta" \in Range(t)
    BY <1>0, <1>4 DEF Work
  <2>3. ASSUME "meta" \in Range(t)
        PROVE  k # "one" /\ (k \in Updates => Layouts \cup Range(Optional) \subseteq Range(t))
    <3>1. Head(q) \notin Layouts \cup Range(Optional)
      BY <1>3, <2>3, MapFacts
    <3> QED
      BY <2>3, <3>1, <1>0 DEF Work
  <2> QED
    BY <2>1, <2>2, <2>3 DEF Work
<1> QED
  BY <1>3, <1>4, <1>5, <1>6

-----------------------------------------------------------------------------
(* What a step does to the run that takes it, and leaves of the others. *)

Same(q) == /\ kind'[q] = kind[q] /\ pc'[q] = pc[q] /\ queue'[q] = queue[q]
           /\ tag'[q] = tag[q] /\ got'[q] = got[q] /\ wrote'[q] = wrote[q]

RunTypes ==
    /\ kind \in [Pipelines -> {"none", "import", "one"} \cup Updates]
    /\ pc \in [Pipelines -> Places]
    /\ queue \in [Pipelines -> Seq(Items)]
    /\ tag \in [Pipelines -> 0..Latest]
    /\ got \in [Pipelines -> [Files -> Nat]]
    /\ wrote \in [Pipelines -> BOOLEAN]

\* Nothing is taken back: releases, and rows of files that no two runs raced for.
Grown ==
    /\ raced \subseteq raced' /\ Latest <= Latest'
    /\ \A k \in 1..Latest : releases'[k] = releases[k]
    /\ \A f \in Files : Archive[f] <= Archive'[f]
    /\ \A f \in Files \ raced' : \A i \in 1..2 : rows[f][i] <= rows'[f][i]

LEMMA ReleaseFacts ==
    ASSUME TypeOK
    PROVE  /\ Latest \in Nat \ {0} /\ Archive \in [Files -> Nat]
           /\ \A k \in 1..Latest : releases[k] \in [Files -> Nat]
<1>1. releases \in Seq([Files -> Nat]) /\ releases # << >>
  BY DEF TypeOK
<1>2. Len(releases) \in Nat \ {0} /\ \A k \in 1..Len(releases) : releases[k] \in [Files -> Nat]
  BY <1>1
<1> QED
  BY <1>2 DEF Latest, Archive

LEMMA ReleaseFactsLater ==
    ASSUME TypeOK'
    PROVE  Latest' \in Nat \ {0} /\ \A f \in Files : Archive'[f] \in Nat
<1>1. releases' \in Seq([Files -> Nat]) /\ releases' # << >>
  BY DEF TypeOK
<1>2. /\ Len(releases') \in Nat \ {0}
      /\ \A k \in 1..Len(releases') : releases'[k] \in [Files -> Nat]
  BY <1>1
<1>3. releases'[Len(releases')] \in [Files -> Nat]
  BY <1>2
<1>4. \A f \in Files : releases'[Len(releases')][f] \in Nat
  BY <1>3
<1> QED
  BY <1>2, <1>4 DEF Latest, Archive

LEMMA NumberFacts ==
    ASSUME TypeOK
    PROVE  /\ \A k \in 1..Latest, f \in Files : releases[k][f] \in Nat
           /\ \A f \in Files : Archive[f] \in Nat /\ hash[f] \in Nat
           /\ \A f \in Files, i \in 1..2 : rows[f][i] \in Nat
           /\ \A p \in Pipelines : tag[p] \in 0..Latest /\ \A f \in Files : got[p][f] \in Nat
           /\ Latest \in Nat \ {0} /\ etag \in 0..Latest
<1>1. \A k \in 1..Latest, f \in Files : releases[k][f] \in Nat
  BY ReleaseFacts
<1>2. \A f \in Files : Archive[f] \in Nat /\ hash[f] \in Nat
  BY ReleaseFacts DEF TypeOK
<1>3. \A f \in Files, i \in 1..2 : rows[f][i] \in Nat
  BY DEF TypeOK
<1>4. \A p \in Pipelines : tag[p] \in 0..Latest /\ \A f \in Files : got[p][f] \in Nat
  BY DEF TypeOK
<1> QED
  BY <1>1, <1>2, <1>3, <1>4, ReleaseFacts DEF TypeOK

LEMMA NumberFactsLater ==
    ASSUME TypeOK'
    PROVE  /\ \A f \in Files, i \in 1..2 : rows'[f][i] \in Nat
           /\ \A f \in Files : Archive'[f] \in Nat /\ hash'[f] \in Nat
<1>1. \A f \in Files, i \in 1..2 : rows'[f][i] \in Nat
  BY DEF TypeOK
<1>2. \A f \in Files : hash'[f] \in Nat
  BY DEF TypeOK
<1> QED
  BY <1>1, <1>2, ReleaseFactsLater

LEMMA NothingChanged ==
    ASSUME TypeOK, UNCHANGED <<releases, rows, raced>>
    PROVE  Grown
<1>1. \A f \in Files, i \in 1..2 : rows[f][i] \in Nat
  BY DEF TypeOK
<1>2. Archive' = Archive /\ Latest' = Latest /\ Latest \in Nat /\ \A f \in Files : Archive[f] \in Nat
  BY ReleaseFacts DEF Archive, Latest
<1> QED
  BY <1>1, <1>2 DEF Grown

LEMMA StopsOwn ==
    ASSUME TypeOK, NEW p \in Pipelines, Stops(p), UNCHANGED releases
    PROVE  /\ kind'[p] = "none" /\ pc'[p] = "idle" /\ queue'[p] = << >> /\ tag'[p] = 0
           /\ got'[p] = Never /\ wrote'[p] = FALSE
           /\ \A q \in Pipelines \ {p} : Same(q)
           /\ RunTypes'
<1>1. Never \in [Files -> Nat] /\ << >> \in Seq(Items)
  BY DEF Never
<1>2. 0 \in 0..Latest /\ Latest' = Latest
  BY ReleaseFacts DEF Latest
<1> QED
  BY <1>1, <1>2 DEF TypeOK, Stops, Goto, Same, RunTypes, Places, Items

LEMMA GoOnOwn ==
    ASSUME TypeOK, NEW p \in Pipelines, queue[p] # << >>, NEW w \in BOOLEAN, GoOn(p, w),
           UNCHANGED releases
    PROVE  /\ queue'[p] = Tail(queue[p])
           /\ IF Tail(queue[p]) = << >>
                THEN /\ kind'[p] = "none" /\ pc'[p] = "idle" /\ tag'[p] = 0 /\ got'[p] = Never
                     /\ wrote'[p] = FALSE
                ELSE /\ kind'[p] = kind[p] /\ pc'[p] = "next" /\ wrote'[p] = w
                     /\ tag'[p] = (IF Item(p) = "meta" THEN 0 ELSE tag[p])
                     /\ \A f \in Files : got'[p][f] = IF f = Item(p) THEN 0 ELSE got[p][f]
           /\ \A q \in Pipelines \ {p} : Same(q)
           /\ RunTypes'
<1>1. queue[p] \in Seq(Items)
  BY DEF TypeOK, Items
<1>2. Tail(queue[p]) \in Seq(Items) /\ (Len(queue[p]) = 1 <=> Tail(queue[p]) = << >>)
  BY <1>1, TailFacts
<1>3. CASE Len(queue[p]) = 1
  <2>1. Stops(p)
    BY <1>3 DEF GoOn
  <2> QED
    BY <1>2, <1>3, <2>1, StopsOwn
<1>4. CASE Len(queue[p]) # 1
  <2>0. /\ queue' = [queue EXCEPT ![p] = Tail(@)]
        /\ pc' = [pc EXCEPT ![p] = "next"]
        /\ wrote' = [wrote EXCEPT ![p] = w]
        /\ tag' = IF Item(p) = "meta" THEN [tag EXCEPT ![p] = 0] ELSE tag
        /\ got' = IF Item(p) \in Files THEN [got EXCEPT ![p][Item(p)] = 0] ELSE got
        /\ kind' = kind
    BY <1>4 DEF GoOn, Goto
  <2>1. 0 \in 0..Latest /\ Latest' = Latest
    BY ReleaseFacts DEF Latest
  <2>2. /\ queue' \in [Pipelines -> Seq(Items)] /\ queue'[p] = Tail(queue[p])
        /\ \A q \in Pipelines \ {p} : queue'[q] = queue[q]
    BY <1>2, <2>0 DEF TypeOK, Items
  <2>3. /\ pc' \in [Pipelines -> Places] /\ pc'[p] = "next" /\ \A q \in Pipelines \ {p} : pc'[q] = pc[q]
    BY <2>0 DEF TypeOK, Places
  <2>4. /\ wrote' \in [Pipelines -> BOOLEAN] /\ wrote'[p] = w
        /\ \A q \in Pipelines \ {p} : wrote'[q] = wrote[q]
    BY <2>0 DEF TypeOK
  <2>5. /\ tag' \in [Pipelines -> 0..Latest'] /\ tag'[p] = (IF Item(p) = "meta" THEN 0 ELSE tag[p])
        /\ \A q \in Pipelines \ {p} : tag'[q] = tag[q]
    BY <2>0, <2>1 DEF TypeOK
  <2>6. /\ got' \in [Pipelines -> [Files -> Nat]]
        /\ \A f \in Files : got'[p][f] = IF f = Item(p) THEN 0 ELSE got[p][f]
        /\ \A q \in Pipelines \ {p} : got'[q] = got[q]
    BY <2>0 DEF TypeOK
  <2> QED
    BY <1>2, <1>4, <2>0, <2>2, <2>3, <2>4, <2>5, <2>6 DEF Same, RunTypes, TypeOK
<1> QED
  BY <1>3, <1>4

-----------------------------------------------------------------------------
(* Invariants of a run. *)

LEMMA IdleRun ==
    ASSUME ReleasesInv', TypeOK', NEW p \in Pipelines,
           kind'[p] = "none", pc'[p] = "idle", queue'[p] = << >>, tag'[p] = 0,
           got'[p] = Never, wrote'[p] = FALSE
    PROVE  RunInv(p)'
<1>1. Range(queue'[p]) = {} /\ DOMAIN queue'[p] = {}
  BY DEF Range
<1>2. PlaceInv(p)'
  BY <1>1 DEF PlaceInv, Work, Before, Updates
<1>3. GotInv(p)'
  <2>1. \A f \in Files : Archive'[f] \in Nat /\ got'[p][f] = 0
    BY ReleaseFactsLater DEF Never
  <2> QED
    BY <2>1 DEF GotInv
<1>4. TagInv(p)'
  BY <1>1 DEF TagInv
<1> QED
  BY <1>2, <1>3, <1>4 DEF RunInv

LEMMA OtherRun ==
    ASSUME TypeOK, TypeOK', Grown, NEW q \in Pipelines, RunInv(q), Same(q)
    PROVE  RunInv(q)'
<1>0. /\ \A f \in Files : Archive[f] \in Nat /\ Archive'[f] \in Nat /\ got[q][f] \in Nat
      /\ \A f \in Files, i \in 1..2 : rows[f][i] \in Nat /\ rows'[f][i] \in Nat
      /\ \A k \in 1..Latest, f \in Files : releases[k][f] \in Nat
      /\ tag[q] \in 0..Latest /\ Latest \in Nat
  BY NumberFacts, NumberFactsLater
<1>1. PlaceInv(q)'
  BY DEF RunInv, PlaceInv, Same, Item
<1>2. GotInv(q)'
  <2>1. \A f \in Files : got'[q][f] <= Archive'[f]
    BY <1>0 DEF RunInv, GotInv, Same, Grown
  <2>2. ASSUME pc'[q] = "write", Item(q)' \notin raced'
        PROVE  rows'[Item(q)'][1] >= got'[q][Item(q)']
    <3>1. pc[q] = "write" /\ Item(q)' = Item(q) /\ Item(q) \in Files
      BY <2>2 DEF Same, Item, RunInv, PlaceInv
    <3>2. rows[Item(q)][1] >= got[q][Item(q)]
      BY <2>2, <3>1 DEF RunInv, GotInv, Grown
    <3> QED
      BY <1>0, <2>2, <3>1, <3>2 DEF Same, Grown
  <2> QED
    BY <2>1, <2>2 DEF GotInv
<1>3. TagInv(q)'
  <2>1. ASSUME tag[q] # 0, pc[q] \notin Before, NEW f \in Range(Topology) \ raced'
        PROVE  \/ (f \in Range(queue[q]) /\ got[q][f] >= releases[tag[q]][f])
               \/ \A i \in 1..2 : rows'[f][i] >= releases[tag[q]][f]
    <3>1. f \in Files \ raced'
      BY MapFacts
    <3>2. \/ (f \in Range(queue[q]) /\ got[q][f] >= releases[tag[q]][f])
          \/ \A i \in 1..2 : rows[f][i] >= releases[tag[q]][f]
      BY <2>1 DEF RunInv, TagInv, Grown
    <3>3. releases[tag[q]][f] \in Nat
      BY <1>0, <2>1, <3>1
    <3> QED
      BY <1>0, <3>1, <3>2, <3>3 DEF Grown
  <2>2. tag[q] # 0 => releases'[tag[q]] = releases[tag[q]]
    BY <1>0 DEF Grown
  <2> QED
    BY <2>1, <2>2 DEF TagInv, RunInv, Same
<1> QED
  BY <1>1, <1>2, <1>3 DEF RunInv

\* A run whose item is done.
LEMMA DoneRun ==
    ASSUME TypeOK, TypeOK', ReleasesInv', Grown, UNCHANGED releases, NEW p \in Pipelines, RunInv(p),
           pc[p] \notin Before \cup {"idle"}, NEW w \in BOOLEAN, GoOn(p, w),
           Item(p) \in Range(Topology) \ raced' /\ tag[p] # 0 =>
             \A i \in 1..2 : rows'[Item(p)][i] >= releases[tag[p]][Item(p)]
    PROVE  RunInv(p)'
<1>0. queue[p] # << >> /\ queue[p] \in Seq(Items) /\ Work(kind[p], queue[p])
  BY DEF RunInv, PlaceInv, TypeOK, Items
<1>1. /\ queue'[p] = Tail(queue[p])
      /\ IF Tail(queue[p]) = << >>
           THEN /\ kind'[p] = "none" /\ pc'[p] = "idle" /\ tag'[p] = 0 /\ got'[p] = Never
                /\ wrote'[p] = FALSE
           ELSE /\ kind'[p] = kind[p] /\ pc'[p] = "next" /\ wrote'[p] = w
                /\ tag'[p] = (IF Item(p) = "meta" THEN 0 ELSE tag[p])
                /\ \A f \in Files : got'[p][f] = IF f = Item(p) THEN 0 ELSE got[p][f]
  BY <1>0, GoOnOwn
<1>2. CASE Tail(queue[p]) = << >>
  BY <1>1, <1>2, IdleRun
<1>3. CASE Tail(queue[p]) # << >>
  <2>1. /\ Work(kind[p], Tail(queue[p]))
        /\ Item(p) = "meta" => "meta" \notin Range(Tail(queue[p]))
        /\ Range(queue[p]) = {Item(p)} \cup Range(Tail(queue[p]))
    BY <1>0, WorkTail, TailFacts DEF Item
  <2>2. PlaceInv(p)'
    BY <1>1, <1>3, <2>1 DEF PlaceInv, RunInv, Before
  <2>3. GotInv(p)'
    <3>1. \A f \in Files : Archive[f] \in Nat /\ Archive'[f] = Archive[f] /\ got[p][f] \in Nat
      <4>1. \A f \in Files : Archive[f] \in Nat
        BY ReleaseFacts
      <4>2. Archive' = Archive
        BY DEF Archive, Latest
      <4>3. \A f \in Files : got[p][f] \in Nat
        BY DEF TypeOK
      <4> QED
        BY <4>1, <4>2, <4>3
    <3> QED
      BY <1>1, <1>3, <3>1 DEF GotInv, RunInv
  <2>4. TagInv(p)'
    <3>1. ASSUME tag'[p] # 0 PROVE "meta" \in Range(queue'[p])
      BY <1>1, <1>3, <2>1, <3>1 DEF RunInv, TagInv
    <3>2. ASSUME tag'[p] # 0, NEW f \in Range(Topology) \ raced'
          PROVE  \/ (f \in Range(queue'[p]) /\ got'[p][f] >= releases[tag[p]][f])
                 \/ \A i \in 1..2 : rows'[f][i] >= releases[tag[p]][f]
      <4>0. tag[p] \in 0..Latest /\ Latest \in Nat /\ tag'[p] = tag[p] /\ tag[p] # 0
        BY <1>1, <1>3, <3>2, ReleaseFacts DEF TypeOK
      <4>1. tag'[p] = tag[p] /\ tag[p] \in 1..Latest /\ f \in Files \ raced' /\ f \notin raced
        BY <4>0, MapFacts DEF Grown
      <4>2. CASE f = Item(p)
        BY <3>2, <4>1, <4>2
      <4>3. CASE f # Item(p)
        <5>1. \/ (f \in Range(queue[p]) /\ got[p][f] >= releases[tag[p]][f])
              \/ \A i \in 1..2 : rows[f][i] >= releases[tag[p]][f]
          BY <3>2, <4>1 DEF RunInv, TagInv, Before
        <5>2. CASE f \in Range(queue[p]) /\ got[p][f] >= releases[tag[p]][f]
          BY <1>1, <1>3, <2>1, <4>1, <4>3, <5>2
        <5>3. CASE \A i \in 1..2 : rows[f][i] >= releases[tag[p]][f]
          <6>1. /\ releases[tag[p]][f] \in Nat
                /\ \A i \in 1..2 : rows[f][i] \in Nat /\ rows'[f][i] \in Nat /\ rows[f][i] <= rows'[f][i]
            BY <4>1, NumberFacts, NumberFactsLater DEF Grown
          <6> QED
            BY <5>3, <6>1
        <5> QED
          BY <5>1, <5>2, <5>3
      <4> QED
        BY <4>2, <4>3
    <3>3. tag'[p] # 0 => tag'[p] = tag[p]
      BY <1>1, <1>3
    <3> QED
      BY <1>1, <1>3, <3>1, <3>2, <3>3 DEF TagInv, Before
  <2> QED
    BY <2>2, <2>3, <2>4 DEF RunInv
<1> QED
  BY <1>2, <1>3

-----------------------------------------------------------------------------
(* What is to be done by somebody. *)

LEMMA SameDraws ==
    ASSUME NEW q \in Pipelines, NEW l, Same(q), q \in sharp => q \in sharp', WillDraw(q, l)
    PROVE  WillDraw(q, l)'
BY DEF WillDraw, Same, Item

LEMMA SameBrings ==
    ASSUME TypeOK, Grown, NEW q \in Pipelines, NEW f \in Files, Same(q), UNCHANGED etag, etag # 0,
           WillBring(q, f)
    PROVE  WillBring(q, f)'
<1>1. releases'[etag] = releases[etag]
  BY NumberFacts DEF Grown
<1> QED
  BY <1>1 DEF WillBring, Same, Item

LEMMA DoneDraws ==
    ASSUME TypeOK, NEW p \in Pipelines, queue[p] # << >>, NEW w \in BOOLEAN, GoOn(p, w),
           UNCHANGED releases, NEW l, l # Item(p), WillDraw(p, l), wrote[p] \/ pc[p] = "write" => w
    PROVE  WillDraw(p, l)'
<1>1. queue[p] \in Seq(Items)
  BY DEF TypeOK, Items
<1>2. l \in Range(Tail(queue[p])) /\ Tail(queue[p]) # << >>
  <2>1. l \in Range(Tail(queue[p]))
    BY <1>1, TailFacts DEF WillDraw, Item
  <2>2. Range(<< >>) = {}
    BY DEF Range
  <2> QED
    BY <2>1, <2>2
<1>3. /\ queue'[p] = Tail(queue[p]) /\ kind'[p] = kind[p] /\ pc'[p] = "next" /\ wrote'[p] = w
  BY <1>2, GoOnOwn
<1> QED
  BY <1>2, <1>3 DEF WillDraw

LEMMA DoneBrings ==
    ASSUME TypeOK, NEW p \in Pipelines, queue[p] # << >>, NEW w \in BOOLEAN, GoOn(p, w),
           UNCHANGED releases, NEW f, f # Item(p), WillBring(p, f)
    PROVE  WillBring(p, f)'
<1>1. queue[p] \in Seq(Items)
  BY DEF TypeOK, Items
<1>2. f \in Range(Tail(queue[p])) /\ Tail(queue[p]) # << >> /\ "meta" \notin Range(Tail(queue[p]))
  <2>1. f \in Range(Tail(queue[p])) /\ "meta" \notin Range(Tail(queue[p]))
    BY <1>1, TailFacts DEF WillBring, Item
  <2>2. Range(<< >>) = {}
    BY DEF Range
  <2> QED
    BY <2>1, <2>2
<1>3. /\ queue'[p] = Tail(queue[p]) /\ kind'[p] = kind[p] /\ pc'[p] = "next"
  BY <1>2, GoOnOwn
<1> QED
  BY <1>2, <1>3 DEF WillBring

LEMMA MarksStay ==
    ASSUME TypeOK, TypeOK', Grown, MarksAreNotAhead, UNCHANGED <<hash, etag>>
    PROVE  MarksAreNotAhead'
<1>1. SUFFICES ASSUME NEW f \in Files \ raced', NEW i \in 1..2
               PROVE  /\ rows'[f][i] >= hash[f]
                      /\ etag # 0 /\ f \in Range(Topology) => rows'[f][i] >= releases'[etag][f]
  BY DEF MarksAreNotAhead
<1>2. /\ rows[f][i] >= hash[f] /\ rows[f][i] <= rows'[f][i]
      /\ etag # 0 /\ f \in Range(Topology) => rows[f][i] >= releases[etag][f]
  BY DEF MarksAreNotAhead, Grown
<1>3. /\ rows[f][i] \in Nat /\ rows'[f][i] \in Nat /\ hash[f] \in Nat
      /\ etag # 0 => releases[etag][f] \in Nat /\ releases'[etag] = releases[etag]
  BY NumberFacts, NumberFactsLater DEF Grown
<1> QED
  BY <1>2, <1>3

LEMMA LayoutsStay ==
    ASSUME LayoutInv, rows'[Systems] = rows[Systems],
           fresh \cup left \subseteq fresh' \cup left',
           \A l \in Layouts, q \in Pipelines :
              WillDraw(q, l) => l \in fresh' \cup left' \/ WillDraw(q, l)'
    PROVE  LayoutInv'
BY DEF LayoutInv

LEMMA OptionalStay ==
    ASSUME TypeOK, TypeOK', Grown, OptionalInv, UNCHANGED etag, left \subseteq left',
           \A f \in Range(Optional) \ (left' \cup raced'), q \in Pipelines :
              WillBring(q, f) /\ etag # 0 =>
                WillBring(q, f)' \/ \A i \in 1..2 : rows'[f][i] >= releases[etag][f]
    PROVE  OptionalInv'
<1>1. SUFFICES ASSUME etag # 0, NEW f \in Range(Optional) \ (left' \cup raced')
               PROVE  \/ \E p \in Pipelines : WillBring(p, f)'
                      \/ \A i \in 1..2 : rows'[f][i] >= releases[etag][f]
  <2>1. etag # 0 => releases'[etag] = releases[etag]
    BY NumberFacts DEF Grown
  <2> QED
    BY <1>1, <2>1 DEF OptionalInv
<1>2. f \in Files \ raced' /\ f \in Range(Optional) \ (left \cup raced)
  BY MapFacts DEF Grown
<1>3. CASE \E p \in Pipelines : WillBring(p, f)
  BY <1>1, <1>3
<1>4. CASE \A i \in 1..2 : rows[f][i] >= releases[etag][f]
  <2>1. /\ releases[etag][f] \in Nat
        /\ \A i \in 1..2 : rows[f][i] \in Nat /\ rows'[f][i] \in Nat /\ rows[f][i] <= rows'[f][i]
    BY <1>1, <1>2, NumberFacts, NumberFactsLater DEF Grown
  <2> QED
    BY <1>4, <2>1
<1> QED
  BY <1>1, <1>2, <1>3, <1>4 DEF OptionalInv

\* A step of run p that writes neither rows nor what is remembered of them.
LEMMA QuietStep ==
    ASSUME IInv, NEW p \in Pipelines, UNCHANGED <<releases, rows, hash, etag, raced>>, TypeOK',
           left \subseteq left', fresh \cup left \subseteq fresh' \cup left',
           \A q \in Pipelines \ {p} : Same(q) /\ (q \in sharp => q \in sharp'),
           RunInv(p)',
           \A l \in Layouts : WillDraw(p, l) => l \in fresh' \cup left' \/ WillDraw(p, l)',
           \A f \in Range(Optional) \ (left' \cup raced) :
              WillBring(p, f) /\ etag # 0 =>
                WillBring(p, f)' \/ \A i \in 1..2 : rows[f][i] >= releases[etag][f]
    PROVE  IInv'
<1>1. TypeOK /\ ReleasesInv /\ (\A q \in Pipelines : RunInv(q)) /\ MarksAreNotAhead /\ LayoutInv
      /\ OptionalInv
  BY DEF IInv
<1>2. Grown
  BY <1>1, NothingChanged
<1>3. ReleasesInv'
  BY <1>1 DEF ReleasesInv, Archive, Latest
<1>4. \A q \in Pipelines : RunInv(q)'
  <2>1. ASSUME NEW q \in Pipelines \ {p} PROVE RunInv(q)'
    BY <1>1, <1>2, OtherRun
  <2> QED
    BY <2>1
<1>5. MarksAreNotAhead'
  BY <1>1, <1>2, MarksStay
<1>6. LayoutInv'
  <2>1. \A l \in Layouts, q \in Pipelines :
              WillDraw(q, l) => l \in fresh' \cup left' \/ WillDraw(q, l)'
    BY SameDraws
  <2> QED
    BY <1>1, <2>1, LayoutsStay
<1>7. OptionalInv'
  <2>1. \A f \in Range(Optional) \ (left' \cup raced'), q \in Pipelines :
              WillBring(q, f) /\ etag # 0 =>
                WillBring(q, f)' \/ \A i \in 1..2 : rows'[f][i] >= releases[etag][f]
    <3>1. SUFFICES ASSUME NEW f \in Range(Optional) \ (left' \cup raced'), NEW q \in Pipelines \ {p},
                          WillBring(q, f), etag # 0
                   PROVE  WillBring(q, f)'
      OBVIOUS
    <3> QED
      BY <1>1, <1>2, <3>1, MapFacts, SameBrings
  <2> QED
    BY <1>1, <1>2, <2>1, OptionalStay
<1> QED
  BY <1>3, <1>4, <1>5, <1>6, <1>7 DEF IInv

-----------------------------------------------------------------------------
(* Starts. *)

Ordered(q) ==
    \A i, j \in DOMAIN q : q[j] = "meta" =>
       /\ i < j => q[i] \in Range(Topology)
       /\ i > j => q[i] \notin Range(Topology) \cup {"meta"}

LEMMA OrderedStart ==
    LET q == Topology \o <<"meta">> IN
    q \in Seq(Items) /\ q # << >> /\ Ordered(q) /\ Range(q) = Range(Topology) \cup {"meta"}
<1> DEFINE q == Topology \o <<"meta">>
<1>1. Topology \in Seq(Range(Topology)) /\ Range(Topology) \subseteq Items /\ "meta" \in Items
  BY MapAssumption, MapFacts DEF Items
<1>2. Topology \in Seq(Items)
  BY <1>1
<1>3. /\ q \in Seq(Items) /\ Len(q) = Len(Topology) + 1 /\ Len(Topology) \in Nat
      /\ DOMAIN q = 1..(Len(Topology) + 1) /\ DOMAIN Topology = 1..Len(Topology)
      /\ \A i \in 1..Len(Topology) : q[i] = Topology[i]
      /\ q[Len(Topology) + 1] = "meta"
  BY <1>1, <1>2
<1>4. \A i \in DOMAIN q : IF i = Len(Topology) + 1 THEN q[i] = "meta" ELSE q[i] \in Range(Topology)
  BY <1>3 DEF Range
<1>5. "meta" \notin Range(Topology)
  BY MapFacts
<1>6. Ordered(q)
  <2>1. SUFFICES ASSUME NEW i \in DOMAIN q, NEW j \in DOMAIN q, q[j] = "meta"
                 PROVE  /\ i < j => q[i] \in Range(Topology)
                        /\ i > j => q[i] \notin Range(Topology) \cup {"meta"}
    BY DEF Ordered
  <2>2. j = Len(Topology) + 1
    BY <1>4, <1>5, <2>1
  <2>3. i <= j
    BY <1>3, <2>2
  <2> QED
    BY <1>3, <1>4, <2>2, <2>3
<1>7. Range(q) = Range(Topology) \cup {"meta"}
  <2>1. Range(<<"meta">>) = {"meta"} /\ <<"meta">> \in Seq({"meta"})
    BY DEF Range
  <2> QED
    BY <1>1, <2>1, RangeOfBoth
<1>8. q # << >>
  BY <1>3
<1> QED
  BY <1>3, <1>6, <1>7, <1>8

LEMMA ThenMore ==
    ASSUME NEW q \in Seq(Items), q # << >>, Ordered(q), NEW r \in Seq(Items),
           Range(r) \subseteq Layouts \cup Range(Optional)
    PROVE  /\ q \o r \in Seq(Items) /\ q \o r # << >> /\ Ordered(q \o r)
           /\ Range(q \o r) = Range(q) \cup Range(r)
<1>1. /\ q \o r \in Seq(Items) /\ Len(q) \in Nat \ {0} /\ Len(r) \in Nat
      /\ DOMAIN q = 1..Len(q) /\ DOMAIN r = 1..Len(r) /\ DOMAIN (q \o r) = 1..(Len(q) + Len(r))
      /\ \A i \in 1..Len(q) : (q \o r)[i] = q[i]
  OBVIOUS
<1>2. \A i \in DOMAIN (q \o r) \ DOMAIN q : (q \o r)[i] \in Range(r)
  <2>1. SUFFICES ASSUME NEW i \in 1..(Len(q) + Len(r)), i > Len(q) PROVE (q \o r)[i] \in Range(r)
    BY <1>1
  <2>2. i - Len(q) \in 1..Len(r) /\ (q \o r)[i] = r[i - Len(q)]
    BY <1>1, <2>1
  <2> QED
    BY <1>1, <2>2 DEF Range
<1>3. Range(r) \cap (Range(Topology) \cup {"meta"}) = {}
  BY MapFacts
<1>4. Ordered(q \o r)
  <2>1. SUFFICES ASSUME NEW i \in DOMAIN (q \o r), NEW j \in DOMAIN (q \o r), (q \o r)[j] = "meta"
                 PROVE  /\ i < j => (q \o r)[i] \in Range(Topology)
                        /\ i > j => (q \o r)[i] \notin Range(Topology) \cup {"meta"}
    BY DEF Ordered
  <2>2. j \in DOMAIN q /\ q[j] = "meta"
    BY <1>1, <1>2, <1>3, <2>1
  <2>3. CASE i \in DOMAIN q
    BY <1>1, <2>2, <2>3 DEF Ordered
  <2>4. CASE i \notin DOMAIN q
    <3>1. i > j /\ ~(i < j)
      BY <1>1, <2>2, <2>4
    <3> QED
      BY <1>2, <1>3, <2>4, <3>1
  <2> QED
    BY <2>3, <2>4
<1>5. Range(q \o r) = Range(q) \cup Range(r)
  <2>1. q \in Seq(Range(q)) /\ r \in Seq(Range(r))
    BY <1>1 DEF Range
  <2> QED
    BY <2>1, RangeOfBoth
<1>6. q \o r # << >>
  <2>1. Len(q \o r) # 0
    BY <1>1
  <2> QED
    BY <2>1
<1> QED
  BY <1>1, <1>4, <1>5, <1>6

LEMMA PipelineWork ==
    /\ Pipeline \in Seq(Items) /\ Pipeline # << >>
    /\ Range(Topology) \cup {"meta"} \subseteq Range(Pipeline)
    /\ \A k \in Updates : Work(k, Pipeline)
<1> DEFINE a == Topology \o <<"meta">>  b == a \o Early  c == b \o Optional
<1>1. /\ Early \in Seq(Items) /\ Optional \in Seq(Items) /\ Late \in Seq(Items)
      /\ Range(Early) \cup Range(Optional) \cup Range(Late) \subseteq Layouts \cup Range(Optional)
  <2>1. Range(Early) \subseteq Items /\ Range(Optional) \subseteq Items /\ Range(Late) \subseteq Items
    BY MapFacts DEF Items
  <2> QED
    BY <2>1, MapAssumption, MapFacts
<1>2. a \in Seq(Items) /\ a # << >> /\ Ordered(a) /\ Range(a) = Range(Topology) \cup {"meta"}
  BY OrderedStart
<1>3. b \in Seq(Items) /\ b # << >> /\ Ordered(b) /\ Range(b) = Range(a) \cup Range(Early)
  <2> HIDE DEF a
  <2> QED
    BY <1>1, <1>2, ThenMore
<1>4. c \in Seq(Items) /\ c # << >> /\ Ordered(c) /\ Range(c) = Range(b) \cup Range(Optional)
  <2> HIDE DEF b
  <2> QED
    BY <1>1, <1>3, ThenMore
<1>5. /\ c \o Late \in Seq(Items) /\ c \o Late # << >> /\ Ordered(c \o Late)
      /\ Range(c \o Late) = Range(c) \cup Range(Late)
  <2> HIDE DEF c
  <2> QED
    BY <1>1, <1>4, ThenMore
<1>6. Pipeline = c \o Late
  BY DEF Pipeline
<1> HIDE DEF a, b, c
<1>7. Range(Pipeline) = Range(Topology) \cup {"meta"} \cup Layouts \cup Range(Optional)
  BY <1>2, <1>3, <1>4, <1>5, <1>6, MapFacts
<1> QED
  BY <1>5, <1>6, <1>7 DEF Work, Ordered, Updates

LEMMA ImportWork ==
    LET q == Topology \o <<"meta">> IN
    /\ q \in Seq(Items) /\ q # << >> /\ Range(Topology) \cup {"meta"} \subseteq Range(q)
    /\ Work("import", q)
BY OrderedStart DEF Work, Ordered, Updates

LEMMA SingleWork ==
    ASSUME NEW x \in Layouts \cup Range(Optional)
    PROVE  /\ <<x>> \in Seq(Items) /\ <<x>> # << >> /\ Head(<<x>>) = x
           /\ Work("one", <<x>>)
<1>1. <<x>> \in Seq(Items) /\ <<x>> # << >> /\ Head(<<x>>) = x
  BY MapFacts DEF Items
<1>2. Range(<<x>>) = {x} /\ \A i \in DOMAIN <<x>> : <<x>>[i] = x
  BY DEF Range
<1>3. x \notin Range(Topology) \cup {"meta"}
  BY MapFacts
<1> QED
  BY <1>1, <1>2, <1>3 DEF Work

LEMMA StartKeeps ==
    ASSUME IInv, NEW p \in Pipelines, NEW k \in {"import", "one"} \cup Updates,
           NEW l \in {"check", "tag", "refetch", "next"}, NEW work \in Seq(Items), work # << >>,
           Work(k, work), l \in {"check", "tag"} => Range(Topology) \cup {"meta"} \subseteq Range(work),
           l = "refetch" => Head(work) \in Range(Optional),
           Start(p, k, l, work), admin' \in Nat
    PROVE  IInv'
<1>1. /\ pc[p] = "idle" /\ TypeOK /\ RunInv(p)
      /\ kind' = [kind EXCEPT ![p] = k] /\ pc' = [pc EXCEPT ![p] = l]
      /\ queue' = [queue EXCEPT ![p] = work]
      /\ UNCHANGED <<releases, memory, tables, tag, got, wrote, sharp, faults, history>>
  BY DEF Start, Goto, IInv
<1>2. /\ kind'[p] = k /\ pc'[p] = l /\ queue'[p] = work /\ tag'[p] = tag[p] /\ got'[p] = got[p]
      /\ wrote'[p] = wrote[p]
      /\ \A q \in Pipelines \ {p} : Same(q)
  BY <1>1 DEF TypeOK, Same
<1>3. TypeOK'
  <2>1. /\ kind' \in [Pipelines -> {"none", "import", "one"} \cup Updates]
        /\ pc' \in [Pipelines -> Places]
        /\ queue' \in [Pipelines -> Seq(Items)]
    BY <1>1 DEF TypeOK, Places, Items
  <2> QED
    BY <1>1, <2>1 DEF TypeOK, Items, memory, tables, history, Latest
<1>4. RunInv(p)'
  <2>1. ~wrote[p] /\ tag[p] = 0
    BY <1>1 DEF RunInv, PlaceInv, TagInv
  <2>2. PlaceInv(p)'
    BY <1>2, <2>1 DEF PlaceInv, Item, Before, Updates
  <2>3. GotInv(p)'
    BY <1>1, <1>2 DEF GotInv, RunInv, Archive, Latest
  <2>4. TagInv(p)'
    BY <1>2, <2>1 DEF TagInv
  <2> QED
    BY <2>2, <2>3, <2>4 DEF RunInv
<1>5. \A x : ~WillDraw(p, x) /\ ~WillBring(p, x)
  BY <1>1 DEF WillDraw, WillBring, RunInv, PlaceInv, Updates
<1> QED
  BY <1>1, <1>2, <1>3, <1>4, <1>5, QuietStep DEF memory, tables, history

LEMMA StartsKeep == ASSUME IInv, NEW p \in Pipelines, StartUpdate(p) \/ StartByAdmin(p) PROVE IInv'
<1>0. TypeOK
  BY DEF IInv
<1>1. CASE StartUpdate(p)
  <2>1. Start(p, "update", "check", Pipeline) /\ admin' \in Nat
    BY <1>0, <1>1 DEF StartUpdate, TypeOK
  <2> QED
    BY <2>1, PipelineWork, StartKeeps DEF Updates
<1>2. CASE StartByAdmin(p)
  <2>1. admin' \in Nat
    BY <1>0, <1>2 DEF StartByAdmin, TypeOK
  <2>2. CASE Start(p, "forced", "tag", Pipeline)
    BY <2>1, <2>2, PipelineWork, StartKeeps DEF Updates
  <2>3. CASE Start(p, "import", "tag", Topology \o <<"meta">>)
    BY <2>1, <2>3, ImportWork, StartKeeps
  <2>4. CASE \E f \in Range(Optional) : Start(p, "one", "refetch", <<f>>)
    <3>1. PICK f \in Range(Optional) : Start(p, "one", "refetch", <<f>>)
      BY <2>4
    <3> QED
      BY <2>1, <3>1, SingleWork, StartKeeps
  <2>5. CASE \E l \in Layouts : Start(p, "one", "next", <<l>>)
    <3>1. PICK l \in Layouts : Start(p, "one", "next", <<l>>)
      BY <2>5
    <3> QED
      BY <2>1, <3>1, SingleWork, StartKeeps
  <2> QED
    BY <1>2, <2>2, <2>3, <2>4, <2>5 DEF StartByAdmin
<1> QED
  BY <1>1, <1>2

-----------------------------------------------------------------------------
(* Steps that write neither rows nor marks. *)

LEMMA Parts ==
    ASSUME IInv
    PROVE  /\ TypeOK /\ ReleasesInv /\ (\A p \in Pipelines : RunInv(p))
           /\ MarksAreNotAhead /\ LayoutInv /\ OptionalInv
BY DEF IInv

LEMMA FaultCounts == ASSUME TypeOK, Fault PROVE faults' \in Nat
BY DEF TypeOK, Fault

LEMMA RunTypesDo ==
    ASSUME TypeOK, RunTypes', UNCHANGED <<releases, rows, hash, etag, updated, raced>>,
           fresh' \subseteq Layouts, sharp' \subseteq Pipelines, admin' \in Nat, faults' \in Nat,
           left' \subseteq Files \cup Layouts
    PROVE  TypeOK'
BY DEF TypeOK, RunTypes, Items, Latest

\* A run that was not to do anything stops.
LEMMA StopBeforeKeeps ==
    ASSUME IInv, NEW p \in Pipelines, pc[p] \in Before, Stops(p),
           UNCHANGED <<releases, memory, tables, sharp, admin, history>>, faults' \in Nat
    PROVE  IInv'
<1>0. TypeOK /\ RunInv(p) /\ ReleasesInv
  BY Parts
<1>1. /\ kind'[p] = "none" /\ pc'[p] = "idle" /\ queue'[p] = << >> /\ tag'[p] = 0
      /\ got'[p] = Never /\ wrote'[p] = FALSE
      /\ \A q \in Pipelines \ {p} : Same(q)
      /\ RunTypes'
  BY <1>0, StopsOwn
<1>2. TypeOK'
  BY <1>0, <1>1, RunTypesDo DEF memory, tables, history, TypeOK
<1>3. RunInv(p)'
  <2>1. ReleasesInv'
    BY <1>0 DEF ReleasesInv, Archive, Latest
  <2> QED
    BY <1>1, <1>2, <2>1, IdleRun
<1>4. \A x : ~WillDraw(p, x) /\ ~WillBring(p, x)
  BY <1>0 DEF WillDraw, WillBring, RunInv, PlaceInv, Before
<1> QED
  BY <1>1, <1>2, <1>3, <1>4, QuietStep DEF memory, tables, history

\* A run moves on with the same work.
LEMMA MoveKeeps ==
    ASSUME IInv, NEW p \in Pipelines, NEW l \in Places, Goto(p, l), pc[p] # "idle", l # "idle",
           UNCHANGED <<releases, memory, tables, kind, queue, wrote, admin, history>>,
           faults' \in Nat, tag' \in [Pipelines -> 0..Latest], got' \in [Pipelines -> [Files -> Nat]],
           sharp' \subseteq Pipelines,
           \A q \in Pipelines \ {p} : tag'[q] = tag[q] /\ got'[q] = got[q] /\ (q \in sharp => q \in sharp'),
           PlaceInv(p)', GotInv(p)', TagInv(p)',
           \A x : WillDraw(p, x) => WillDraw(p, x)',
           \A f \in Range(Optional) : etag # 0 /\ WillBring(p, f) => WillBring(p, f)'
    PROVE  IInv'
<1>0. TypeOK /\ RunInv(p) /\ ReleasesInv
  BY Parts
<1>1. pc' = [pc EXCEPT ![p] = l]
  BY DEF Goto
<1>2. \A q \in Pipelines \ {p} : Same(q)
  BY <1>0, <1>1 DEF Same, TypeOK
<1>3. RunTypes'
  BY <1>0, <1>1 DEF RunTypes, TypeOK, Items, Latest
<1>4. TypeOK'
  BY <1>0, <1>3, RunTypesDo DEF memory, tables, history, TypeOK
<1>5. RunInv(p)'
  BY DEF RunInv
<1> QED
  BY <1>2, <1>4, <1>5, QuietStep DEF memory, tables, history

\* A run is done with an item that nothing was to be written for.
LEMMA PassKeeps ==
    ASSUME IInv, NEW p \in Pipelines, pc[p] \notin Before \cup {"idle", "write"}, GoOn(p, wrote[p]),
           UNCHANGED <<releases, memory, rows, admin, raced>>, faults' \in Nat,
           fresh' \subseteq Layouts, sharp' \subseteq Pipelines,
           \A q \in Pipelines \ {p} : q \in sharp => q \in sharp',
           left \subseteq left', left' \subseteq Files \cup Layouts,
           fresh \cup left \subseteq fresh' \cup left',
           Item(p) \in Layouts /\ WillDraw(p, Item(p)) => Item(p) \in fresh' \cup left',
           Item(p) \in Range(Topology) => hash[Item(p)] = got[p][Item(p)],
           Item(p) \in Range(Optional) => hash[Item(p)] = Archive[Item(p)]
    PROVE  IInv'
<1>0. TypeOK /\ RunInv(p) /\ ReleasesInv /\ MarksAreNotAhead
  BY Parts
<1>1. queue[p] # << >> /\ wrote[p] \in BOOLEAN
  BY <1>0 DEF RunInv, PlaceInv, TypeOK
<1>2. RunTypes' /\ \A q \in Pipelines \ {p} : Same(q)
  BY <1>0, <1>1, GoOnOwn
<1>3. TypeOK'
  <2>1. admin' \in Nat
    BY <1>0 DEF TypeOK
  <2> QED
    BY <1>0, <1>2, <2>1, RunTypesDo DEF memory
<1>4. Grown /\ ReleasesInv'
  BY <1>0, NothingChanged DEF ReleasesInv, Archive, Latest
<1>5. Item(p) \in Range(Topology) \ raced' /\ tag[p] # 0 =>
             \A i \in 1..2 : rows'[Item(p)][i] >= releases[tag[p]][Item(p)]
  <2>1. SUFFICES ASSUME Item(p) \in Range(Topology) \ raced, tag[p] # 0, NEW i \in 1..2
                 PROVE  rows[Item(p)][i] >= releases[tag[p]][Item(p)]
    BY DEF memory
  <2>2. Item(p) \in Files \ raced /\ tag[p] \in 1..Latest
    BY <1>0, <2>1, MapFacts, NumberFacts
  <2>3. \/ got[p][Item(p)] >= releases[tag[p]][Item(p)]
        \/ rows[Item(p)][i] >= releases[tag[p]][Item(p)]
    BY <1>0, <2>1 DEF RunInv, TagInv
  <2>4. rows[Item(p)][i] >= hash[Item(p)] /\ hash[Item(p)] = got[p][Item(p)]
    BY <1>0, <2>1, <2>2 DEF MarksAreNotAhead
  <2>5. /\ rows[Item(p)][i] \in Nat /\ hash[Item(p)] \in Nat /\ got[p][Item(p)] \in Nat
        /\ releases[tag[p]][Item(p)] \in Nat
    BY <1>0, <2>2, NumberFacts
  <2> QED
    BY <2>3, <2>4, <2>5
<1>6. RunInv(p)'
  BY <1>0, <1>1, <1>3, <1>4, <1>5, DoneRun
<1>7. \A l \in Layouts : WillDraw(p, l) => l \in fresh' \cup left' \/ WillDraw(p, l)'
  BY <1>0, <1>1, DoneDraws
<1>8. ASSUME NEW f \in Range(Optional) \ (left' \cup raced), WillBring(p, f), etag # 0
      PROVE  WillBring(p, f)' \/ \A i \in 1..2 : rows[f][i] >= releases[etag][f]
  <2>1. CASE f # Item(p)
    BY <1>0, <1>1, <1>8, <2>1, DoneBrings
  <2>2. CASE f = Item(p)
    <3>1. hash[f] = Archive[f] /\ f \in Files \ raced /\ etag \in 1..Latest
      BY <1>0, <1>8, <2>2, MapFacts, NumberFacts
    <3>2. /\ Archive[f] \in Nat /\ releases[etag][f] \in Nat /\ \A i \in 1..2 : rows[f][i] \in Nat
          /\ releases[etag][f] <= Archive[f]
      BY <1>0, <3>1, NumberFacts DEF ReleasesInv
    <3>3. \A i \in 1..2 : rows[f][i] >= hash[f]
      BY <1>0, <3>1 DEF MarksAreNotAhead
    <3> QED
      BY <3>1, <3>2, <3>3
  <2> QED
    BY <2>1, <2>2
<1> QED
  BY <1>2, <1>3, <1>6, <1>7, <1>8, QuietStep DEF memory

LEMMA CheckKeeps == ASSUME IInv, NEW p \in Pipelines, Check(p) \/ CheckFails(p) PROVE IInv'
<1>0. TypeOK /\ RunInv(p) /\ pc[p] = "check"
  BY Parts DEF Check, CheckFails
<1>1. CASE Stops(p)
  <2>1. faults' \in Nat
    BY <1>0, FaultCounts DEF Check, CheckFails, counts, TypeOK
  <2> QED
    BY <1>0, <1>1, <2>1, StopBeforeKeeps DEF Check, CheckFails, Before, counts
<1>2. ASSUME ~Stops(p), NEW l \in {"tag", "download"}, Goto(p, l)
      PROVE  IInv'
  <2>1. /\ UNCHANGED <<releases, memory, tables, kind, queue, got, wrote, sharp, admin, history>>
        /\ tag' = tag \/ (l = "download" /\ tag' = [tag EXCEPT ![p] = Latest])
        /\ faults' \in Nat
    BY <1>0, <1>2, FaultCounts DEF Check, CheckFails, counts, TypeOK, Goto
  <2>2. pc' = [pc EXCEPT ![p] = l] /\ pc'[p] = l
    BY <1>0, <1>2 DEF Goto, TypeOK
  <2>3. /\ tag' \in [Pipelines -> 0..Latest] /\ \A q \in Pipelines \ {p} : tag'[q] = tag[q]
        /\ l = "tag" => tag'[p] = tag[p]
    BY <1>0, <2>1, NumberFacts DEF TypeOK
  <2>4. PlaceInv(p)'
    BY <1>0, <1>2, <2>1, <2>2 DEF PlaceInv, RunInv, Before, Item
  <2>5. GotInv(p)'
    BY <1>0, <1>2, <2>1, <2>2 DEF GotInv, RunInv, Archive, Latest
  <2>6. TagInv(p)'
    <3>1. "meta" \in Range(queue[p]) /\ tag[p] = 0
      BY <1>0 DEF RunInv, PlaceInv, TagInv, Before
    <3> QED
      BY <1>0, <1>2, <2>1, <2>2, <2>3, <3>1 DEF TagInv, Before
  <2>7. \A x : ~WillDraw(p, x) /\ ~WillBring(p, x)
    BY <1>0 DEF WillDraw, WillBring, RunInv, PlaceInv, Before
  <2>8. got' \in [Pipelines -> [Files -> Nat]] /\ sharp' \subseteq Pipelines
    BY <1>0, <2>1 DEF TypeOK
  <2> QED
    BY <1>0, <1>2, <2>1, <2>3, <2>4, <2>5, <2>6, <2>7, <2>8, MoveKeeps DEF Places
<1> QED
  BY <1>1, <1>2 DEF Check, CheckFails

LEMMA FetchKeeps == ASSUME IInv, NEW p \in Pipelines, FetchTag(p) \/ Download(p) PROVE IInv'
<1>0. TypeOK /\ RunInv(p) /\ ReleasesInv
  BY Parts
<1>1. CASE FetchTag(p)
  <2>1. /\ UNCHANGED <<releases, memory, tables, kind, queue, got, wrote, sharp, admin, history>>
        /\ tag' = tag \/ tag' = [tag EXCEPT ![p] = Latest]
        /\ faults' \in Nat /\ pc[p] = "tag" /\ Goto(p, "download")
    BY <1>0, <1>1, FaultCounts DEF FetchTag, TypeOK
  <2>2. pc' = [pc EXCEPT ![p] = "download"] /\ pc'[p] = "download"
    BY <1>0, <2>1 DEF Goto, TypeOK
  <2>3. tag' \in [Pipelines -> 0..Latest] /\ \A q \in Pipelines \ {p} : tag'[q] = tag[q]
    BY <1>0, <2>1, NumberFacts DEF TypeOK
  <2>4. PlaceInv(p)'
    BY <1>0, <2>1, <2>2 DEF PlaceInv, RunInv, Before, Item
  <2>5. GotInv(p)'
    BY <1>0, <2>1, <2>2 DEF GotInv, RunInv, Archive, Latest
  <2>6. TagInv(p)'
    <3>1. "meta" \in Range(queue[p])
      BY <1>0, <2>1 DEF RunInv, PlaceInv, Before
    <3> QED
      BY <2>1, <2>2, <3>1 DEF TagInv, Before
  <2>7. \A x : ~WillDraw(p, x) /\ ~WillBring(p, x)
    BY <1>0, <2>1 DEF WillDraw, WillBring, RunInv, PlaceInv, Before
  <2>8. got' \in [Pipelines -> [Files -> Nat]] /\ sharp' \subseteq Pipelines
    BY <1>0, <2>1 DEF TypeOK
  <2> QED
    BY <1>0, <2>1, <2>3, <2>4, <2>5, <2>6, <2>7, <2>8, MoveKeeps DEF Places
<1>2. CASE Download(p)
  <2>1. /\ UNCHANGED <<releases, memory, tables, kind, queue, tag, wrote, sharp, admin, faults, history>>
        /\ got' = [got EXCEPT ![p] = Archive]
        /\ pc[p] = "download" /\ Goto(p, "next")
    BY <1>2 DEF Download, counts
  <2>2. pc' = [pc EXCEPT ![p] = "next"] /\ pc'[p] = "next"
    BY <1>0, <2>1 DEF Goto, TypeOK
  <2>3. /\ got' \in [Pipelines -> [Files -> Nat]] /\ got'[p] = Archive
        /\ \A q \in Pipelines \ {p} : got'[q] = got[q]
    BY <1>0, <2>1, ReleaseFacts DEF TypeOK
  <2>4. PlaceInv(p)'
    BY <1>0, <2>1, <2>2 DEF PlaceInv, RunInv, Before, Item
  <2>5. GotInv(p)'
    <3>1. \A f \in Files : Archive[f] <= Archive[f]
      BY <1>0, NumberFacts
    <3> QED
      BY <2>1, <2>2, <2>3, <3>1 DEF GotInv, Archive, Latest
  <2>6. TagInv(p)'
    <3>1. /\ Range(Topology) \cup {"meta"} \subseteq Range(queue[p])
          /\ tag[p] # 0 => \A f \in Files : releases[tag[p]][f] <= Archive[f]
                                         /\ releases[tag[p]][f] \in Nat /\ Archive[f] \in Nat
      BY <1>0, <2>1, NumberFacts DEF RunInv, PlaceInv, Before, ReleasesInv
    <3> QED
      BY <2>1, <2>2, <2>3, <3>1, MapFacts DEF TagInv
  <2>7. \A x : ~WillDraw(p, x) /\ ~WillBring(p, x)
    BY <1>0, <2>1 DEF WillDraw, WillBring, RunInv, PlaceInv, Before
  <2>8. tag' \in [Pipelines -> 0..Latest] /\ sharp' \subseteq Pipelines /\ faults' \in Nat
    BY <1>0, <2>1 DEF TypeOK
  <2> QED
    BY <1>0, <2>1, <2>3, <2>4, <2>5, <2>6, <2>7, <2>8, MoveKeeps DEF Places
<1> QED
  BY <1>1, <1>2

LEMMA SkipKeeps ==
    ASSUME IInv, NEW p \in Pipelines, SkipFile(p) \/ SkipLayout(p) \/ CompareOptional(p) \/ FetchOptional(p),
           GoOn(p, wrote[p])
    PROVE  IInv'
<1>0. TypeOK /\ RunInv(p) /\ faults \in Nat /\ admin \in Nat /\ fresh \subseteq Layouts
      /\ sharp \subseteq Pipelines /\ left \subseteq Files \cup Layouts
  BY Parts DEF TypeOK
<1>1. /\ UNCHANGED <<releases, memory, tables, sharp, counts, history>>
      /\ pc[p] \in {"next", "refetch"}
  BY DEF SkipFile, SkipLayout, CompareOptional, FetchOptional, At
<1>2. UNCHANGED <<releases, memory, rows, fresh, sharp, admin, faults, raced, left>>
  BY <1>1 DEF tables, counts, history
<1>3. ~WillDraw(p, Item(p)) \/ Item(p) \notin Layouts
  <2>1. CASE SkipLayout(p)
    BY <1>1, <2>1 DEF SkipLayout, Skips, WillDraw, Updates, At
  <2>2. CASE ~SkipLayout(p)
    BY <1>0, <2>2, MapFacts DEF SkipFile, CompareOptional, FetchOptional, At, RunInv, PlaceInv
  <2> QED
    BY <2>1, <2>2
<1>4. /\ Item(p) \in Range(Topology) => hash[Item(p)] = got[p][Item(p)]
      /\ Item(p) \in Range(Optional) => hash[Item(p)] = Archive[Item(p)]
  <2>1. CASE SkipFile(p)
    BY <2>1, MapFacts DEF SkipFile, At
  <2>2. CASE SkipLayout(p)
    BY <2>2, MapFacts DEF SkipLayout, At
  <2>3. CASE CompareOptional(p)
    <3>1. hash[Item(p)] = Archive[Item(p)]
      <4>1. queue'[p] # queue[p]
        <5>1. queue[p] # << >> /\ queue[p] \in Seq(Items) /\ wrote[p] \in BOOLEAN /\ UNCHANGED releases
          BY <1>0, <1>1, <1>2 DEF RunInv, PlaceInv, TypeOK, Items
        <5>2. queue'[p] = Tail(queue[p])
          BY <1>0, <5>1, GoOnOwn
        <5>3. \A s \in Seq(Items) : s # << >> => Tail(s) # s
          <6>1. \A s \in Seq(Items) : s # << >> => Len(Tail(s)) = Len(s) - 1 /\ Len(s) \in Nat
            OBVIOUS
          <6> QED
            BY <6>1
        <5> QED
          BY <5>1, <5>2, <5>3
      <4> QED
        BY <2>3, <4>1 DEF CompareOptional
    <3> QED
      BY <2>3, <3>1, MapFacts DEF CompareOptional, At
  <2>4. CASE FetchOptional(p)
    <3>1. hash[Item(p)] = Archive[Item(p)]
      <4>1. pc'[p] # "fetched"
        <5>1. queue[p] # << >> /\ wrote[p] \in BOOLEAN /\ UNCHANGED releases
          BY <1>0, <1>1, <1>2 DEF RunInv, PlaceInv, TypeOK
        <5> QED
          BY <1>0, <5>1, GoOnOwn
      <4> QED
        BY <1>0, <2>4, <4>1 DEF FetchOptional, Goto, TypeOK
    <3> QED
      BY <1>0, <2>4, <3>1, MapFacts DEF FetchOptional, RunInv, PlaceInv
  <2> QED
    BY <2>1, <2>2, <2>3, <2>4
<1> QED
  BY <1>0, <1>1, <1>2, <1>3, <1>4, PassKeeps DEF Before

\* The optional file is fetched to be compared, and again to be imported.
LEMMA RefetchKeeps ==
    ASSUME IInv, NEW p \in Pipelines, CompareOptional(p) \/ FetchOptional(p), ~GoOn(p, wrote[p])
    PROVE  IInv'
<1>0. TypeOK /\ RunInv(p) /\ ReleasesInv /\ faults \in Nat /\ sharp \subseteq Pipelines
  BY Parts DEF TypeOK
<1>1. CASE CompareOptional(p)
  <2>1. /\ UNCHANGED <<releases, memory, tables, kind, queue, tag, got, wrote, sharp, admin, faults, history>>
        /\ pc[p] = "next" /\ Item(p) \in Range(Optional) /\ Goto(p, "refetch")
    BY <1>1 DEF CompareOptional, At, counts
  <2>2. pc' = [pc EXCEPT ![p] = "refetch"] /\ pc'[p] = "refetch"
    BY <1>0, <2>1 DEF Goto, TypeOK
  <2>3. PlaceInv(p)'
    BY <1>0, <2>1, <2>2 DEF PlaceInv, RunInv, Before, Item
  <2>4. GotInv(p)'
    BY <1>0, <2>1, <2>2 DEF GotInv, RunInv, Archive, Latest
  <2>5. TagInv(p)'
    BY <1>0, <2>1, <2>2 DEF TagInv, RunInv, Before, tables, history
  <2>6. \A x : WillDraw(p, x) => WillDraw(p, x)'
    BY <2>1, <2>2 DEF WillDraw
  <2>7. \A x : WillBring(p, x) => WillBring(p, x)'
    BY <2>1, <2>2 DEF WillBring
  <2>8. /\ tag' \in [Pipelines -> 0..Latest] /\ got' \in [Pipelines -> [Files -> Nat]]
    BY <1>0, <2>1 DEF TypeOK
  <2> QED
    BY <1>0, <2>1, <2>3, <2>4, <2>5, <2>6, <2>7, <2>8, MoveKeeps DEF Places
<1>2. CASE FetchOptional(p)
  <2>1. /\ UNCHANGED <<releases, memory, tables, kind, queue, tag, wrote, sharp, admin, faults, history>>
        /\ pc[p] = "refetch" /\ Goto(p, "fetched")
        /\ got' = [got EXCEPT ![p][Item(p)] = Archive[Item(p)]]
    BY <1>2 DEF FetchOptional, counts
  <2>2. pc' = [pc EXCEPT ![p] = "fetched"] /\ pc'[p] = "fetched"
    BY <1>0, <2>1 DEF Goto, TypeOK
  <2>3. Item(p) \in Range(Optional) /\ Item(p) \in Files /\ Item(p) \notin Range(Topology)
    BY <1>0, <2>1, MapFacts DEF RunInv, PlaceInv
  <2>4. /\ got' \in [Pipelines -> [Files -> Nat]] /\ \A q \in Pipelines \ {p} : got'[q] = got[q]
        /\ \A f \in Files : got'[p][f] = IF f = Item(p) THEN Archive[f] ELSE got[p][f]
    <3>1. Archive[Item(p)] \in Nat
      BY <1>0, <2>3, NumberFacts
    <3> QED
      BY <1>0, <2>1, <2>3, <3>1 DEF TypeOK
  <2>5. PlaceInv(p)'
    BY <1>0, <2>1, <2>2 DEF PlaceInv, RunInv, Before, Item
  <2>6. GotInv(p)'
    <3>1. \A f \in Files : Archive[f] \in Nat
      BY <1>0, NumberFacts
    <3> QED
      BY <1>0, <2>1, <2>2, <2>4, <3>1 DEF GotInv, RunInv, Archive, Latest
  <2>7. TagInv(p)'
    BY <1>0, <2>1, <2>2, <2>3, <2>4, MapFacts DEF TagInv, RunInv, Before, tables, history
  <2>8. \A x : WillDraw(p, x) => WillDraw(p, x)'
    BY <2>1, <2>2 DEF WillDraw
  <2>9. ASSUME NEW f \in Range(Optional), etag # 0, WillBring(p, f) PROVE WillBring(p, f)'
    <3>1. f \in Files /\ etag \in 1..Latest
      BY <1>0, <2>9, MapFacts, NumberFacts
    <3>2. releases[etag][f] <= Archive[f] /\ releases[etag][f] \in Nat /\ Archive[f] \in Nat
      BY <1>0, <3>1, NumberFacts DEF ReleasesInv
    <3>3. Item(p) = f => got'[p][f] >= releases[etag][f]
      BY <2>4, <3>1, <3>2
    <3>4. Item(p)' = Item(p) /\ UNCHANGED <<releases, etag, kind, queue>>
      BY <2>1 DEF Item, memory
    <3> QED
      BY <2>9, <3>3, <3>4 DEF WillBring
  <2>10. tag' \in [Pipelines -> 0..Latest]
    BY <1>0, <2>1 DEF TypeOK
  <2> QED
    BY <1>0, <2>1, <2>4, <2>5, <2>6, <2>7, <2>8, <2>9, <2>10, MoveKeeps DEF Places
<1> QED
  BY <1>1, <1>2

LEMMA DrawKeeps == ASSUME IInv, NEW p \in Pipelines, LoadLayout(p) \/ SaveLayout(p) PROVE IInv'
<1>0. TypeOK /\ RunInv(p) /\ ReleasesInv /\ faults \in Nat /\ admin \in Nat /\ sharp \subseteq Pipelines
      /\ fresh \subseteq Layouts /\ left \subseteq Files \cup Layouts
  BY Parts DEF TypeOK
<1>1. CASE LoadLayout(p)
  <2>1. /\ UNCHANGED <<releases, memory, tables, kind, queue, tag, got, wrote, admin, faults, history>>
        /\ sharp' = sharp \cup {p} /\ pc[p] = "next" /\ Item(p) \in Layouts /\ Goto(p, "drawn")
    BY <1>1 DEF LoadLayout, At, counts
  <2>2. pc' = [pc EXCEPT ![p] = "drawn"] /\ pc'[p] = "drawn"
    BY <1>0, <2>1 DEF Goto, TypeOK
  <2>3. PlaceInv(p)'
    BY <1>0, <2>1, <2>2 DEF PlaceInv, RunInv, Before, Item
  <2>4. GotInv(p)'
    BY <1>0, <2>1, <2>2 DEF GotInv, RunInv, Archive, Latest
  <2>5. TagInv(p)'
    BY <1>0, <2>1, <2>2 DEF TagInv, RunInv, Before, tables, history
  <2>6. \A x : WillDraw(p, x) => WillDraw(p, x)'
    BY <2>1, <2>2 DEF WillDraw
  <2>7. \A x : WillBring(p, x) => WillBring(p, x)'
    BY <2>1, <2>2 DEF WillBring
  <2>8. /\ tag' \in [Pipelines -> 0..Latest] /\ got' \in [Pipelines -> [Files -> Nat]]
        /\ sharp' \subseteq Pipelines
    BY <1>0, <2>1 DEF TypeOK
  <2> QED
    BY <1>0, <2>1, <2>3, <2>4, <2>5, <2>6, <2>7, <2>8, MoveKeeps DEF Places
<1>2. CASE SaveLayout(p)
  <2>1. /\ pc[p] = "drawn" /\ GoOn(p, wrote[p]) /\ sharp' = sharp \ {p}
        /\ UNCHANGED <<releases, memory, rows, admin, raced>>
    BY <1>2 DEF SaveLayout
  <2>2. Item(p) \in Layouts /\ Item(p) \notin Files
    BY <1>0, <2>1, MapFacts DEF RunInv, PlaceInv
  <2>3. /\ faults' \in Nat /\ left \subseteq left' /\ left' \subseteq Files \cup Layouts
        /\ fresh' \subseteq Layouts /\ fresh \cup left \subseteq fresh' \cup left'
        /\ p \in sharp => Item(p) \in fresh' \cup left'
    <3>1. CASE /\ fresh' = (IF p \in sharp THEN fresh \cup {Item(p)} ELSE fresh)
               /\ UNCHANGED <<faults, left>>
      BY <1>0, <2>2, <3>1
    <3>2. CASE Fault /\ left' = left \cup {Item(p)} /\ fresh' = fresh \ {Item(p)}
      BY <1>0, <2>2, <3>2, FaultCounts
    <3> QED
      BY <1>2, <3>1, <3>2 DEF SaveLayout
  <2>4. WillDraw(p, Item(p)) => Item(p) \in fresh' \cup left'
    BY <2>1, <2>3 DEF WillDraw
  <2>5. Item(p) \notin Range(Topology) \cup Range(Optional)
    BY <2>2, MapFacts
  <2>6. pc[p] \notin Before \cup {"idle", "write"}
    BY <2>1 DEF Before
  <2> QED
    BY <1>0, <2>1, <2>3, <2>4, <2>5, <2>6, PassKeeps
<1> QED
  BY <1>1, <1>2

LEMMA FailsKeeps == ASSUME IInv, NEW p \in Pipelines, Fails(p) PROVE IInv'
<1>0. TypeOK /\ RunInv(p) /\ ReleasesInv /\ admin \in Nat /\ sharp \subseteq Pipelines
      /\ fresh \subseteq Layouts /\ left \subseteq Files \cup Layouts
  BY Parts DEF TypeOK
<1>1. /\ Stops(p) /\ UNCHANGED <<releases, memory, tables, admin, raced>>
      /\ sharp' = sharp \ {p} /\ left' = left \cup Undone(p) /\ faults' \in Nat
  BY <1>0, FaultCounts DEF Fails
<1>2. /\ kind'[p] = "none" /\ pc'[p] = "idle" /\ queue'[p] = << >> /\ tag'[p] = 0
      /\ got'[p] = Never /\ wrote'[p] = FALSE
      /\ \A q \in Pipelines \ {p} : Same(q)
      /\ RunTypes'
  BY <1>0, <1>1, StopsOwn
<1>3. Undone(p) \subseteq Files \cup Layouts
  BY MapFacts DEF Undone
<1>4. TypeOK'
  BY <1>0, <1>1, <1>2, <1>3, RunTypesDo DEF memory, tables
<1>5. RunInv(p)'
  <2>1. ReleasesInv'
    BY <1>0, <1>1 DEF ReleasesInv, Archive, Latest
  <2> QED
    BY <1>2, <1>4, <2>1, IdleRun
<1>6. \A l \in Layouts : WillDraw(p, l) => l \in left'
  BY <1>1 DEF WillDraw, Undone, Updates
<1>7. \A f \in Range(Optional) : WillBring(p, f) => f \in left'
  BY <1>1 DEF WillBring, Undone, Updates
<1> QED
  BY <1>1, <1>2, <1>4, <1>5, <1>6, <1>7, QuietStep DEF memory, tables

-----------------------------------------------------------------------------
(* Releases, crashes. *)

LEMMA PublishKeeps == ASSUME IInv, Publish PROVE IInv'
<1>0. /\ TypeOK /\ ReleasesInv /\ (\A q \in Pipelines : RunInv(q)) /\ MarksAreNotAhead /\ LayoutInv
      /\ OptionalInv
  BY Parts
<1>1. PICK changed \in Changes :
         releases' = Append(releases, [f \in Files |-> IF f \in changed THEN Latest + 1 ELSE Archive[f]])
  BY DEF Publish
<1>2. UNCHANGED <<memory, tables, runs, sharp, counts, history>>
  BY DEF Publish
<1> DEFINE new == [f \in Files |-> IF f \in changed THEN Latest + 1 ELSE Archive[f]]
<1>3. new \in [Files -> Nat]
  BY <1>0, NumberFacts
<1>4. /\ releases' \in Seq([Files -> Nat]) /\ releases' # << >> /\ Latest' = Latest + 1
      /\ releases'[Latest + 1] = new /\ \A k \in 1..Latest : releases'[k] = releases[k]
  <2> HIDE DEF new
  <2>1. releases \in Seq([Files -> Nat]) /\ releases' = Append(releases, new)
    BY <1>0, <1>1 DEF TypeOK, new
  <2>2. /\ releases' \in Seq([Files -> Nat]) /\ Len(releases') = Len(releases) + 1
        /\ Len(releases) \in Nat
        /\ releases'[Len(releases) + 1] = new /\ \A k \in 1..Len(releases) : releases'[k] = releases[k]
    BY <1>3, <2>1
  <2> QED
    BY <2>2 DEF Latest
<1>5. \A f \in Files : Archive'[f] = new[f] /\ Archive[f] <= new[f] /\ new[f] <= Latest + 1
  <2>1. \A f \in Files : Archive[f] \in Nat /\ Archive[f] <= Latest /\ Latest \in Nat
    BY <1>0, NumberFacts DEF ReleasesInv
  <2> QED
    BY <1>4, <2>1 DEF Archive
<1>6. Latest \in Nat \ {0}
  BY <1>0, NumberFacts
<1>7. TypeOK'
  BY <1>0, <1>2, <1>4, <1>6 DEF TypeOK, memory, tables, runs, counts, history
<1>8. Grown
  <2>1. \A f \in Files, i \in 1..2 : rows[f][i] \in Nat
    BY <1>0, NumberFacts
  <2>2. raced' = raced /\ rows' = rows
    BY <1>2 DEF tables, history
  <2>3. \A f \in Files \ raced' : \A i \in 1..2 : rows[f][i] <= rows'[f][i]
    BY <2>1, <2>2
  <2>4. \A f \in Files : Archive[f] <= Archive'[f]
    BY <1>5
  <2>5. Latest =< Latest' /\ \A k \in 1..Latest : releases'[k] = releases[k]
    BY <1>4, <1>6
  <2> QED
    BY <2>2, <2>3, <2>4, <2>5 DEF Grown
<1>9. ReleasesInv'
  <2>1. ASSUME NEW f \in Files, NEW k \in 1..(Latest + 1) PROVE releases'[k][f] <= Archive'[f]
    <3>1. CASE k = Latest + 1
      <4>1. new[f] \in Nat
        BY <1>3
      <4> QED
        BY <1>4, <1>5, <3>1, <4>1
    <3>2. CASE k # Latest + 1
      <4>1. k \in 1..Latest
        BY <1>6, <3>2
      <4>2. releases[k][f] \in Nat /\ Archive[f] \in Nat /\ releases[k][f] <= Archive[f] /\ new[f] \in Nat
        BY <1>0, <1>3, <4>1, NumberFacts DEF ReleasesInv
      <4>3. releases'[k] = releases[k]
        BY <1>4, <4>1
      <4> QED
        BY <1>5, <4>2, <4>3
    <3> QED
      BY <3>1, <3>2
  <2> QED
    BY <1>4, <1>5, <2>1 DEF ReleasesInv
<1>10. \A q \in Pipelines : Same(q)
  BY <1>2 DEF Same, runs
<1>11. \A q \in Pipelines : RunInv(q)'
  BY <1>0, <1>7, <1>8, <1>10, OtherRun
<1>12. MarksAreNotAhead'
  BY <1>0, <1>2, <1>7, <1>8, MarksStay DEF memory
<1>13. LayoutInv'
  BY <1>0, <1>2, <1>10, SameDraws, LayoutsStay DEF tables, history
<1>14. OptionalInv'
  <2>1. UNCHANGED etag /\ left \subseteq left'
    BY <1>2 DEF memory, history
  <2>2. \A f \in Range(Optional) \ (left' \cup raced'), q \in Pipelines :
              WillBring(q, f) /\ etag # 0 =>
                WillBring(q, f)' \/ \A i \in 1..2 : rows'[f][i] >= releases[etag][f]
    BY <1>0, <1>8, <1>10, <2>1, SameBrings, MapFacts
  <2> QED
    BY <1>0, <1>7, <1>8, <2>1, <2>2, OptionalStay
<1> QED
  BY <1>7, <1>9, <1>11, <1>12, <1>13, <1>14 DEF IInv

LEMMA CrashKeeps == ASSUME IInv, Crash PROVE IInv'
<1>0. /\ TypeOK /\ ReleasesInv /\ (\A q \in Pipelines : RunInv(q)) /\ MarksAreNotAhead /\ LayoutInv
      /\ OptionalInv
  BY Parts
<1>1. /\ UNCHANGED <<releases, memory, tables, admin, raced>> /\ sharp' = {} /\ faults' \in Nat
      /\ left' = left \cup UNION {Undone(p) : p \in Pipelines}
  BY <1>0, FaultCounts DEF Crash
<1>2. RunTypes' /\ \A p \in Pipelines : /\ kind'[p] = "none" /\ pc'[p] = "idle" /\ queue'[p] = << >>
                                        /\ tag'[p] = 0 /\ got'[p] = Never /\ wrote'[p] = FALSE
  <2>1. Never \in [Files -> Nat] /\ << >> \in Seq(Items) /\ Latest' = Latest /\ Latest \in Nat
    BY <1>0, <1>1, NumberFacts DEF Never, Latest
  <2> QED
    BY <2>1 DEF Crash, RunTypes, Places
<1>3. TypeOK'
  <2>1. \A p \in Pipelines : Undone(p) \subseteq Files \cup Layouts
    BY MapFacts DEF Undone
  <2>2. left' \subseteq Files \cup Layouts
    BY <1>0, <1>1, <2>1 DEF TypeOK
  <2>3. fresh' \subseteq Layouts /\ admin' \in Nat
    BY <1>0, <1>1 DEF TypeOK, tables
  <2> QED
    BY <1>0, <1>1, <1>2, <2>2, <2>3, RunTypesDo DEF memory, tables
<1>4. ReleasesInv' /\ Grown
  BY <1>0, <1>1, NothingChanged DEF ReleasesInv, Archive, Latest, tables
<1>5. \A p \in Pipelines : RunInv(p)'
  BY <1>2, <1>3, <1>4, IdleRun
<1>6. MarksAreNotAhead'
  BY <1>0, <1>1, <1>3, <1>4, MarksStay DEF memory
<1>7. LayoutInv'
  <2>1. \A l \in Layouts, q \in Pipelines : WillDraw(q, l) => l \in left'
    BY <1>1 DEF WillDraw, Undone, Updates
  <2> QED
    BY <1>0, <1>1, <2>1, LayoutsStay DEF tables
<1>8. OptionalInv'
  <2>1. \A f \in Range(Optional), q \in Pipelines : WillBring(q, f) => f \in left'
    BY <1>1 DEF WillBring, Undone, Updates
  <2> QED
    BY <1>0, <1>1, <1>3, <1>4, <2>1, OptionalStay DEF memory
<1> QED
  BY <1>3, <1>4, <1>5, <1>6, <1>7, <1>8 DEF IInv

-----------------------------------------------------------------------------
(* Rows and marks are written. *)

LEMMA WriteFacts ==
    ASSUME TypeOK, NEW p \in Pipelines, NEW i \in 1..2, Item(p) \in Files, WriteRow(p, i),
           UNCHANGED releases
    PROVE  /\ Grown
           /\ rows' \in [Files -> [1..2 -> Nat]] /\ raced' \subseteq Files
           /\ rows'[Item(p)][i] = got[p][Item(p)]
           /\ \A f \in Files, j \in 1..2 : f # Item(p) \/ j # i => rows'[f][j] = rows[f][j]
           /\ \A f \in Files \ {Item(p)} : rows'[f] = rows[f]
<1> DEFINE f == Item(p)
<1>1. /\ rows' = [rows EXCEPT ![f][i] = got[p][f]]
      /\ raced' = IF Races(p, f) THEN raced \cup {f} ELSE raced
  BY DEF WriteRow
<1>2. got[p][f] \in Nat /\ \A g \in Files, j \in 1..2 : rows[g][j] \in Nat
  BY NumberFacts
<1>3. /\ rows' \in [Files -> [1..2 -> Nat]]
      /\ rows'[f][i] = got[p][f]
      /\ \A g \in Files, j \in 1..2 : g # f \/ j # i => rows'[g][j] = rows[g][j]
      /\ \A g \in Files \ {f} : rows'[g] = rows[g]
  BY <1>1, <1>2 DEF TypeOK
<1>4. f \notin raced' => rows[f][i] <= got[p][f]
  BY <1>1, <1>2 DEF Races
<1>5. Grown
  <2>1. \A g \in Files \ raced' : \A j \in 1..2 : rows[g][j] <= rows'[g][j]
    BY <1>2, <1>3, <1>4
  <2>2. Archive' = Archive /\ Latest' = Latest /\ Latest \in Nat /\ \A g \in Files : Archive[g] \in Nat
    BY NumberFacts DEF Archive, Latest
  <2>3. raced \subseteq raced'
    BY <1>1
  <2> QED
    BY <2>1, <2>2, <2>3 DEF Grown
<1>6. raced' \subseteq Files
  BY <1>1 DEF TypeOK
<1> QED
  BY <1>3, <1>5, <1>6

\* Who writes systems will draw the layouts, or is an administrator's import.
LEMMA WritesSystems ==
    ASSUME TypeOK, NEW p \in Pipelines, RunInv(p), pc[p] # "idle", Item(p) = Systems
    PROVE  /\ kind[p] = "import" \/ (kind[p] \in Updates /\ Layouts \subseteq Range(queue[p]))
           /\ "meta" \in Range(queue[p])
<1>1. queue[p] # << >> /\ queue[p] \in Seq(Items) /\ Work(kind[p], queue[p]) /\ kind[p] # "none"
  BY DEF RunInv, PlaceInv, TypeOK, Items
<1>2. Systems \in Range(queue[p]) /\ Systems \in Range(Topology)
  BY <1>1, TailFacts, MapFacts DEF Item
<1>3. "meta" \in Range(queue[p])
  BY <1>1, <1>2 DEF Work
<1> QED
  BY <1>1, <1>3 DEF Work, TypeOK

LEMMA WriteFirstKeeps == ASSUME IInv, NEW p \in Pipelines, WriteFirst(p) PROVE IInv'
<1>0. /\ TypeOK /\ ReleasesInv /\ (\A q \in Pipelines : RunInv(q)) /\ MarksAreNotAhead /\ LayoutInv
      /\ OptionalInv
  BY Parts
<1>1. /\ UNCHANGED <<releases, hash, etag, updated, kind, queue, tag, got, wrote, admin, faults>>
      /\ WriteRow(p, 1) /\ pc' = [pc EXCEPT ![p] = "write"]
      /\ (pc[p] = "next" /\ Item(p) \in Range(Topology)) \/ (pc[p] = "fetched" /\ Item(p) \in Range(Optional))
  BY <1>0 DEF WriteFirst, Goto, At, memory, counts, RunInv, PlaceInv
<1>2. Item(p) \in Files /\ Item(p) \notin Layouts /\ pc[p] \notin Before \cup {"idle", "write"}
  BY <1>1, MapFacts DEF Before
<1>3. /\ Grown
      /\ rows' \in [Files -> [1..2 -> Nat]] /\ raced' \subseteq Files
      /\ rows'[Item(p)][1] = got[p][Item(p)]
      /\ \A f \in Files \ {Item(p)} : rows'[f] = rows[f]
  BY <1>0, <1>1, <1>2, WriteFacts
<1>4. pc'[p] = "write" /\ pc' \in [Pipelines -> Places] /\ \A q \in Pipelines \ {p} : Same(q)
  BY <1>0, <1>1 DEF TypeOK, Places, Same
<1>5. /\ fresh' \subseteq Layouts /\ sharp' \subseteq Pipelines /\ left' \subseteq Files \cup Layouts
      /\ left \subseteq left'
      /\ Item(p) # Systems => UNCHANGED <<fresh, sharp, left>>
      /\ Item(p) = Systems /\ kind[p] = "import" => Layouts \subseteq left'
  BY <1>0, <1>1 DEF WriteRow, TypeOK
<1>6. TypeOK'
  BY <1>0, <1>1, <1>3, <1>4, <1>5 DEF TypeOK, Latest
<1>7. ReleasesInv'
  BY <1>0, <1>1 DEF ReleasesInv, Archive, Latest
<1>8. RunInv(p)'
  <2>0. Item(p)' = Item(p) /\ RunInv(p)
    BY <1>0, <1>1 DEF Item
  <2>1. PlaceInv(p)'
    BY <1>1, <1>2, <1>4, <2>0 DEF PlaceInv, RunInv, Before
  <2>2. GotInv(p)'
    <3>1. got[p][Item(p)] \in Nat
      BY <1>0, <1>2, NumberFacts
    <3> QED
      BY <1>1, <1>3, <2>0, <3>1 DEF GotInv, RunInv, Archive, Latest
  <2>3. TagInv(p)'
    <3>1. ASSUME tag[p] # 0, NEW f \in Range(Topology) \ raced'
          PROVE  \/ (f \in Range(queue[p]) /\ got[p][f] >= releases[tag[p]][f])
                 \/ \A i \in 1..2 : rows'[f][i] >= releases[tag[p]][f]
      <4>1. f \in Files \ raced' /\ f \notin raced /\ tag[p] \in 1..Latest
        BY <1>0, <1>3, <3>1, MapFacts, NumberFacts DEF Grown
      <4>2. \/ (f \in Range(queue[p]) /\ got[p][f] >= releases[tag[p]][f])
            \/ \A i \in 1..2 : rows[f][i] >= releases[tag[p]][f]
        BY <1>2, <2>0, <3>1, <4>1 DEF RunInv, TagInv
      <4>3. releases[tag[p]][f] \in Nat /\ \A i \in 1..2 : rows[f][i] \in Nat /\ rows'[f][i] \in Nat
        BY <1>0, <1>6, <4>1, NumberFacts, NumberFactsLater
      <4> QED
        BY <1>3, <4>1, <4>2, <4>3 DEF Grown
    <3>2. tag[p] # 0 => "meta" \in Range(queue[p])
      BY <2>0 DEF RunInv, TagInv
    <3> QED
      BY <1>1, <1>4, <3>1, <3>2 DEF TagInv, Before
  <2> QED
    BY <2>1, <2>2, <2>3 DEF RunInv
<1>9. \A q \in Pipelines : RunInv(q)'
  <2>1. ASSUME NEW q \in Pipelines \ {p} PROVE RunInv(q)'
    BY <1>0, <1>3, <1>4, <1>6, OtherRun
  <2> QED
    BY <1>8, <2>1
<1>10. MarksAreNotAhead'
  BY <1>0, <1>1, <1>3, <1>6, MarksStay
<1>11. LayoutInv'
  <2>1. CASE Item(p) # Systems
    <3>1. rows'[Systems] = rows[Systems]
      BY <1>3, <2>1, MapFacts
    <3>2. \A l \in Layouts : WillDraw(p, l) => WillDraw(p, l)'
      BY <1>1, <1>2, <1>4 DEF WillDraw
    <3>3. \A l \in Layouts, q \in Pipelines : WillDraw(q, l) => WillDraw(q, l)'
      BY <1>4, <1>5, <2>1, <3>2, SameDraws
    <3> QED
      BY <1>0, <1>5, <2>1, <3>1, <3>3, LayoutsStay
  <2>2. CASE Item(p) = Systems
    <3>1. kind[p] = "import" \/ (kind[p] \in Updates /\ Layouts \subseteq Range(queue[p]))
      BY <1>0, <1>2, <2>2, WritesSystems
    <3>2. CASE kind[p] = "import"
      BY <1>5, <2>2, <3>2 DEF LayoutInv
    <3>3. CASE kind[p] \in Updates /\ Layouts \subseteq Range(queue[p])
      <4>1. \A l \in Layouts : WillDraw(p, l)'
        <5>1. Item(p)' = Systems
          BY <1>1, <2>2 DEF Item
        <5> QED
          BY <1>1, <1>4, <3>3, <5>1 DEF WillDraw
      <4> QED
        BY <4>1 DEF LayoutInv
    <3> QED
      BY <3>1, <3>2, <3>3
  <2> QED
    BY <2>1, <2>2
<1>12. OptionalInv'
  <2>1. ASSUME NEW f \in Range(Optional), WillBring(p, f) PROVE WillBring(p, f)'
    <3>1. pc[p] = "next" => Item(p) # f
      BY <1>1, <2>1, MapFacts
    <3>2. Item(p)' = Item(p)
      BY <1>1 DEF Item
    <3> QED
      BY <1>1, <1>4, <2>1, <3>1, <3>2 DEF WillBring
  <2>2. \A f \in Range(Optional) \ (left' \cup raced'), q \in Pipelines :
              WillBring(q, f) /\ etag # 0 =>
                WillBring(q, f)' \/ \A i \in 1..2 : rows'[f][i] >= releases[etag][f]
    <3>1. SUFFICES ASSUME NEW f \in Range(Optional) \ (left' \cup raced'), NEW q \in Pipelines \ {p},
                          WillBring(q, f), etag # 0
                   PROVE  WillBring(q, f)'
      BY <2>1
    <3> QED
      BY <1>0, <1>1, <1>3, <1>4, <3>1, MapFacts, SameBrings
  <2> QED
    BY <1>0, <1>1, <1>3, <1>5, <1>6, <2>2, OptionalStay
<1> QED
  BY <1>6, <1>7, <1>9, <1>10, <1>11, <1>12 DEF IInv

LEMMA WriteLastKeeps == ASSUME IInv, NEW p \in Pipelines, WriteLast(p) PROVE IInv'
<1>0. /\ TypeOK /\ ReleasesInv /\ (\A q \in Pipelines : RunInv(q)) /\ MarksAreNotAhead /\ LayoutInv
      /\ OptionalInv
  BY Parts
<1> DEFINE f == Item(p)
<1>1. /\ UNCHANGED <<releases, etag, updated, admin>> /\ pc[p] = "write"
      /\ WriteRow(p, 2) /\ GoOn(p, TRUE)
      /\ hash' = [hash EXCEPT ![f] = got[p][f]] \/ hash' = hash
      /\ faults' \in Nat
  BY <1>0, FaultCounts DEF WriteLast, TypeOK
<1>2. f \in Files /\ f \notin Layouts /\ queue[p] # << >> /\ queue[p] \in Seq(Items)
  BY <1>0, <1>1, MapFacts DEF RunInv, PlaceInv, TypeOK, Items
<1>3. /\ Grown
      /\ rows' \in [Files -> [1..2 -> Nat]] /\ raced' \subseteq Files
      /\ rows'[f][2] = got[p][f] /\ rows'[f][1] = rows[f][1]
      /\ \A g \in Files \ {f} : rows'[g] = rows[g]
  BY <1>0, <1>1, <1>2, WriteFacts
<1>4. RunTypes' /\ \A q \in Pipelines \ {p} : Same(q)
  BY <1>0, <1>1, <1>2, GoOnOwn
<1>5. /\ fresh' \subseteq Layouts /\ sharp' \subseteq Pipelines /\ left' \subseteq Files \cup Layouts
      /\ left \subseteq left'
      /\ f # Systems => UNCHANGED <<fresh, sharp, left>>
      /\ f = Systems /\ kind[p] = "import" => Layouts \subseteq left'
  BY <1>0, <1>1 DEF WriteRow, TypeOK
<1>6. TypeOK'
  <2>1. hash' \in [Files -> Nat]
    BY <1>0, <1>1, <1>2, NumberFacts DEF TypeOK
  <2> QED
    BY <1>0, <1>1, <1>3, <1>4, <1>5, <2>1 DEF TypeOK, RunTypes, Items, Latest
<1>7. ReleasesInv'
  BY <1>0, <1>1 DEF ReleasesInv, Archive, Latest
\* Both rows are of the run's version, unless another run interfered.
<1>8. f \notin raced' => \A i \in 1..2 : rows'[f][i] >= got[p][f]
  <2>1. ASSUME f \notin raced' PROVE rows[f][1] >= got[p][f]
    BY <1>0, <1>1, <1>3, <2>1 DEF RunInv, GotInv, Grown
  <2>2. got[p][f] \in Nat
    BY <1>0, <1>2, NumberFacts
  <2>3. \A i \in 1..2 : i = 1 \/ i = 2
    OBVIOUS
  <2> QED
    BY <1>3, <2>1, <2>2, <2>3
<1>9. RunInv(p)'
  <2>1. ASSUME f \in Range(Topology) \ raced', tag[p] # 0, NEW i \in 1..2
        PROVE  rows'[f][i] >= releases[tag[p]][f]
    <3>1. \/ got[p][f] >= releases[tag[p]][f]
          \/ rows[f][i] >= releases[tag[p]][f]
      BY <1>0, <1>1, <1>3, <2>1 DEF RunInv, TagInv, Grown, Before
    <3>2. rows'[f][i] >= got[p][f] /\ rows[f][i] <= rows'[f][i]
      BY <1>2, <1>3, <1>8, <2>1 DEF Grown
    <3>3. /\ rows'[f][i] \in Nat /\ rows[f][i] \in Nat /\ got[p][f] \in Nat
          /\ releases[tag[p]][f] \in Nat
      BY <1>0, <1>2, <1>6, <2>1, NumberFacts, NumberFactsLater
    <3> QED
      BY <3>1, <3>2, <3>3
  <2>2. pc[p] \notin Before \cup {"idle"} /\ RunInv(p)
    BY <1>0, <1>1 DEF Before
  <2> QED
    BY <1>0, <1>1, <1>3, <1>6, <1>7, <2>1, <2>2, DoneRun
<1>10. \A q \in Pipelines : RunInv(q)'
  <2>1. ASSUME NEW q \in Pipelines \ {p} PROVE RunInv(q)'
    BY <1>0, <1>3, <1>4, <1>6, OtherRun
  <2> QED
    BY <1>9, <2>1
<1>11. MarksAreNotAhead'
  <2>1. ASSUME NEW g \in Files \ raced', NEW i \in 1..2
        PROVE  /\ rows'[g][i] >= hash'[g]
               /\ etag # 0 /\ g \in Range(Topology) => rows'[g][i] >= releases[etag][g]
    <3>1. g \notin raced /\ rows[g][i] <= rows'[g][i]
      BY <1>3 DEF Grown
    <3>2. /\ rows[g][i] \in Nat /\ rows'[g][i] \in Nat /\ hash[g] \in Nat /\ hash'[g] \in Nat
          /\ got[p][f] \in Nat
          /\ etag # 0 => releases[etag][g] \in Nat
      BY <1>0, <1>2, <1>6, NumberFacts, NumberFactsLater
    <3>3. /\ rows[g][i] >= hash[g]
          /\ etag # 0 /\ g \in Range(Topology) => rows[g][i] >= releases[etag][g]
      BY <1>0, <3>1 DEF MarksAreNotAhead
    <3>4. hash'[g] = hash[g] \/ (g = f /\ hash'[g] = got[p][f])
      BY <1>0, <1>1, <1>2 DEF TypeOK
    <3>5. g = f => rows'[g][i] >= got[p][f]
      BY <1>8, <2>1
    <3> QED
      BY <3>1, <3>2, <3>3, <3>4, <3>5
  <2> QED
    BY <1>1, <2>1 DEF MarksAreNotAhead
<1>12. LayoutInv'
  <2>1. CASE f # Systems
    <3>1. rows'[Systems] = rows[Systems]
      BY <1>3, <2>1, MapFacts
    <3>2. \A l \in Layouts : WillDraw(p, l) => WillDraw(p, l)'
      BY <1>0, <1>1, <1>2, DoneDraws
    <3>3. \A l \in Layouts, q \in Pipelines : WillDraw(q, l) => WillDraw(q, l)'
      BY <1>4, <1>5, <2>1, <3>2, SameDraws
    <3> QED
      BY <1>0, <1>5, <2>1, <3>1, <3>3, LayoutsStay
  <2>2. CASE f = Systems
    <3>1. kind[p] = "import" \/ (kind[p] \in Updates /\ Layouts \subseteq Range(queue[p]))
      BY <1>0, <1>1, <2>2, WritesSystems
    <3>2. CASE kind[p] = "import"
      BY <1>5, <2>2, <3>2 DEF LayoutInv
    <3>3. CASE kind[p] \in Updates /\ Layouts \subseteq Range(queue[p])
      <4>1. ASSUME NEW l \in Layouts PROVE WillDraw(p, l)
        BY <1>1, <2>2, <3>3 DEF WillDraw
      <4>2. \A l \in Layouts : WillDraw(p, l)'
        BY <1>0, <1>1, <1>2, <4>1, DoneDraws
      <4> QED
        BY <4>2 DEF LayoutInv
    <3> QED
      BY <3>1, <3>2, <3>3
  <2> QED
    BY <2>1, <2>2
<1>13. OptionalInv'
  <2>1. ASSUME NEW g \in Range(Optional) \ (left' \cup raced'), NEW q \in Pipelines,
               WillBring(q, g), etag # 0
        PROVE  WillBring(q, g)' \/ \A i \in 1..2 : rows'[g][i] >= releases[etag][g]
    <3>1. CASE q # p
      <4>1. g \in Files /\ Same(q)
        BY <1>4, <3>1, MapFacts
      <4> QED
        BY <1>0, <1>1, <1>3, <2>1, <4>1, SameBrings
    <3>2. CASE q = p /\ g # f
      BY <1>0, <1>1, <1>2, <2>1, <3>2, DoneBrings
    <3>3. CASE q = p /\ g = f
      <4>1. got[p][f] >= releases[etag][f]
        BY <1>1, <2>1, <3>3 DEF WillBring
      <4>2. /\ got[p][f] \in Nat /\ releases[etag][f] \in Nat
            /\ \A i \in 1..2 : rows'[f][i] \in Nat /\ rows'[f][i] >= got[p][f]
        BY <1>0, <1>2, <1>6, <1>8, <2>1, <3>3, NumberFacts, NumberFactsLater
      <4> QED
        BY <3>3, <4>1, <4>2
    <3> QED
      BY <3>1, <3>2, <3>3
  <2> QED
    BY <1>0, <1>1, <1>3, <1>5, <1>6, <2>1, OptionalStay
<1> QED
  BY <1>6, <1>7, <1>10, <1>11, <1>12, <1>13 DEF IInv

LEMMA SaveMetaKeeps == ASSUME IInv, NEW p \in Pipelines, SaveMeta(p) PROVE IInv'
<1>0. /\ TypeOK /\ ReleasesInv /\ (\A q \in Pipelines : RunInv(q)) /\ MarksAreNotAhead /\ LayoutInv
      /\ OptionalInv
  BY Parts
<1>1. /\ UNCHANGED <<releases, hash, rows, fresh, sharp, admin, raced>> /\ pc[p] = "next"
      /\ Item(p) = "meta" /\ queue[p] # << >> /\ GoOn(p, wrote[p])
      /\ left' = IF kind[p] = "import" THEN left \cup Range(Optional) ELSE left
      /\ etag' \in {etag, tag[p]} /\ (etag' # etag => tag[p] # 0)
      /\ updated' \in BOOLEAN /\ faults' \in Nat
  BY <1>0, FaultCounts DEF SaveMeta, At, tables, TypeOK
<1>2. queue[p] \in Seq(Items) /\ Work(kind[p], queue[p]) /\ kind[p] # "none" /\ wrote[p] \in BOOLEAN
  BY <1>0, <1>1 DEF RunInv, PlaceInv, TypeOK, Items
<1>3. /\ "meta" \in Range(queue[p]) /\ "meta" \notin Range(Tail(queue[p]))
      /\ Range(queue[p]) = {"meta"} \cup Range(Tail(queue[p]))
      /\ Range(Tail(queue[p])) \cap Range(Topology) = {}
  BY <1>1, <1>2, WorkTail, TailFacts DEF Item
<1>4. RunTypes' /\ \A q \in Pipelines \ {p} : Same(q)
  BY <1>0, <1>1, <1>2, GoOnOwn
<1>5. left \subseteq left' /\ left' \subseteq Files \cup Layouts
  BY <1>0, <1>1, MapFacts DEF TypeOK
<1>6. TypeOK'
  <2>1. etag' \in 0..Latest
    BY <1>0, <1>1, NumberFacts
  <2> QED
    BY <1>0, <1>1, <1>4, <1>5, <2>1 DEF TypeOK, RunTypes, Items, Latest
<1>7. ReleasesInv' /\ Grown
  BY <1>0, <1>1, NothingChanged DEF ReleasesInv, Archive, Latest
<1>8. RunInv(p)'
  <2>1. pc[p] \notin Before \cup {"idle"} /\ Item(p) \notin Range(Topology)
    BY <1>1, MapFacts DEF Before
  <2> QED
    BY <1>0, <1>1, <1>2, <1>6, <1>7, <2>1, DoneRun
<1>9. \A q \in Pipelines : RunInv(q)'
  <2>1. ASSUME NEW q \in Pipelines \ {p} PROVE RunInv(q)'
    BY <1>0, <1>4, <1>6, <1>7, OtherRun
  <2> QED
    BY <1>8, <2>1
<1>10. MarksAreNotAhead'
  <2>1. CASE etag' = etag
    BY <1>0, <1>1, <1>6, <1>7, <2>1, MarksStay
  <2>2. CASE etag' # etag
    <3>1. etag' = tag[p] /\ tag[p] # 0
      BY <1>1, <2>2
    <3>2. ASSUME NEW f \in Files \ raced, NEW i \in 1..2
          PROVE  /\ rows[f][i] >= hash[f]
                 /\ f \in Range(Topology) => rows[f][i] >= releases[tag[p]][f]
      <4>1. rows[f][i] >= hash[f]
        BY <1>0 DEF MarksAreNotAhead
      <4>2. ASSUME f \in Range(Topology) PROVE rows[f][i] >= releases[tag[p]][f]
        <5>1. f \notin Range(queue[p])
          BY <1>3, <4>2, MapFacts
        <5> QED
          BY <1>0, <1>1, <3>1, <4>2, <5>1 DEF RunInv, TagInv, Before
      <4> QED
        BY <4>1, <4>2
    <3> QED
      BY <1>1, <3>1, <3>2 DEF MarksAreNotAhead
  <2> QED
    BY <2>1, <2>2
<1>11. LayoutInv'
  <2>1. \A l \in Layouts : WillDraw(p, l) => WillDraw(p, l)'
    <3>1. \A l \in Layouts : l # Item(p)
      BY <1>1, MapFacts
    <3> QED
      BY <1>0, <1>1, <1>2, <3>1, DoneDraws
  <2>2. \A l \in Layouts, q \in Pipelines : WillDraw(q, l) => WillDraw(q, l)'
    BY <1>1, <1>4, <2>1, SameDraws
  <2> QED
    BY <1>0, <1>1, <1>5, <2>2, LayoutsStay
<1>12. OptionalInv'
  <2>1. CASE etag' = etag
    <3>1. ASSUME NEW f \in Range(Optional) \ (left' \cup raced'), NEW q \in Pipelines,
                 WillBring(q, f), etag # 0
          PROVE  WillBring(q, f)'
      <4>1. CASE q = p
        BY <1>3, <3>1, <4>1 DEF WillBring
      <4>2. CASE q # p
        <5>1. f \in Files /\ Same(q)
          BY <1>4, <4>2, MapFacts
        <5> QED
          BY <1>0, <1>7, <2>1, <3>1, <5>1, SameBrings
      <4> QED
        BY <4>1, <4>2
    <3> QED
      BY <1>0, <1>5, <1>6, <1>7, <2>1, <3>1, OptionalStay
  <2>2. CASE etag' # etag
    <3>1. kind[p] = "import" \/ (kind[p] \in Updates /\ Range(Optional) \subseteq Range(queue[p]))
      BY <1>0, <1>2, <1>3 DEF Work, TypeOK
    <3>2. CASE kind[p] = "import"
      BY <1>1, <3>2 DEF OptionalInv
    <3>3. CASE kind[p] \in Updates /\ Range(Optional) \subseteq Range(queue[p])
      <4>1. ASSUME NEW f \in Range(Optional) PROVE WillBring(p, f)'
        <5>1. f \in Range(Tail(queue[p])) /\ Tail(queue[p]) # << >>
          <6>1. f \in Range(Tail(queue[p]))
            BY <1>3, <3>3, MapFacts
          <6>2. Range(<< >>) = {}
            BY DEF Range
          <6> QED
            BY <6>1, <6>2
        <5>2. queue'[p] = Tail(queue[p]) /\ kind'[p] = kind[p] /\ pc'[p] = "next"
          BY <1>0, <1>1, <1>2, <5>1, GoOnOwn
        <5> QED
          BY <1>3, <3>3, <5>1, <5>2 DEF WillBring
      <4> QED
        BY <4>1 DEF OptionalInv
    <3> QED
      BY <3>1, <3>2, <3>3
  <2> QED
    BY <2>1, <2>2
<1> QED
  BY <1>6, <1>7, <1>9, <1>10, <1>11, <1>12 DEF IInv

-----------------------------------------------------------------------------
(* The invariant. *)

LEMMA InitialImport == Init => IInv
<1> SUFFICES ASSUME Init PROVE IInv
  OBVIOUS
<1> USE DEF Init
<1>1. /\ Never \in [Files -> Nat] /\ << >> \in Seq(Items) /\ \A f \in Files : Never[f] = 0
      /\ [f \in Files |-> 1] \in [Files -> Nat]
  BY DEF Never
<1>2. /\ releases \in Seq([Files -> Nat]) /\ releases # << >> /\ Latest = 1
      /\ \A f \in Files : releases[1][f] = 1
  BY <1>1 DEF Latest
<1>3. TypeOK
  <2>1. <<0, 0>> \in [1..2 -> Nat]
    OBVIOUS
  <2>2. rows \in [Files -> [1..2 -> Nat]]
    BY <2>1
  <2>3. /\ kind \in [Pipelines -> {"none", "import", "one"} \cup Updates]
        /\ pc \in [Pipelines -> Places] /\ queue \in [Pipelines -> Seq(Items)]
        /\ tag \in [Pipelines -> 0..Latest] /\ got \in [Pipelines -> [Files -> Nat]]
        /\ wrote \in [Pipelines -> BOOLEAN]
    BY <1>1, <1>2 DEF Places
  <2>4. etag \in 0..Latest /\ admin \in Nat /\ faults \in Nat
    BY <1>2
  <2>5. hash \in [Files -> Nat] /\ updated \in BOOLEAN
    BY <1>1
  <2>6. /\ fresh \subseteq Layouts /\ sharp \subseteq Pipelines
        /\ raced \subseteq Files /\ left \subseteq Files \cup Layouts
    OBVIOUS
  <2> HIDE DEF Init
  <2> QED
    BY <1>2, <2>2, <2>3, <2>4, <2>5, <2>6 DEF TypeOK, Items
<1>4. ReleasesInv
  BY <1>2 DEF ReleasesInv, Archive
<1>5. ASSUME NEW p \in Pipelines PROVE RunInv(p)
  <2>1. Range(<< >>) = {} /\ DOMAIN << >> = {}
    BY DEF Range
  <2>2. PlaceInv(p)
    BY <2>1 DEF PlaceInv, Work, Before, Updates
  <2>3. GotInv(p)
    BY <1>1, <1>2 DEF GotInv, Archive
  <2>4. TagInv(p)
    BY DEF TagInv
  <2> QED
    BY <2>2, <2>3, <2>4 DEF RunInv
<1>6. MarksAreNotAhead
  <2>1. \A f \in Files, i \in 1..2 : rows[f][i] = 0 /\ hash[f] = 0
    BY <1>1
  <2> QED
    BY <2>1 DEF MarksAreNotAhead
<1>7. LayoutInv
  BY MapFacts DEF LayoutInv
<1>8. OptionalInv
  BY DEF OptionalInv
<1> QED
  BY <1>3, <1>4, <1>5, <1>6, <1>7, <1>8 DEF IInv

LEMMA SameStep == ASSUME IInv, UNCHANGED vars PROVE IInv'
<1>1. UNCHANGED <<releases, rows, hash, etag, updated, fresh, kind, pc, queue, tag, got, wrote, sharp,
                  admin, faults, raced, left>>
  BY DEF vars, memory, tables, runs, counts, history
<1> QED
  BY <1>1 DEF IInv, TypeOK, ReleasesInv, RunInv, PlaceInv, GotInv, TagInv, MarksAreNotAhead, LayoutInv,
     OptionalInv, WillDraw, WillBring, Archive, Latest, Item

LEMMA StepKeeps == IInv /\ [Next]_vars => IInv'
<1> SUFFICES ASSUME IInv, [Next]_vars PROVE IInv'
  OBVIOUS
<1>1. CASE Publish \/ Crash
  BY <1>1, PublishKeeps, CrashKeeps
<1>2. ASSUME NEW p \in Pipelines, StartUpdate(p) \/ StartByAdmin(p) \/ CheckFails(p) \/ Step(p) \/ Fails(p)
      PROVE  IInv'
  <2>1. CASE StartUpdate(p) \/ StartByAdmin(p)
    BY <2>1, StartsKeep
  <2>2. CASE CheckFails(p) \/ Check(p)
    BY <2>2, CheckKeeps
  <2>3. CASE Fails(p)
    BY <2>3, FailsKeeps
  <2>4. CASE FetchTag(p) \/ Download(p)
    BY <2>4, FetchKeeps
  <2>5. CASE SkipFile(p) \/ SkipLayout(p) \/ CompareOptional(p) \/ FetchOptional(p)
    <3>1. CASE GoOn(p, wrote[p])
      BY <2>5, <3>1, SkipKeeps
    <3>2. CASE ~GoOn(p, wrote[p])
      <4>1. CompareOptional(p) \/ FetchOptional(p)
        BY <2>5, <3>2 DEF SkipFile, SkipLayout
      <4> QED
        BY <3>2, <4>1, RefetchKeeps
    <3> QED
      BY <3>1, <3>2
  <2>6. CASE LoadLayout(p) \/ SaveLayout(p)
    BY <2>6, DrawKeeps
  <2>7. CASE WriteFirst(p)
    BY <2>7, WriteFirstKeeps
  <2>8. CASE WriteLast(p)
    BY <2>8, WriteLastKeeps
  <2>9. CASE SaveMeta(p)
    BY <2>9, SaveMetaKeeps
  <2> QED
    BY <1>2, <2>1, <2>2, <2>3, <2>4, <2>5, <2>6, <2>7, <2>8, <2>9 DEF Step
<1>3. CASE UNCHANGED vars
  BY <1>3, SameStep
<1> QED
  BY <1>1, <1>2, <1>3 DEF Next

\* What TLC finds in the run's instance holds for any files, layouts, releases and
\* runs of the import (runMapDataPipeline, importJSONLIfChanged).
THEOREM Invariant == Spec => []IInv
BY InitialImport, StepKeeps, PTL DEF Spec

\* Every behaviour of the import keeps the types.
THEOREM TypeCorrect == Spec => []TypeOK
<1>1. IInv => TypeOK
  BY DEF IInv
<1> QED
  BY <1>1, Invariant, PTL

\* However many runs overlap, fail or stop, a stored hash or ETag stands for rows that
\* are in, except of files that two runs wrote against each other
\* (importJSONLIfChanged, DownloadAndImportWithReport).
THEOREM MarksStandForRows == Spec => []MarksAreNotAhead
<1>1. IInv => MarksAreNotAhead
  BY DEF IInv
<1> QED
  BY <1>1, Invariant, PTL

LEMMA LeftBehind == IInv => LeftBehindHasACause
<1> SUFFICES ASSUME IInv PROVE LeftBehindHasACause
  OBVIOUS
<1>0. TypeOK /\ (\A p \in Pipelines : RunInv(p)) /\ LayoutInv /\ OptionalInv
  BY Parts
<1>1. ASSUME NEW p \in Pipelines, NEW l \in Layouts, WillDraw(p, l) PROVE InHand(l)
  <2>1. l \in ToDo(p)
    <3>1. CASE wrote[p]
      BY <3>1 DEF ToDo, Skips
    <3>2. CASE pc[p] = "write" /\ Item(p) = Systems
      <4>1. "meta" \in Range(queue[p])
        BY <1>0, <3>2, WritesSystems
      <4> QED
        BY <4>1 DEF ToDo
    <3> QED
      BY <1>1, <3>1, <3>2 DEF WillDraw
  <2> QED
    BY <1>1, <2>1 DEF WillDraw, InHand
<1>2. ASSUME NEW p \in Pipelines, NEW f \in Range(Optional), WillBring(p, f) PROVE InHand(f)
  <2>1. f \in ToDo(p)
    BY MapFacts DEF ToDo
  <2> QED
    BY <1>2, <2>1 DEF WillBring, InHand
<1> QED
  BY <1>0, <1>1, <1>2 DEF LeftBehindHasACause, LayoutInv, OptionalInv

\* A layout not drawn from the systems that are in, and an optional file behind the
\* release whose ETag is stored, are under way, were left by a run that stopped, or
\* were raced for (runMapDataPipeline, allSDEFilesSkipped, ShouldUpdateSDE).
THEOREM NothingElseIsLeft == Spec => []LeftBehindHasACause
BY Invariant, LeftBehind, PTL

-----------------------------------------------------------------------------
(* Recursive functions                                                       *)

\* Induction, with the numbers it holds for as a set.
LEMMA ByInduction ==
    ASSUME NEW T, 0 \in T, \A k \in Nat : k \in T => k + 1 \in T
    PROVE  \A k \in Nat : k \in T
<1> DEFINE R == OpToRel(<, Nat)
           others == Nat \ T
<1>1. IsWellFoundedOn(R, Nat)
  BY NatLessThanWellFounded
<1> HIDE DEF R
<1>2. ASSUME others # {} PROVE FALSE
  <2>1. others \subseteq Nat
    OBVIOUS
  <2> HIDE DEF others
  <2>2. PICK k \in others : \A j \in others : ~(<<j, k>> \in R)
    BY <1>1, <1>2, <2>1, WFMin
  <2>3. k \in Nat /\ k # 0
    BY <2>1 DEF others
  <2>4. k - 1 \in Nat /\ k - 1 < k /\ (k - 1) + 1 = k
    BY <2>3
  <2>5. <<k - 1, k>> \in R
    BY <2>3, <2>4 DEF R, OpToRel
  <2>6. k - 1 \in T
    BY <2>2, <2>4, <2>5 DEF others
  <2> QED
    BY <2>2, <2>4, <2>6 DEF others
<1> QED
  BY <1>2

\* A function on a..n that has base first and then what F makes of the value before.
StaysIn(S, F, a, n) == F \in [((a+1)..n) \X S -> S]
Unfolds(f, F, base, S, a, n) ==
    f \in [a..n -> S] /\ f[a] = base /\ \A k \in (a+1)..n : f[k] = F[<<k, f[k - 1]>>]

\* Such a function exists.
LEMMA Recursion ==
    ASSUME NEW a \in Nat, NEW n \in Nat, a =< n, NEW S, NEW base \in S,
           NEW F, StaysIn(S, F, a, n)
    PROVE  \E f : Unfolds(f, F, base, S, a, n)
<1> USE DEF StaysIn, Unfolds
<1> DEFINE Upto(m, f) == /\ f \in [a..m -> S] /\ f[a] = base
                         /\ \A k \in (a+1)..m : f[k] = F[<<k, f[k - 1]>>]
           T == {l \in Nat : a + l =< n => \E f : Upto(a + l, f)}
<1>1. 0 \in T
  <2>1. Upto(a, [k \in a..a |-> base])
    OBVIOUS
  <2>2. a + 0 = a
    OBVIOUS
  <2> HIDE DEF Upto
  <2> QED
    BY <2>1, <2>2
<1>2. ASSUME NEW l \in Nat, l \in T PROVE l + 1 \in T
  <2> SUFFICES ASSUME a + (l + 1) =< n PROVE \E f : Upto(a + (l + 1), f)
    OBVIOUS
  <2>1. PICK f : Upto(a + l, f)
    BY <1>2
  <2> DEFINE m == a + l
             g == [k \in a..(m + 1) |-> IF k = m + 1 THEN F[<<m + 1, f[m]>>] ELSE f[k]]
  <2>2. m \in Nat /\ a =< m /\ m + 1 =< n /\ m + 1 = a + (l + 1)
    OBVIOUS
  <2>3. f \in [a..m -> S] /\ f[a] = base /\ \A k \in (a+1)..m : f[k] = F[<<k, f[k - 1]>>]
    BY <2>1
  <2> HIDE DEF m
  <2>4. F[<<m + 1, f[m]>>] \in S
    <3>1. f[m] \in S /\ m + 1 \in (a+1)..n
      BY <2>2, <2>3
    <3>2. <<m + 1, f[m]>> \in ((a+1)..n) \X S
      BY <3>1
    <3> QED
      BY <3>2
  <2>5. g \in [a..(m + 1) -> S]
    <3>1. \A k \in a..(m + 1) : k # m + 1 => k \in a..m
      BY <2>2
    <3> QED
      BY <2>3, <2>4, <3>1
  <2>6. g[a] = base
    BY <2>2, <2>3
  <2>7. ASSUME NEW k \in (a+1)..(m + 1) PROVE g[k] = F[<<k, g[k - 1]>>]
    <3>1. k - 1 \in a..(m + 1) /\ k - 1 # m + 1 /\ k \in a..(m + 1)
      BY <2>2
    <3>2. g[k - 1] = f[k - 1]
      BY <3>1
    <3>3. CASE k = m + 1
      <4>1. k - 1 = m /\ g[k] = F[<<m + 1, f[m]>>]
        BY <3>3, <2>2, <3>1
      <4> QED
        BY <3>2, <3>3, <4>1
    <3>4. CASE k # m + 1
      <4>1. g[k] = f[k] /\ k \in (a+1)..m
        BY <3>1, <3>4, <2>2
      <4> QED
        BY <2>3, <3>2, <4>1
    <3> QED
      BY <3>3, <3>4
  <2>8. Upto(m + 1, g)
    BY <2>5, <2>6, <2>7
  <2> QED
    BY <2>2, <2>8
<1> HIDE DEF T
<1>3. \A l \in Nat : l \in T
  BY <1>1, <1>2, ByInduction
<1>4. n - a \in Nat /\ a + (n - a) = n
  OBVIOUS
<1>5. \E f : Upto(n, f)
  <2>1. n - a \in T
    BY <1>3, <1>4
  <2> HIDE DEF Upto
  <2> QED
    BY <1>4, <2>1 DEF T
<1> QED
  BY <1>5

\* The same induction from a to n.
LEMMA Upward ==
    ASSUME NEW a \in Nat, NEW n \in Nat, NEW T, a \in T,
           \A k \in (a+1)..n : k - 1 \in T => k \in T
    PROVE  \A k \in a..n : k \in T
<1> DEFINE Q == {l \in Nat : a + l =< n => a + l \in T}
<1>1. 0 \in Q
  <2>1. a + 0 = a
    OBVIOUS
  <2> QED
    BY <2>1
<1>2. ASSUME NEW l \in Nat, l \in Q PROVE l + 1 \in Q
  <2> SUFFICES ASSUME a + (l + 1) =< n PROVE a + (l + 1) \in T
    OBVIOUS
  <2>1. a + (l + 1) \in (a+1)..n /\ (a + (l + 1)) - 1 = a + l /\ a + l =< n
    OBVIOUS
  <2>2. a + l \in T
    BY <1>2, <2>1
  <2> QED
    BY <2>1, <2>2
<1> HIDE DEF Q
<1>3. \A l \in Nat : l \in Q
  BY <1>1, <1>2, ByInduction
<1>4. ASSUME NEW k \in a..n PROVE k \in T
  <2>1. k - a \in Nat /\ a + (k - a) = k /\ k =< n
    OBVIOUS
  <2>2. k - a \in Q
    BY <1>3, <2>1
  <2> QED
    BY <2>1, <2>2 DEF Q
<1> QED
  BY <1>4

\* Sequences of members of S, one after another.
LEMMA Flattened ==
    ASSUME NEW S, NEW ss \in Seq(Seq(S))
    PROVE  FlattenSeq(ss) \in Seq(S)
<1> DEFINE n == Len(ss)
           Eq(f) == f = [i \in 1..Len(ss) |-> IF i = 1 THEN ss[i] ELSE f[i - 1] \o ss[i]]
           flatten == CHOOSE f : Eq(f)
           one == 1
           F == [x \in ((one+1)..n) \X Seq(S) |-> x[2] \o ss[x[1]]]
<1>1. n \in Nat /\ \A i \in 1..n : ss[i] \in Seq(S)
  BY LenProperties, ElementOfSeq
<1>2. CASE n = 0
  <2>1. FlattenSeq(ss) = ss
    BY <1>2 DEF FlattenSeq
  <2>2. ss = << >>
    BY <1>2, EmptySeq
  <2> QED
    BY <2>1, <2>2
<1>3. CASE n # 0
  <2>1. ss[1] \in Seq(S) /\ 1 \in Nat /\ 1 =< n
    BY <1>1, <1>3
  <2>2. F \in [((one+1)..n) \X Seq(S) -> Seq(S)]
    <3>1. ASSUME NEW k \in (one+1)..n, NEW s \in Seq(S) PROVE s \o ss[k] \in Seq(S)
      BY <1>1, ConcatProperties
    <3> QED
      BY <3>1
  <2> HIDE DEF n
  <2>3. PICK f : f \in [one..n -> Seq(S)] /\ f[one] = ss[1]
                 /\ \A k \in (one+1)..n : f[k] = F[<<k, f[k - 1]>>]
    <3> DEFINE Q == Seq(S)
               first == ss[1]
    <3>1. one \in Nat /\ n \in Nat /\ one =< n /\ first \in Q
      BY <1>1, <2>1
    <3>2. StaysIn(Q, F, one, n)
      BY <2>2 DEF StaysIn
    <3> HIDE DEF F, one, Q, first
    <3>3. \E f : Unfolds(f, F, first, Q, one, n)
      BY <3>1, <3>2, Recursion
    <3> QED
      BY <3>3 DEF Q, first, Unfolds
  <2>4. \A k \in 1..n : k # 1 => f[k] = f[k - 1] \o ss[k]
    <3>1. ASSUME NEW k \in 1..n, k # 1 PROVE f[k] = f[k - 1] \o ss[k]
      <4>1. k \in (1+1)..n /\ k - 1 \in 1..n
        BY <1>1, <3>1
      <4>2. f[k - 1] \in Seq(S)
        BY <2>3, <4>1
      <4> QED
        BY <2>3, <4>1, <4>2
    <3> QED
      BY <3>1
  <2>5. Eq(f)
    <3>1. f = [i \in 1..n |-> IF i = 1 THEN ss[i] ELSE f[i - 1] \o ss[i]]
      BY <2>3, <2>4
    <3> QED
      BY <3>1 DEF n
  <2>6. Eq(flatten)
    <3> HIDE DEF Eq
    <3> QED
      BY <2>5
  <2>7. flatten[1] = ss[1] /\ \A k \in 1..n : k # 1 => flatten[k] = flatten[k - 1] \o ss[k]
    <3>1. flatten = [i \in 1..n |-> IF i = 1 THEN ss[i] ELSE flatten[i - 1] \o ss[i]]
      BY <2>6 DEF n
    <3>2. 1 \in 1..n
      BY <1>1, <2>1
    <3> HIDE DEF flatten
    <3>3. ASSUME NEW k \in 1..n
          PROVE  flatten[k] = IF k = 1 THEN ss[k] ELSE flatten[k - 1] \o ss[k]
      BY <3>1
    <3>4. flatten[1] = ss[1]
      BY <3>2, <3>3
    <3> QED
      BY <3>3, <3>4
  <2>8. FlattenSeq(ss) = flatten[n]
    BY <1>3 DEF FlattenSeq, n
  <2> DEFINE T == {k \in 1..n : flatten[k] \in Seq(S)}
  <2> HIDE DEF flatten
  <2>9. 1 \in T
    BY <2>1, <2>7, <1>1
  <2>10. ASSUME NEW k \in (1+1)..n, k - 1 \in T PROVE k \in T
    <3>1. k \in 1..n /\ k # 1
      BY <1>1
    <3>2. flatten[k - 1] \in Seq(S) /\ ss[k] \in Seq(S)
      BY <1>1, <2>10, <3>1
    <3>3. flatten[k] \in Seq(S)
      BY <2>7, <3>1, <3>2, ConcatProperties
    <3> QED
      BY <3>1, <3>3
  <2>11. n \in T
    <3> HIDE DEF T
    <3>1. \A k \in 1..n : k \in T
      BY <1>1, <2>9, <2>10, Upward
    <3> QED
      BY <1>1, <2>1, <3>1
  <2> QED
    BY <2>8, <2>11
<1> QED
  BY <1>2, <1>3

-----------------------------------------------------------------------------
(* The edges *)

Edge(avoid) == {e \in [from : SolarSystems, to : SolarSystems, kind : {"gate", "bridge"}] :
                   {e.from, e.to} \cap avoid = {}}

\* A function on 1..n is a sequence.
LEMMA AsSeq ==
    ASSUME NEW n \in Nat, NEW S, NEW f \in [1..n -> S]
    PROVE  f \in Seq(S) /\ Len(f) = n /\ DOMAIN f = 1..n
  OBVIOUS

\* Sequences of one member and of none.
LEMMA Singles ==
    ASSUME NEW S, NEW x \in S
    PROVE  <<x>> \in Seq(S) /\ << >> \in Seq(S)
  OBVIOUS

\* A graph's edges lead from a system to a system.
LEMMA EdgesTyped ==
    ASSUME NEW g \in Graph
    PROVE  Edges(g) \in Seq(Edge({}))
<1> DEFINE A == [i \in DOMAIN g.gates |-> Both(g.gates[i][1], g.gates[i][2], "gate")]
           B == [i \in DOMAIN g.bridges |-> Both(g.bridges[i].from, g.bridges[i].to, "bridge")]
           E == Edge({})
           Q == Seq(E)
<1>1. ASSUME NEW a \in SolarSystems, NEW b \in SolarSystems, NEW k \in {"gate", "bridge"}
      PROVE  Both(a, b, k) \in Q
  <2>1. [from |-> a, to |-> b, kind |-> k] \in E /\ [from |-> b, to |-> a, kind |-> k] \in E
    BY DEF Edge
  <2> HIDE DEF E
  <2> QED
    BY <2>1 DEF Both
<1> HIDE DEF Q
<1>2. A \in Seq(Q)
  <2>1. g.gates \in Seq(SolarSystems \X SolarSystems)
    BY DEF Graph
  <2>2. DOMAIN g.gates = 1..Len(g.gates) /\ Len(g.gates) \in Nat
    BY <2>1, LenProperties
  <2>3. \A i \in DOMAIN g.gates : Both(g.gates[i][1], g.gates[i][2], "gate") \in Q
    <3>1. ASSUME NEW i \in DOMAIN g.gates PROVE Both(g.gates[i][1], g.gates[i][2], "gate") \in Q
      <4>1. g.gates[i] \in SolarSystems \X SolarSystems
        BY <2>1, <2>2, ElementOfSeq
      <4>2. g.gates[i][1] \in SolarSystems /\ g.gates[i][2] \in SolarSystems
        BY <4>1
      <4> QED
        BY <1>1, <4>2
    <3> QED
      BY <3>1
  <2>4. A \in [1..Len(g.gates) -> Q]
    BY <2>2, <2>3
  <2> HIDE DEF A
  <2> QED
    BY <2>2, <2>4, AsSeq
<1>3. B \in Seq(Q)
  <2>1. g.bridges \in Seq(Bridge)
    BY DEF Graph
  <2>2. DOMAIN g.bridges = 1..Len(g.bridges) /\ Len(g.bridges) \in Nat
    BY <2>1, LenProperties
  <2>3. \A i \in DOMAIN g.bridges : Both(g.bridges[i].from, g.bridges[i].to, "bridge") \in Q
    <3>1. ASSUME NEW i \in DOMAIN g.bridges
          PROVE  Both(g.bridges[i].from, g.bridges[i].to, "bridge") \in Q
      <4>1. g.bridges[i] \in Bridge
        BY <2>1, <2>2, ElementOfSeq
      <4>2. g.bridges[i].from \in SolarSystems /\ g.bridges[i].to \in SolarSystems
        BY <4>1 DEF Bridge
      <4> QED
        BY <1>1, <4>2
    <3> QED
      BY <3>1
  <2>4. B \in [1..Len(g.bridges) -> Q]
    BY <2>2, <2>3
  <2> HIDE DEF B
  <2> QED
    BY <2>2, <2>4, AsSeq
<1>4. A \o B \in Seq(Q)
  <2> HIDE DEF A, B
  <2> QED
    BY <1>2, <1>3, ConcatProperties
<1>5. FlattenSeq(A \o B) \in Seq(E)
  <2> HIDE DEF A, B, E
  <2> QED
    BY <1>4, Flattened DEF Q
<1> QED
  BY <1>5 DEF Edges

\* What is usable is made of edges that touch no avoided system.
LEMMA UsableTyped ==
    ASSUME NEW g \in Graph, NEW avoid, NEW shut
    PROVE  Usable(g, avoid, shut) \in Seq(Edge(avoid))
<1> DEFINE E == Edges(g)
           Open(e) == /\ {e.from, e.to} \cap avoid = {}
                      /\ e.kind = "bridge" => {e.from, e.to} \cap shut = {}
           parts == [k \in DOMAIN E |-> IF Open(E[k]) THEN <<E[k]>> ELSE << >>]
           S == Edge(avoid)
           Q == Seq(S)
<1>1. E \in Seq(Edge({}))
  BY EdgesTyped
<1> HIDE DEF E
<1>2. DOMAIN E = 1..Len(E) /\ Len(E) \in Nat
  BY <1>1, LenProperties
<1>3. \A k \in DOMAIN E : (IF Open(E[k]) THEN <<E[k]>> ELSE << >>) \in Q
  <2>1. ASSUME NEW k \in DOMAIN E PROVE (IF Open(E[k]) THEN <<E[k]>> ELSE << >>) \in Q
    <3>1. E[k] \in Edge({})
      BY <1>1, <1>2, ElementOfSeq
    <3>2. Open(E[k]) => E[k] \in S
      BY <3>1 DEF Edge
    <3> HIDE DEF Open, S
    <3> QED
      BY <3>2, Singles, EmptySeq
  <2> QED
    BY <2>1
<1>4. parts \in [1..Len(E) -> Q]
  BY <1>2, <1>3
<1>5. parts \in Seq(Q)
  <2> HIDE DEF parts, Q
  <2> QED
    BY <1>2, <1>4, AsSeq
<1>6. FlattenSeq(parts) \in Seq(S)
  <2> HIDE DEF parts, S
  <2> QED
    BY <1>5, Flattened DEF Q
<1> QED
  BY <1>6 DEF Usable, E

-----------------------------------------------------------------------------
(* The recursive functions of Visit, Parents and PathTo, unrolled            *)

StaysWithin(S, F, n) == F \in [(1..n) \X S -> S]
Unrolls(f, F, base, S, n) ==
    f \in [0..n -> S] /\ f[0] = base /\ \A k \in 1..n : f[k] = F[<<k, f[k - 1]>>]

\* The function from 0 that has base first and then what F makes of the value before.
LEMMA RecursionFromZero ==
    ASSUME NEW n \in Nat, NEW S, NEW base \in S, NEW F, StaysWithin(S, F, n)
    PROVE  \E f : Unrolls(f, F, base, S, n)
<1> DEFINE zero == 0
<1>1. zero \in Nat /\ zero =< n /\ zero + 1 = 1
  OBVIOUS
<1>2. StaysIn(S, F, zero, n)
  BY DEF StaysIn, StaysWithin
<1> HIDE DEF zero
<1>3. \E f : Unfolds(f, F, base, S, zero, n)
  BY <1>1, <1>2, Recursion
<1> QED
  BY <1>3 DEF Unfolds, Unrolls, zero

\* Induction from 0 to n.
LEMMA UpwardFromZero ==
    ASSUME NEW n \in Nat, NEW T, 0 \in T, \A k \in 1..n : k - 1 \in T => k \in T
    PROVE  \A k \in 0..n : k \in T
<1> DEFINE zero == 0
<1>1. zero \in Nat /\ zero \in T /\ \A k \in (zero+1)..n : k - 1 \in T => k \in T
  OBVIOUS
<1> HIDE DEF zero
<1>2. \A k \in zero..n : k \in T
  BY <1>1, Upward
<1> QED
  BY <1>2 DEF zero

BfsState == [queue : Seq(SolarSystems), parent : UNION {[X -> SolarSystems] : X \in SUBSET SolarSystems}]

FoundStep(h, t, e) ==
    IF e.from # h \/ e.to \in DOMAIN t.parent THEN t
    ELSE [queue |-> Append(t.queue, e.to),
          parent |-> [m \in DOMAIN t.parent \cup {e.to} |-> IF m = e.to THEN h ELSE t.parent[m]]]

\* A system joins the queue and the parents.
LEMMA FoundStepTyped ==
    ASSUME NEW avoid, NEW h \in SolarSystems, NEW t \in BfsState, NEW e \in Edge(avoid)
    PROVE  FoundStep(h, t, e) \in BfsState
<1>1. e.to \in SolarSystems
  BY DEF Edge
<1>2. t.queue \in Seq(SolarSystems)
  BY DEF BfsState
<1>3. PICK X \in SUBSET SolarSystems : t.parent \in [X -> SolarSystems]
  BY DEF BfsState
<1> DEFINE q == Append(t.queue, e.to)
           Y == X \cup {e.to}
           p == [m \in DOMAIN t.parent \cup {e.to} |-> IF m = e.to THEN h ELSE t.parent[m]]
<1>4. q \in Seq(SolarSystems)
  BY <1>1, <1>2
<1>5. Y \in SUBSET SolarSystems /\ p \in [Y -> SolarSystems]
  BY <1>1, <1>3
<1> HIDE DEF q, p, Y
<1>6. [queue |-> q, parent |-> p] \in BfsState
  BY <1>4, <1>5 DEF BfsState
<1> QED
  BY <1>6 DEF FoundStep, q, p

\* Visit looks at the edges one after another.
LEMMA VisitUnrolls ==
    ASSUME NEW avoid, NEW E \in Seq(Edge(avoid)), NEW s \in BfsState, s.queue # << >>
    PROVE  \E found \in [0..Len(E) -> BfsState] :
              /\ found[0] = [queue |-> Tail(s.queue), parent |-> s.parent]
              /\ \A k \in 1..Len(E) : found[k] = FoundStep(Head(s.queue), found[k - 1], E[k])
              /\ Visit(E, s) = found[Len(E)]
<1> DEFINE h == Head(s.queue)
           n == Len(E)
           base == [s EXCEPT !.queue = Tail(@)]
           Eq(f) == f = [k \in 0..n |->
                           IF k = 0 THEN base
                           ELSE IF E[k].from # h \/ E[k].to \in DOMAIN f[k - 1].parent THEN f[k - 1]
                                ELSE [queue |-> Append(f[k - 1].queue, E[k].to),
                                      parent |-> [m \in DOMAIN f[k - 1].parent \cup {E[k].to} |->
                                                     IF m = E[k].to THEN h ELSE f[k - 1].parent[m]]]]
           found == CHOOSE f : Eq(f)
           F == [x \in (1..n) \X BfsState |-> FoundStep(h, x[2], E[x[1]])]
<1>1. n \in Nat /\ \A k \in 1..n : E[k] \in Edge(avoid)
  BY LenProperties, ElementOfSeq
<1>2. h \in SolarSystems /\ Tail(s.queue) \in Seq(SolarSystems)
  BY HeadTailProperties DEF BfsState
<1>3. base = [queue |-> Tail(s.queue), parent |-> s.parent] /\ base \in BfsState
  <2> DEFINE P == UNION {[X -> SolarSystems] : X \in SUBSET SolarSystems}
  <2>1. s \in [queue : Seq(SolarSystems), parent : P]
    BY DEF BfsState
  <2> HIDE DEF P
  <2>2. base = [queue |-> Tail(s.queue), parent |-> s.parent]
    <3> DEFINE q == s.queue
               p == s.parent
    <3>1. s = [queue |-> q, parent |-> p]
      BY <2>1
    <3> HIDE DEF q, p
    <3>2. [s EXCEPT !.queue = Tail(s.queue)] = [queue |-> Tail(s.queue), parent |-> p]
      BY <3>1
    <3> QED
      BY <3>2 DEF p
  <2>3. [queue |-> Tail(s.queue), parent |-> s.parent] \in [queue : Seq(SolarSystems), parent : P]
    BY <1>2, <2>1
  <2> QED
    BY <2>2, <2>3 DEF BfsState, P
<1> HIDE DEF n, h, base
<1>4. StaysWithin(BfsState, F, n)
  <2>1. ASSUME NEW k \in 1..n, NEW t \in BfsState PROVE FoundStep(h, t, E[k]) \in BfsState
    BY <1>1, <1>2, FoundStepTyped
  <2> QED
    BY <2>1 DEF StaysWithin
<1>5. PICK f : Unrolls(f, F, base, BfsState, n)
  <2> HIDE DEF F
  <2> QED
    BY <1>1, <1>3, <1>4, RecursionFromZero
<1>6. Eq(f)
  <2>1. f \in [0..n -> BfsState] /\ f[0] = base
    BY <1>5 DEF Unrolls
  <2>2. ASSUME NEW k \in 0..n, k # 0 PROVE f[k] = FoundStep(h, f[k - 1], E[k])
    <3>1. k \in 1..n /\ k - 1 \in 0..n
      BY <1>1, <2>2
    <3>2. f[k] = F[<<k, f[k - 1]>>] /\ f[k - 1] \in BfsState
      BY <1>5, <2>1, <3>1 DEF Unrolls
    <3> QED
      BY <3>1, <3>2
  <2>3. f = [k \in 0..n |-> IF k = 0 THEN base ELSE FoundStep(h, f[k - 1], E[k])]
    BY <2>1, <2>2
  <2> QED
    BY <2>3 DEF FoundStep
<1>7. Eq(found)
  <2> HIDE DEF Eq
  <2> QED
    BY <1>6
<1>8. found = [k \in 0..n |-> IF k = 0 THEN base ELSE FoundStep(h, found[k - 1], E[k])]
  BY <1>7 DEF FoundStep
<1>9. Visit(E, s) = found[n]
  BY DEF Visit, n, h, base
<1> HIDE DEF found
<1>10. found[0] = base /\ \A k \in 1..n : found[k] = FoundStep(h, found[k - 1], E[k])
  <2>1. ASSUME NEW k \in 0..n
        PROVE  found[k] = IF k = 0 THEN base ELSE FoundStep(h, found[k - 1], E[k])
    BY <1>8
  <2>2. 0 \in 0..n /\ \A k \in 1..n : k \in 0..n /\ k # 0
    BY <1>1
  <2> QED
    BY <2>1, <2>2
<1> DEFINE T == {k \in 0..n : found[k] \in BfsState}
<1>11. 0 \in T
  BY <1>1, <1>3, <1>10
<1>12. ASSUME NEW k \in 1..n, k - 1 \in T PROVE k \in T
  <2>1. k \in 0..n /\ found[k - 1] \in BfsState
    BY <1>1, <1>12
  <2>2. FoundStep(h, found[k - 1], E[k]) \in BfsState
    BY <1>1, <1>2, <2>1, FoundStepTyped
  <2> QED
    BY <1>10, <2>1, <2>2
<1>13. \A k \in 0..n : k \in T
  <2> HIDE DEF T
  <2> QED
    BY <1>1, <1>11, <1>12, UpwardFromZero
<1>14. found \in [0..n -> BfsState]
  BY <1>8, <1>13
<1> QED
  BY <1>3, <1>9, <1>10, <1>14 DEF n, h

NextRound(E, s) == IF s.queue = << >> THEN s ELSE Visit(E, s)
FirstRound(from) == [queue |-> <<from>>, parent |-> [m \in {from} |-> from]]

\* Parents goes on round after round.
LEMMA RoundsUnroll ==
    ASSUME NEW avoid, NEW E \in Seq(Edge(avoid)), NEW from \in SolarSystems
    PROVE  LET c == Cardinality(SolarSystems)
           IN  \E round \in [0..c -> BfsState] :
                  /\ round[0] = FirstRound(from)
                  /\ \A i \in 1..c : round[i] = NextRound(E, round[i - 1])
                  /\ Parents(E, from) = round[c].parent
<1> DEFINE n == Cardinality(SolarSystems)
           base == FirstRound(from)
           Eq(f) == f = [i \in 0..n |->
                           IF i = 0 THEN base
                           ELSE IF f[i - 1].queue = << >> THEN f[i - 1] ELSE Visit(E, f[i - 1])]
           round == CHOOSE f : Eq(f)
           F == [x \in (1..n) \X BfsState |-> NextRound(E, x[2])]
<1>1. n \in Nat
  BY PlannerAssumption, FS_CardinalityType
<1>2. base \in BfsState
  <2>1. <<from>> \in Seq(SolarSystems)
    BY Singles
  <2>2. {from} \in SUBSET SolarSystems /\ [m \in {from} |-> from] \in [{from} -> SolarSystems]
    OBVIOUS
  <2> QED
    BY <2>1, <2>2 DEF BfsState, FirstRound
<1>3. ASSUME NEW s \in BfsState PROVE NextRound(E, s) \in BfsState
  <2>1. CASE s.queue = << >>
    BY <2>1 DEF NextRound
  <2>2. CASE s.queue # << >>
    <3>1. PICK found \in [0..Len(E) -> BfsState] : Visit(E, s) = found[Len(E)]
      BY <2>2, VisitUnrolls
    <3>2. Len(E) \in 0..Len(E)
      BY LenProperties
    <3> QED
      BY <2>2, <3>1, <3>2 DEF NextRound
  <2> QED
    BY <2>1, <2>2
<1> HIDE DEF n, base
<1>4. StaysWithin(BfsState, F, n)
  BY <1>3 DEF StaysWithin
<1>5. PICK f : Unrolls(f, F, base, BfsState, n)
  <2> HIDE DEF F
  <2> QED
    BY <1>1, <1>2, <1>4, RecursionFromZero
<1>6. Eq(f)
  <2>1. f \in [0..n -> BfsState] /\ f[0] = base
    BY <1>5 DEF Unrolls
  <2>2. ASSUME NEW i \in 0..n, i # 0 PROVE f[i] = NextRound(E, f[i - 1])
    <3>1. i \in 1..n /\ i - 1 \in 0..n
      BY <1>1, <2>2
    <3>2. f[i] = F[<<i, f[i - 1]>>] /\ f[i - 1] \in BfsState
      BY <1>5, <2>1, <3>1 DEF Unrolls
    <3> QED
      BY <3>1, <3>2
  <2>3. f = [i \in 0..n |-> IF i = 0 THEN base ELSE NextRound(E, f[i - 1])]
    BY <2>1, <2>2
  <2> QED
    BY <2>3 DEF NextRound
<1>7. Eq(round)
  <2> HIDE DEF Eq
  <2> QED
    BY <1>6
<1>8. round = [i \in 0..n |-> IF i = 0 THEN base ELSE NextRound(E, round[i - 1])]
  BY <1>7 DEF NextRound
<1>9. Parents(E, from) = round[n].parent
  BY DEF Parents, n, base, FirstRound
<1> HIDE DEF round
<1>10. round[0] = base /\ \A i \in 1..n : round[i] = NextRound(E, round[i - 1])
  <2>1. ASSUME NEW i \in 0..n
        PROVE  round[i] = IF i = 0 THEN base ELSE NextRound(E, round[i - 1])
    BY <1>8
  <2>2. 0 \in 0..n /\ \A i \in 1..n : i \in 0..n /\ i # 0
    BY <1>1
  <2> QED
    BY <2>1, <2>2
<1> DEFINE T == {i \in 0..n : round[i] \in BfsState}
<1>11. 0 \in T
  BY <1>1, <1>2, <1>10
<1>12. ASSUME NEW i \in 1..n, i - 1 \in T PROVE i \in T
  <2>1. i \in 0..n /\ round[i - 1] \in BfsState
    BY <1>1, <1>12
  <2> QED
    BY <1>3, <1>10, <2>1
<1>13. \A i \in 0..n : i \in T
  <2> HIDE DEF T
  <2> QED
    BY <1>1, <1>11, <1>12, UpwardFromZero
<1>14. round \in [0..n -> BfsState]
  BY <1>8, <1>13
<1> QED
  BY <1>9, <1>10, <1>14 DEF n, base

\* Sequences that begin where a parent is known.
Rooted(parent) == {p \in Seq(SolarSystems) : p # << >> /\ Head(p) \in DOMAIN parent}
OneBack(parent, from, p) == IF Head(p) = from THEN p ELSE <<parent[Head(p)]>> \o p

\* A sequence with one more member in front.
LEMMA Prefixed ==
    ASSUME NEW x \in SolarSystems, NEW p \in Seq(SolarSystems)
    PROVE  /\ <<x>> \o p \in Seq(SolarSystems) /\ <<x>> \o p # << >>
           /\ Head(<<x>> \o p) = x /\ Len(<<x>> \o p) = Len(p) + 1
           /\ (<<x>> \o p)[1] = x
           /\ \A i \in 1..Len(p) : (<<x>> \o p)[i + 1] = p[i]
<1>1. <<x>> \in Seq(SolarSystems) /\ Len(<<x>>) = 1 /\ <<x>>[1] = x
  OBVIOUS
<1>2. Len(p) \in Nat
  BY LenProperties
<1> DEFINE one == <<x>>
           q == one \o p
<1> HIDE DEF one
<1>3. /\ q \in Seq(SolarSystems) /\ Len(q) = 1 + Len(p)
      /\ \A i \in 1..(1 + Len(p)) : q[i] = IF i =< 1 THEN one[i] ELSE p[i - 1]
  BY <1>1, ConcatProperties DEF one
<1> HIDE DEF q
<1>4. q[1] = x
  <2>1. 1 \in 1..(1 + Len(p)) /\ one[1] = x
    BY <1>1, <1>2 DEF one
  <2> QED
    BY <1>3, <2>1
<1>5. q # << >> /\ Head(q) = x
  BY <1>2, <1>3, <1>4
<1>6. ASSUME NEW i \in 1..Len(p) PROVE q[i + 1] = p[i]
  <2>1. i + 1 \in 1..(1 + Len(p)) /\ ~(i + 1 =< 1) /\ (i + 1) - 1 = i
    BY <1>2
  <2> QED
    BY <1>3, <2>1
<1> QED
  BY <1>2, <1>3, <1>4, <1>5, <1>6 DEF q, one

-----------------------------------------------------------------------------
(* The search, with the depth d at which a system was found and the systems  *)
(* D that are done                                                           *)

Leads(E, x, y) == \E k \in DOMAIN E : E[k].from = x /\ E[k].to = y

\* The parents are a tree of edges whose root is a.
Tree(E, a, M, parent, d) ==
    /\ M \in SUBSET SolarSystems /\ parent \in [M -> M] /\ a \in M
    /\ d \in [SolarSystems -> Nat] /\ d[a] = 0
    /\ \A m \in M : d[m] < Cardinality(M)
    /\ \A m \in M \ {a} : d[m] = d[parent[m]] + 1 /\ Leads(E, parent[m], m)

\* Who was found and is not done queues, by depth.
Line(line, M, d, D) ==
    /\ line \in Seq(M)
    /\ D \in SUBSET M
    /\ \A m \in M : m \in D \/ \E i \in 1..Len(line) : line[i] = m
    /\ \A i \in 1..Len(line) : line[i] \notin D
    /\ \A i, j \in 1..Len(line) : i < j => line[i] # line[j] /\ d[line[i]] =< d[line[j]]

\* All that is next to m was found, at most one deeper.
Covered(E, M, d, m) == \A k \in 1..Len(E) : E[k].from = m => E[k].to \in M /\ d[E[k].to] =< d[m] + 1

Between(E, a, s, d, D) ==
    LET M == DOMAIN s.parent
    IN  /\ Tree(E, a, M, s.parent, d) /\ Line(s.queue, M, d, D)
        /\ \A m \in D : Covered(E, M, d, m)
        /\ s.queue # << >> => /\ \A m \in D : d[m] =< d[s.queue[1]]
                              /\ \A m \in M : d[m] =< d[s.queue[1]] + 1

\* The first k edges were looked at for the system h.
Within(E, a, h, k, s, d, D) ==
    LET M == DOMAIN s.parent
    IN  /\ Tree(E, a, M, s.parent, d) /\ Line(s.queue, M, d, D)
        /\ h \in D
        /\ \A m \in D \ {h} : Covered(E, M, d, m) /\ d[m] =< d[h]
        /\ \A j \in 1..k : E[j].from = h => E[j].to \in M /\ d[E[j].to] =< d[h] + 1
        /\ \A m \in M : d[m] =< d[h] + 1
        /\ \A i \in 1..Len(s.queue) : d[h] =< d[s.queue[i]]

\* The parents, with h as the parent of x.
Joined(M, parent, x, h) == [m \in M \cup {x} |-> IF m = x THEN h ELSE parent[m]]

\* A system that is found joins the tree and the end of the queue.
LEMMA TreeGrows ==
    ASSUME NEW E, NEW a, NEW M, NEW parent, NEW d, Tree(E, a, M, parent, d),
           NEW h \in M, NEW x \in SolarSystems, x \notin M, Leads(E, h, x)
    PROVE  Tree(E, a, M \cup {x},
                Joined(M, parent, x, h),
                [d EXCEPT ![x] = d[h] + 1])
<1> DEFINE M2 == M \cup {x}
           p2 == Joined(M, parent, x, h)
           d2 == [d EXCEPT ![x] = d[h] + 1]
<1>1. /\ M \in SUBSET SolarSystems /\ parent \in [M -> M] /\ a \in M
      /\ d \in [SolarSystems -> Nat] /\ d[a] = 0
      /\ \A m \in M : d[m] < Cardinality(M)
      /\ \A m \in M \ {a} : d[m] = d[parent[m]] + 1 /\ Leads(E, parent[m], m)
  BY DEF Tree
<1>2. M2 \in SUBSET SolarSystems /\ p2 \in [M2 -> M2] /\ a \in M2
  BY <1>1 DEF Joined
<1>3. d[h] \in Nat /\ d2 \in [SolarSystems -> Nat] /\ d2[x] = d[h] + 1
  BY <1>1
<1>4. \A m \in M : d2[m] = d[m] /\ p2[m] = parent[m] /\ parent[m] \in M /\ m # x
  BY <1>1 DEF Joined
<1>5. p2[x] = h /\ d2[h] = d[h]
  BY <1>1, <1>4 DEF Joined
<1>6. Cardinality(M) \in Nat /\ Cardinality(M2) = Cardinality(M) + 1
  BY <1>1, PlannerAssumption, FS_Subset, FS_CardinalityType, FS_AddElement
<1>7. \A m \in M2 : m \in M \/ m = x
  OBVIOUS
<1> HIDE DEF M2, p2, d2
<1>8. \A m \in M2 : d2[m] < Cardinality(M2)
  <2>1. ASSUME NEW m \in M PROVE d2[m] < Cardinality(M2)
    BY <1>1, <1>4, <1>6
  <2>2. d2[x] < Cardinality(M2)
    BY <1>1, <1>3, <1>6
  <2> QED
    BY <1>7, <2>1, <2>2
<1>9. \A m \in M2 \ {a} : d2[m] = d2[p2[m]] + 1 /\ Leads(E, p2[m], m)
  <2>1. ASSUME NEW m \in M \ {a} PROVE d2[m] = d2[p2[m]] + 1 /\ Leads(E, p2[m], m)
    <3>1. d2[p2[m]] = d[parent[m]] /\ p2[m] = parent[m] /\ d2[m] = d[m]
      BY <1>4
    <3> QED
      BY <1>1, <3>1
  <2>2. d2[x] = d2[p2[x]] + 1 /\ Leads(E, p2[x], x)
    BY <1>3, <1>5
  <2> QED
    BY <1>7, <2>1, <2>2
<1>10. d2[a] = 0
  BY <1>1, <1>4
<1>11. Tree(E, a, M2, p2, d2)
  BY <1>2, <1>3, <1>8, <1>9, <1>10 DEF Tree
<1> QED
  BY <1>11 DEF M2, p2, d2

\* Who joins the queue is deeper than those before.
LEMMA LineGrows ==
    ASSUME NEW M \in SUBSET SolarSystems, NEW d \in [SolarSystems -> Nat], NEW line, NEW D,
           Line(line, M, d, D), NEW x \in SolarSystems, x \notin M, NEW depth \in Nat,
           \A m \in M : d[m] =< depth
    PROVE  Line(Append(line, x), M \cup {x}, [d EXCEPT ![x] = depth], D)
<1> DEFINE M2 == M \cup {x}
           q2 == Append(line, x)
           d2 == [d EXCEPT ![x] = depth]
           n == Len(line)
<1>1. /\ line \in Seq(M) /\ D \in SUBSET M
      /\ \A m \in M : m \in D \/ \E i \in 1..n : line[i] = m
      /\ \A i \in 1..n : line[i] \notin D
      /\ \A i, j \in 1..n : i < j => line[i] # line[j] /\ d[line[i]] =< d[line[j]]
  BY DEF Line
<1>2. n \in Nat /\ \A i \in 1..n : line[i] \in M
  BY <1>1, LenProperties, ElementOfSeq
<1>3. q2 \in Seq(M2) /\ Len(q2) = n + 1 /\ q2[n + 1] = x /\ \A i \in 1..n : q2[i] = line[i]
  <2>1. line \in Seq(M2)
    BY <1>1, SeqMonotonic
  <2> HIDE DEF M2
  <2>2. x \in M2
    BY DEF M2
  <2> QED
    BY <2>1, <2>2
<1>4. d2[x] = depth /\ \A m \in M : d2[m] = d[m] /\ m # x
  OBVIOUS
<1> HIDE DEF q2, d2, n
<1>5. \A i \in 1..Len(q2) : i \in 1..n \/ i = n + 1
  BY <1>2, <1>3
<1>6. D \in SUBSET M2
  BY <1>1
<1>7. \A m \in M2 : m \in D \/ \E i \in 1..Len(q2) : q2[i] = m
  <2>1. n + 1 \in 1..Len(q2) /\ \A i \in 1..n : i \in 1..Len(q2)
    BY <1>2, <1>3
  <2>2. ASSUME NEW m \in M, m \notin D PROVE \E i \in 1..Len(q2) : q2[i] = m
    <3>1. PICK i \in 1..n : line[i] = m
      BY <1>1, <2>2
    <3> QED
      BY <1>3, <2>1, <3>1
  <2>3. \E i \in 1..Len(q2) : q2[i] = x
    BY <1>3, <2>1
  <2> QED
    BY <2>2, <2>3
<1>8. \A i \in 1..Len(q2) : q2[i] \notin D
  BY <1>1, <1>3, <1>5
<1>9. \A i, j \in 1..Len(q2) : i < j => q2[i] # q2[j] /\ d2[q2[i]] =< d2[q2[j]]
  <2>1. SUFFICES ASSUME NEW i \in 1..Len(q2), NEW j \in 1..Len(q2), i < j
                 PROVE  q2[i] # q2[j] /\ d2[q2[i]] =< d2[q2[j]]
    OBVIOUS
  <2>2. i \in 1..n
    BY <1>2, <1>3, <2>1
  <2>3. q2[i] = line[i] /\ line[i] \in M /\ d2[q2[i]] = d[line[i]] /\ d[line[i]] \in Nat
    BY <1>2, <1>3, <1>4, <2>2
  <2>4. CASE j \in 1..n
    <3>1. q2[j] = line[j] /\ line[j] \in M /\ d2[q2[j]] = d[line[j]]
      BY <1>2, <1>3, <1>4, <2>4
    <3> QED
      BY <1>1, <2>1, <2>2, <2>3, <2>4, <3>1
  <2>5. CASE j = n + 1
    BY <1>3, <1>4, <2>3, <2>5
  <2> QED
    BY <1>5, <2>4, <2>5
<1>10. Line(q2, M2, d2, D)
  BY <1>3, <1>6, <1>7, <1>8, <1>9 DEF Line
<1> QED
  BY <1>10 DEF q2, d2

\* One more edge was looked at.
LEMMA LookAtEdge ==
    ASSUME NEW avoid, NEW E \in Seq(Edge(avoid)), NEW a, NEW h, NEW k \in 1..Len(E),
           NEW s \in BfsState, NEW d, NEW D, Within(E, a, h, k - 1, s, d, D)
    PROVE  \E d2 : Within(E, a, h, k, FoundStep(h, s, E[k]), d2, D)
<1> DEFINE M == DOMAIN s.parent
           x == E[k].to
<1>1. Len(E) \in Nat /\ E[k] \in Edge(avoid) /\ x \in SolarSystems
  <2>1. Len(E) \in Nat /\ E[k] \in Edge(avoid)
    BY LenProperties, ElementOfSeq
  <2> QED
    BY <2>1 DEF Edge
<1>2. /\ Tree(E, a, M, s.parent, d) /\ Line(s.queue, M, d, D)
      /\ h \in D
      /\ \A m \in D \ {h} : Covered(E, M, d, m) /\ d[m] =< d[h]
      /\ \A j \in 1..k-1 : E[j].from = h => E[j].to \in M /\ d[E[j].to] =< d[h] + 1
      /\ \A m \in M : d[m] =< d[h] + 1
      /\ \A i \in 1..Len(s.queue) : d[h] =< d[s.queue[i]]
  BY DEF Within
<1>3. M \in SUBSET SolarSystems /\ d \in [SolarSystems -> Nat] /\ D \in SUBSET M
  BY <1>2 DEF Tree, Line
<1>4. \A j \in 1..k : j \in 1..k-1 \/ j = k
  BY <1>1
<1>5. CASE E[k].from # h \/ x \in M
  <2>1. FoundStep(h, s, E[k]) = s
    BY <1>5 DEF FoundStep
  <2>2. \A j \in 1..k : E[j].from = h => E[j].to \in M /\ d[E[j].to] =< d[h] + 1
    BY <1>2, <1>4, <1>5
  <2>3. Within(E, a, h, k, s, d, D)
    BY <1>2, <2>2 DEF Within
  <2> QED
    BY <2>1, <2>3
<1>6. CASE E[k].from = h /\ x \notin M
  <2> DEFINE depth == d[h] + 1
             d2 == [d EXCEPT ![x] = depth]
             M2 == M \cup {x}
             p2 == Joined(M, s.parent, x, h)
             q2 == Append(s.queue, x)
             t == FoundStep(h, s, E[k])
  <2>1. t = [queue |-> q2, parent |-> p2] /\ DOMAIN p2 = M2
    BY <1>6 DEF FoundStep, Joined
  <2>2. h \in M /\ d[h] \in Nat /\ depth \in Nat
    BY <1>2, <1>3
  <2>3. Leads(E, h, x)
    <3>1. k \in DOMAIN E
      BY LenProperties
    <3> QED
      BY <1>6, <3>1 DEF Leads
  <2>4. Tree(E, a, M2, p2, d2)
    <3> HIDE DEF M, x
    <3> QED
      BY <1>1, <1>2, <1>6, <2>2, <2>3, TreeGrows
  <2>5. Line(q2, M2, d2, D)
    <3>1. \A m \in M : d[m] =< depth
      BY <1>2
    <3> HIDE DEF M, x, depth
    <3> QED
      BY <1>1, <1>2, <1>3, <1>6, <2>2, <3>1, LineGrows
  <2>6. d2[x] = depth /\ d2 \in [SolarSystems -> Nat] /\ \A m \in M : d2[m] = d[m] /\ m # x /\ m \in M2
    BY <1>1, <1>3, <1>6, <2>2
  <2>7. x \in M2 /\ \A m \in M2 : m \in M \/ m = x
    OBVIOUS
  <2> HIDE DEF t, p2, q2, M2, d2, M, x
  <2>8. \A m \in D \ {h} : Covered(E, M2, d2, m) /\ d2[m] =< d2[h]
    <3>1. SUFFICES ASSUME NEW m \in D \ {h} PROVE Covered(E, M2, d2, m) /\ d2[m] =< d2[h]
      OBVIOUS
    <3>2. m \in M /\ d2[m] = d[m] /\ d2[h] = d[h] /\ Covered(E, M, d, m) /\ d[m] =< d[h]
      BY <1>2, <1>3, <2>2, <2>6
    <3>3. Covered(E, M2, d2, m)
      <4>1. ASSUME NEW i \in 1..Len(E), E[i].from = m
            PROVE  E[i].to \in M2 /\ d2[E[i].to] =< d2[m] + 1
        <5>1. E[i].to \in M /\ d[E[i].to] =< d[m] + 1
          BY <3>2, <4>1 DEF Covered
        <5> QED
          BY <2>6, <3>2, <5>1
      <4> QED
        BY <4>1 DEF Covered
    <3> QED
      BY <3>2, <3>3
  <2>9. \A j \in 1..k : E[j].from = h => E[j].to \in M2 /\ d2[E[j].to] =< d2[h] + 1
    <3>1. ASSUME NEW j \in 1..k, E[j].from = h PROVE E[j].to \in M2 /\ d2[E[j].to] =< d2[h] + 1
      <4>1. CASE j \in 1..k-1
        <5>1. E[j].to \in M /\ d[E[j].to] =< d[h] + 1
          BY <1>2, <3>1, <4>1
        <5> QED
          BY <2>2, <2>6, <5>1
      <4>2. CASE j = k
        <5>1. E[j].to = x
          BY <4>2 DEF x
        <5>2. d2[h] = d[h]
          BY <2>2, <2>6
        <5> QED
          BY <2>2, <2>6, <2>7, <5>1, <5>2
      <4> QED
        BY <1>4, <4>1, <4>2
    <3> QED
      BY <3>1
  <2>10. \A m \in M2 : d2[m] =< d2[h] + 1
    <3>1. ASSUME NEW m \in M PROVE d2[m] =< d2[h] + 1
      BY <1>2, <2>2, <2>6
    <3>2. d2[x] =< d2[h] + 1
      BY <2>2, <2>6
    <3> QED
      BY <2>7, <3>1, <3>2
  <2>11. \A i \in 1..Len(q2) : d2[h] =< d2[q2[i]]
    <3>1. s.queue \in Seq(M) /\ Len(s.queue) \in Nat
      BY <1>2, LenProperties DEF Line
    <3>2. Len(q2) = Len(s.queue) + 1 /\ q2[Len(s.queue) + 1] = x
          /\ \A i \in 1..Len(s.queue) : q2[i] = s.queue[i]
      BY <3>1 DEF q2
    <3>3. ASSUME NEW i \in 1..Len(q2) PROVE d2[h] =< d2[q2[i]]
      <4>1. CASE i = Len(s.queue) + 1
        BY <2>2, <2>6, <3>2, <4>1
      <4>2. CASE i \in 1..Len(s.queue)
        <5>1. s.queue[i] \in M
          BY <3>1, <4>2, ElementOfSeq
        <5>2. d[h] =< d[s.queue[i]]
          BY <1>2, <4>2
        <5> QED
          BY <2>2, <2>6, <3>2, <4>2, <5>1, <5>2
      <4> QED
        BY <3>1, <3>2, <4>1, <4>2
    <3> QED
      BY <3>3
  <2>12. Within(E, a, h, k, t, d2, D)
    <3>1. t.queue = q2 /\ t.parent = p2
      BY <2>1
    <3> QED
      BY <1>2, <2>1, <3>1, <2>4, <2>5, <2>8, <2>9, <2>10, <2>11 DEF Within
  <2> QED
    BY <2>12 DEF t
<1> QED
  BY <1>5, <1>6

\* The head of the queue is next to be done.
LEMMA TakeHead ==
    ASSUME NEW E, NEW a, NEW s \in BfsState, NEW d, NEW D, Between(E, a, s, d, D), s.queue # << >>
    PROVE  /\ Head(s.queue) \notin D
           /\ Within(E, a, Head(s.queue), 0, [queue |-> Tail(s.queue), parent |-> s.parent], d,
                     D \cup {Head(s.queue)})
<1> DEFINE M == DOMAIN s.parent
           q == s.queue
           h == q[1]
           r == Tail(q)
           D2 == D \cup {h}
<1>1. /\ Tree(E, a, M, s.parent, d) /\ Line(q, M, d, D)
      /\ \A m \in D : Covered(E, M, d, m) /\ d[m] =< d[h]
      /\ \A m \in M : d[m] =< d[h] + 1
  BY DEF Between
<1>2. /\ q \in Seq(M) /\ D \in SUBSET M
      /\ \A m \in M : m \in D \/ \E i \in 1..Len(q) : q[i] = m
      /\ \A i \in 1..Len(q) : q[i] \notin D
      /\ \A i, j \in 1..Len(q) : i < j => q[i] # q[j] /\ d[q[i]] =< d[q[j]]
      /\ d \in [SolarSystems -> Nat] /\ M \in SUBSET SolarSystems
  BY <1>1 DEF Line, Tree
<1>3. Len(q) \in Nat \ {0} /\ 1 \in 1..Len(q) /\ h \in M
  <2>1. Len(q) \in Nat \ {0}
    BY <1>2, EmptySeq
  <2>2. 1 \in 1..Len(q)
    BY <2>1
  <2> QED
    BY <1>2, <2>1, <2>2, ElementOfSeq
<1> HIDE DEF M
<1>4. Head(q) = h /\ r \in Seq(M) /\ Len(r) = Len(q) - 1 /\ \A i \in 1..Len(r) : r[i] = q[i + 1]
  <2>1. q \in Seq(M) /\ q # << >>
    BY <1>2
  <2> HIDE DEF q
  <2>2. r \in Seq(M) /\ Len(r) = Len(q) - 1 /\ \A i \in 1..Len(r) : r[i] = q[i + 1]
    BY <2>1, HeadTailProperties
  <2>3. Head(q) = h
    BY <2>1
  <2> QED
    BY <2>2, <2>3
<1> HIDE DEF q, h, r
<1>5. \A i \in 1..Len(r) : /\ i + 1 \in 1..Len(q) /\ 1 < i + 1
                           /\ r[i] # h /\ d[h] =< d[r[i]] /\ r[i] \notin D
  <2>1. ASSUME NEW i \in 1..Len(r)
        PROVE  /\ i + 1 \in 1..Len(q) /\ 1 < i + 1
               /\ r[i] # h /\ d[h] =< d[r[i]] /\ r[i] \notin D
    <3>1. i + 1 \in 1..Len(q) /\ 1 < i + 1
      BY <1>3, <1>4
    <3>2. q[1] # q[i + 1] /\ d[q[1]] =< d[q[i + 1]] /\ q[i + 1] \notin D
      BY <1>2, <1>3, <3>1
    <3> QED
      BY <1>4, <3>1, <3>2 DEF h
  <2> QED
    BY <2>1
<1>6. Line(r, M, d, D2)
  <2>1. D2 \in SUBSET M
    BY <1>2, <1>3
  <2>2. \A m \in M : m \in D2 \/ \E i \in 1..Len(r) : r[i] = m
    <3>1. SUFFICES ASSUME NEW m \in M, m \notin D2 PROVE \E i \in 1..Len(r) : r[i] = m
      OBVIOUS
    <3>2. PICK i \in 1..Len(q) : q[i] = m
      BY <1>2, <3>1
    <3>3. i # 1
      BY <3>1, <3>2 DEF h
    <3>4. i - 1 \in 1..Len(r) /\ (i - 1) + 1 = i
      BY <1>3, <1>4, <3>3
    <3> QED
      BY <1>4, <3>2, <3>4
  <2>3. \A i \in 1..Len(r) : r[i] \notin D2
    BY <1>5
  <2>4. \A i, j \in 1..Len(r) : i < j => r[i] # r[j] /\ d[r[i]] =< d[r[j]]
    <3>1. ASSUME NEW i \in 1..Len(r), NEW j \in 1..Len(r), i < j
          PROVE  r[i] # r[j] /\ d[r[i]] =< d[r[j]]
      <4>1. i + 1 \in 1..Len(q) /\ j + 1 \in 1..Len(q) /\ i + 1 < j + 1
        BY <1>5, <3>1, <1>3, <1>4
      <4>2. q[i + 1] # q[j + 1] /\ d[q[i + 1]] =< d[q[j + 1]]
        BY <1>2, <4>1
      <4> QED
        BY <1>4, <3>1, <4>2
    <3> QED
      BY <3>1
  <2> HIDE DEF D2
  <2> QED
    BY <1>4, <2>1, <2>2, <2>3, <2>4 DEF Line
<1> DEFINE t == [queue |-> r, parent |-> s.parent]
<1>7. Within(E, a, h, 0, t, d, D2)
  <2>1. DOMAIN t.parent = M /\ t.queue = r /\ t.parent = s.parent
    BY DEF M
  <2> HIDE DEF t
  <2>2. \A m \in D2 \ {h} : Covered(E, M, d, m) /\ d[m] =< d[h]
    BY <1>1
  <2>3. h \in D2
    OBVIOUS
  <2>4. \A i \in 1..Len(r) : d[h] =< d[r[i]]
    BY <1>5
  <2>5. \A j \in 1..0 : E[j].from = h => E[j].to \in M /\ d[E[j].to] =< d[h] + 1
    OBVIOUS
  <2> HIDE DEF D2
  <2> QED
    BY <1>1, <1>6, <2>1, <2>2, <2>3, <2>4, <2>5 DEF Within
<1>8. h \notin D
  BY <1>2, <1>3 DEF h
<1> QED
  BY <1>4, <1>7, <1>8 DEF q, r

\* After the last edge the head is done.
LEMMA HeadIsDone ==
    ASSUME NEW E, NEW a, NEW h, NEW s, NEW d, NEW D, Within(E, a, h, Len(E), s, d, D)
    PROVE  Between(E, a, s, d, D)
<1> DEFINE M == DOMAIN s.parent
           q == s.queue
<1>1. /\ Tree(E, a, M, s.parent, d) /\ Line(q, M, d, D)
      /\ h \in D
      /\ \A m \in D \ {h} : Covered(E, M, d, m) /\ d[m] =< d[h]
      /\ \A j \in 1..Len(E) : E[j].from = h => E[j].to \in M /\ d[E[j].to] =< d[h] + 1
      /\ \A m \in M : d[m] =< d[h] + 1
      /\ \A i \in 1..Len(q) : d[h] =< d[q[i]]
  BY DEF Within
<1>2. \A m \in D : Covered(E, M, d, m)
  <2>1. Covered(E, M, d, h)
    BY <1>1 DEF Covered
  <2> QED
    BY <1>1, <2>1
<1>3. d \in [SolarSystems -> Nat] /\ M \in SUBSET SolarSystems /\ D \in SUBSET M /\ q \in Seq(M)
  BY <1>1 DEF Tree, Line
<1>4. ASSUME q # << >>
      PROVE  (\A m \in D : d[m] =< d[q[1]]) /\ \A m \in M : d[m] =< d[q[1]] + 1
  <2>1. Len(q) \in Nat \ {0}
    BY <1>3, <1>4, EmptySeq
  <2>2. 1 \in 1..Len(q) /\ q[1] \in M
    <3>1. 1 \in 1..Len(q)
      BY <2>1
    <3> QED
      BY <1>3, <3>1, ElementOfSeq
  <2> HIDE DEF q, M
  <2>3. d[h] =< d[q[1]] /\ d[h] \in Nat /\ d[q[1]] \in Nat
    BY <1>1, <1>3, <2>2
  <2>4. ASSUME NEW m \in D PROVE d[m] =< d[q[1]]
    <3>1. d[m] =< d[h] /\ d[m] \in Nat
      BY <1>1, <1>3, <2>3
    <3> QED
      BY <2>3, <3>1
  <2>5. ASSUME NEW m \in M PROVE d[m] =< d[q[1]] + 1
    <3>1. d[m] =< d[h] + 1 /\ d[m] \in Nat
      BY <1>1, <1>3
    <3> QED
      BY <2>3, <3>1
  <2> QED
    BY <2>4, <2>5
<1> QED
  BY <1>1, <1>2, <1>4 DEF Between

\* A round does the head of the queue.
LEMMA VisitKeeps ==
    ASSUME NEW avoid, NEW E \in Seq(Edge(avoid)), NEW a, NEW s \in BfsState, NEW d, NEW D,
           Between(E, a, s, d, D), s.queue # << >>
    PROVE  /\ Head(s.queue) \notin D
           /\ \E d2 : Between(E, a, Visit(E, s), d2, D \cup {Head(s.queue)})
<1> DEFINE h == Head(s.queue)
           n == Len(E)
           D2 == D \cup {h}
<1>1. PICK found \in [0..n -> BfsState] :
         /\ found[0] = [queue |-> Tail(s.queue), parent |-> s.parent]
         /\ \A k \in 1..n : found[k] = FoundStep(h, found[k - 1], E[k])
         /\ Visit(E, s) = found[n]
  BY VisitUnrolls
<1>2. h \notin D /\ Within(E, a, h, 0, found[0], d, D2)
  <2> DEFINE t == [queue |-> Tail(s.queue), parent |-> s.parent]
  <2>1. h \notin D /\ Within(E, a, h, 0, t, d, D2)
    BY TakeHead
  <2>2. t = found[0]
    BY <1>1
  <2> HIDE DEF t
  <2> QED
    BY <2>1, <2>2
<1>3. n \in Nat
  BY LenProperties
<1> HIDE DEF h, D2
<1> DEFINE T == {k \in 0..n : \E d2 : Within(E, a, h, k, found[k], d2, D2)}
<1>4. 0 \in T
  BY <1>2, <1>3
<1>5. ASSUME NEW k \in 1..n, k - 1 \in T PROVE k \in T
  <2>1. k \in 0..n /\ k - 1 \in 0..n /\ found[k - 1] \in BfsState
    BY <1>1, <1>3
  <2>2. PICK d1 : Within(E, a, h, k - 1, found[k - 1], d1, D2)
    BY <1>5
  <2>3. \E d2 : Within(E, a, h, k, FoundStep(h, found[k - 1], E[k]), d2, D2)
    BY <2>1, <2>2, LookAtEdge
  <2> QED
    BY <1>1, <2>1, <2>3
<1>6. n \in T
  <2> HIDE DEF T
  <2>1. \A k \in 0..n : k \in T
    BY <1>3, <1>4, <1>5, UpwardFromZero
  <2> QED
    BY <1>3, <2>1
<1>7. PICK d2 : Within(E, a, h, n, found[n], d2, D2)
  BY <1>6
<1>8. Between(E, a, Visit(E, s), d2, D2)
  BY <1>1, <1>7, HeadIsDone
<1> QED
  BY <1>2, <1>8 DEF h, D2

\* Where a search starts.
LEMMA FirstRoundBetween ==
    ASSUME NEW E, NEW a \in SolarSystems
    PROVE  Between(E, a, FirstRound(a), [m \in SolarSystems |-> 0], {})
<1> DEFINE d == [m \in SolarSystems |-> 0]
           q == <<a>>
           p == [m \in {a} |-> a]
           M == {a}
           s == [queue |-> q, parent |-> p]
<1>1. s = FirstRound(a) /\ s.queue = q /\ s.parent = p /\ DOMAIN p = M
  BY DEF FirstRound
<1>2. d \in [SolarSystems -> Nat] /\ d[a] = 0 /\ p \in [M -> M] /\ M \in SUBSET SolarSystems /\ a \in M
  OBVIOUS
<1>3. q \in Seq(M) /\ Len(q) = 1 /\ q[1] = a
  OBVIOUS
<1>4. Cardinality(M) = 1
  BY FS_Singleton
<1>5. \A m \in M : m = a
  OBVIOUS
<1> HIDE DEF d, q, p, M, s
<1>6. Tree(E, a, M, p, d)
  BY <1>2, <1>4, <1>5 DEF Tree
<1>7. Line(q, M, d, {})
  <2>1. \A i \in 1..Len(q) : i = 1
    BY <1>3
  <2>2. 1 \in 1..Len(q)
    BY <1>3
  <2>3. \A m \in M : m \in {} \/ \E i \in 1..Len(q) : q[i] = m
    BY <1>3, <1>5, <2>2
  <2>4. \A i, j \in 1..Len(q) : i < j => q[i] # q[j] /\ d[q[i]] =< d[q[j]]
    BY <2>1
  <2> QED
    BY <1>3, <2>3, <2>4 DEF Line
<1>8. \A m \in M : d[m] =< d[q[1]] + 1
  BY <1>2, <1>3, <1>5
<1>9. Between(E, a, s, d, {})
  BY <1>1, <1>6, <1>7, <1>8 DEF Between
<1> QED
  BY <1>1, <1>9 DEF d

\* What Parents finds: a tree of edges that leaves no edge out, and the depths in it.
LEMMA ParentsFound ==
    ASSUME NEW avoid, NEW E \in Seq(Edge(avoid)), NEW a \in SolarSystems
    PROVE  LET P == Parents(E, a)
               M == DOMAIN P
           IN  \E d : Tree(E, a, M, P, d) /\ \A m \in M : Covered(E, M, d, m)
<1> DEFINE n == Cardinality(SolarSystems)
<1>1. n \in Nat /\ IsFiniteSet(SolarSystems)
  BY PlannerAssumption, FS_CardinalityType
<1>2. PICK round \in [0..n -> BfsState] :
         /\ round[0] = FirstRound(a)
         /\ \A i \in 1..n : round[i] = NextRound(E, round[i - 1])
         /\ Parents(E, a) = round[n].parent
  BY RoundsUnroll
<1> HIDE DEF n
<1> DEFINE Good(i, d, D) == /\ Between(E, a, round[i], d, D)
                            /\ round[i].queue = << >> \/ Cardinality(D) >= i
           T == {i \in 0..n : \E d, D : Good(i, d, D)}
<1>3. 0 \in T
  <2>1. Between(E, a, round[0], [m \in SolarSystems |-> 0], {})
    BY <1>2, FirstRoundBetween
  <2>2. Good(0, [m \in SolarSystems |-> 0], {})
    BY <2>1, FS_EmptySet
  <2> HIDE DEF Good
  <2> QED
    BY <1>1, <2>2
<1>4. ASSUME NEW i \in 1..n, i - 1 \in T PROVE i \in T
  <2>1. i \in 0..n /\ i - 1 \in 0..n /\ round[i - 1] \in BfsState /\ round[i] = NextRound(E, round[i - 1])
    BY <1>1, <1>2
  <2> DEFINE s == round[i - 1]
  <2>2. PICK d, D : Between(E, a, s, d, D) /\ (s.queue = << >> \/ Cardinality(D) >= i - 1)
    BY <1>4
  <2>3. CASE s.queue = << >>
    <3>1. round[i] = s
      BY <2>1, <2>3 DEF NextRound
    <3> HIDE DEF s
    <3>2. Good(i, d, D)
      BY <2>2, <2>3, <3>1
    <3> HIDE DEF Good
    <3> QED
      BY <2>1, <3>2
  <2>4. CASE s.queue # << >>
    <3> DEFINE D2 == D \cup {Head(s.queue)}
    <3>1. round[i] = Visit(E, s)
      BY <2>1, <2>4 DEF NextRound
    <3> HIDE DEF s
    <3>2. Head(s.queue) \notin D /\ \E d2 : Between(E, a, Visit(E, s), d2, D2)
      <4>1. s \in BfsState
        BY <2>1 DEF s
      <4> QED
        BY <2>2, <2>4, <4>1, VisitKeeps
    <3>3. PICK d2 : Between(E, a, round[i], d2, D2)
      BY <3>1, <3>2
    <3>4. D \in SUBSET SolarSystems
      BY <2>2 DEF Between, Line, Tree
    <3>5. Cardinality(D) \in Nat /\ Cardinality(D2) = Cardinality(D) + 1
      BY <1>1, <3>2, <3>4, FS_Subset, FS_CardinalityType, FS_AddElement
    <3>6. Cardinality(D2) >= i
      BY <2>2, <2>4, <3>5
    <3> HIDE DEF D2
    <3>7. Good(i, d2, D2)
      BY <3>3, <3>6
    <3> HIDE DEF Good
    <3> QED
      BY <2>1, <3>7
  <2> QED
    BY <2>3, <2>4
<1>5. n \in T
  <2> HIDE DEF T
  <2>1. \A i \in 0..n : i \in T
    BY <1>1, <1>3, <1>4, UpwardFromZero
  <2> QED
    BY <1>1, <2>1
<1>6. PICK d, D : Between(E, a, round[n], d, D) /\ (round[n].queue = << >> \/ Cardinality(D) >= n)
  BY <1>5
<1> DEFINE s == round[n]
           M == DOMAIN s.parent
<1> HIDE DEF s
<1>7. Tree(E, a, M, s.parent, d) /\ Line(s.queue, M, d, D) /\ \A m \in D : Covered(E, M, d, m)
  BY <1>6 DEF Between, s
<1>8. M \in SUBSET SolarSystems /\ D \in SUBSET M
  BY <1>7 DEF Tree, Line
<1>9. \A m \in M : m \in D
  <2>1. CASE s.queue = << >>
    <3>1. Len(s.queue) = 0
      BY <2>1
    <3> QED
      BY <1>7, <3>1 DEF Line
  <2>2. CASE Cardinality(D) >= n
    <3>1. D \in SUBSET SolarSystems
      BY <1>8
    <3>2. Cardinality(D) =< n /\ (n = Cardinality(D) => D = SolarSystems) /\ Cardinality(D) \in Nat
      BY <1>1, <3>1, FS_Subset, FS_CardinalityType DEF n
    <3>3. D = SolarSystems
      BY <1>1, <2>2, <3>2
    <3> QED
      BY <1>8, <3>3
  <2> QED
    BY <1>6, <2>1, <2>2 DEF s
<1>10. Parents(E, a) = s.parent
  BY <1>2 DEF s
<1> QED
  BY <1>7, <1>9, <1>10

-----------------------------------------------------------------------------
(* The path                                                                  *)

\* What the recursive function of PathTo is.
BackRun(back, parent, from, to) ==
    LET c == Cardinality(SolarSystems)
    IN  /\ back \in [0..c -> Rooted(parent)]
        /\ back[0] = <<to>>
        /\ \A k \in 1..c : back[k] = OneBack(parent, from, back[k - 1])
        /\ PathTo(parent, from, to) = back[c]

\* PathTo goes back parent after parent.
LEMMA BackUnrolls ==
    ASSUME NEW E, NEW from \in SolarSystems, NEW X, NEW parent, NEW d,
           Tree(E, from, X, parent, d), NEW to \in X
    PROVE  \E back : BackRun(back, parent, from, to)
<1> DEFINE n == Cardinality(SolarSystems)
           base == <<to>>
           S == Rooted(parent)
           Eq(f) == f = [k \in 0..n |->
                           IF k = 0 THEN base
                           ELSE IF Head(f[k - 1]) = from THEN f[k - 1]
                                ELSE <<parent[Head(f[k - 1])]>> \o f[k - 1]]
           back == CHOOSE f : Eq(f)
           F == [x \in (1..n) \X S |-> OneBack(parent, from, x[2])]
<1>1. n \in Nat /\ X \in SUBSET SolarSystems /\ parent \in [X -> X] /\ DOMAIN parent = X
  BY PlannerAssumption, FS_CardinalityType DEF Tree
<1>2. base \in S
  BY <1>1 DEF Rooted
<1>3. ASSUME NEW p \in S PROVE OneBack(parent, from, p) \in S
  <2>1. p \in Seq(SolarSystems) /\ Head(p) \in X
    BY <1>1 DEF Rooted
  <2>2. parent[Head(p)] \in X /\ parent[Head(p)] \in SolarSystems
    BY <1>1, <2>1
  <2> DEFINE x == parent[Head(p)]
  <2>3. OneBack(parent, from, p) \in {p, <<x>> \o p}
    BY DEF OneBack
  <2> HIDE DEF x
  <2>4. <<x>> \o p \in Seq(SolarSystems) /\ <<x>> \o p # << >> /\ Head(<<x>> \o p) = x
    BY <2>1, <2>2, Prefixed DEF x
  <2>5. <<x>> \o p \in S
    BY <1>1, <2>2, <2>4 DEF Rooted, x
  <2> QED
    BY <2>3, <2>5
<1> HIDE DEF n, base, S
<1>4. StaysWithin(S, F, n)
  BY <1>3 DEF StaysWithin
<1>5. PICK f : Unrolls(f, F, base, S, n)
  <2> HIDE DEF F
  <2> QED
    BY <1>1, <1>2, <1>4, RecursionFromZero
<1>6. Eq(f)
  <2>1. f \in [0..n -> S] /\ f[0] = base
    BY <1>5 DEF Unrolls
  <2>2. ASSUME NEW k \in 0..n, k # 0 PROVE f[k] = OneBack(parent, from, f[k - 1])
    <3>1. k \in 1..n /\ k - 1 \in 0..n
      BY <1>1, <2>2
    <3>2. f[k] = F[<<k, f[k - 1]>>] /\ f[k - 1] \in S
      BY <1>5, <2>1, <3>1 DEF Unrolls
    <3> QED
      BY <3>1, <3>2
  <2>3. f = [k \in 0..n |-> IF k = 0 THEN base ELSE OneBack(parent, from, f[k - 1])]
    BY <2>1, <2>2
  <2> QED
    BY <2>3 DEF OneBack
<1>7. Eq(back)
  <2> HIDE DEF Eq
  <2> QED
    BY <1>6
<1>8. back = [k \in 0..n |-> IF k = 0 THEN base ELSE OneBack(parent, from, back[k - 1])]
  BY <1>7 DEF OneBack
<1>9. PathTo(parent, from, to) = back[n]
  BY <1>1 DEF PathTo, n, base
<1> HIDE DEF back
<1>10. back[0] = base /\ \A k \in 1..n : back[k] = OneBack(parent, from, back[k - 1])
  <2>1. ASSUME NEW k \in 0..n
        PROVE  back[k] = IF k = 0 THEN base ELSE OneBack(parent, from, back[k - 1])
    BY <1>8
  <2>2. 0 \in 0..n /\ \A k \in 1..n : k \in 0..n /\ k # 0
    BY <1>1
  <2> QED
    BY <2>1, <2>2
<1> DEFINE T == {k \in 0..n : back[k] \in S}
<1>11. 0 \in T
  BY <1>1, <1>2, <1>10
<1>12. ASSUME NEW k \in 1..n, k - 1 \in T PROVE k \in T
  <2>1. k \in 0..n /\ back[k - 1] \in S
    BY <1>1, <1>12
  <2> QED
    BY <1>3, <1>10, <2>1
<1>13. \A k \in 0..n : k \in T
  <2> HIDE DEF T
  <2> QED
    BY <1>1, <1>11, <1>12, UpwardFromZero
<1>14. back \in [0..n -> S]
  BY <1>8, <1>13
<1> QED
  BY <1>9, <1>10, <1>14 DEF n, base, S, BackRun

\* p ends at b and goes along edges, and its first node is as much less deep.
Backwards(E, a, b, M, d, p, k) ==
    /\ p \in Seq(SolarSystems) /\ Len(p) \in Nat \ {0}
    /\ p[1] \in M /\ p[Len(p)] = b
    /\ \A i \in 1..Len(p) - 1 : Leads(E, p[i], p[i + 1])
    /\ d[b] = d[p[1]] + (Len(p) - 1)
    /\ p[1] = a \/ Len(p) = k + 1

\* One parent more in front.
LEMMA OneBackKeeps ==
    ASSUME NEW E, NEW a, NEW b, NEW M, NEW parent, NEW d, Tree(E, a, M, parent, d),
           NEW p, NEW k \in Nat, Backwards(E, a, b, M, d, p, k)
    PROVE  Backwards(E, a, b, M, d, OneBack(parent, a, p), k + 1)
<1>1. /\ p \in Seq(SolarSystems) /\ Len(p) \in Nat \ {0}
      /\ p[1] \in M /\ p[Len(p)] = b
      /\ \A i \in 1..Len(p) - 1 : Leads(E, p[i], p[i + 1])
      /\ d[b] = d[p[1]] + (Len(p) - 1)
      /\ p[1] = a \/ Len(p) = k + 1
  BY DEF Backwards
<1>2. /\ M \in SUBSET SolarSystems /\ parent \in [M -> M]
      /\ d \in [SolarSystems -> Nat]
      /\ \A m \in M \ {a} : d[m] = d[parent[m]] + 1 /\ Leads(E, parent[m], m)
  BY DEF Tree
<1>3. Head(p) = p[1]
  BY <1>1
<1>4. CASE p[1] = a
  <2>1. OneBack(parent, a, p) = p
    BY <1>3, <1>4 DEF OneBack
  <2> QED
    BY <1>1, <1>4, <2>1 DEF Backwards
<1>5. CASE p[1] # a
  <2> DEFINE x == parent[p[1]]
             q == <<x>> \o p
  <2>1. OneBack(parent, a, p) = q
    BY <1>3, <1>5 DEF OneBack
  <2>2. x \in M /\ x \in SolarSystems /\ d[p[1]] = d[x] + 1 /\ Leads(E, x, p[1]) /\ d[x] \in Nat
    BY <1>1, <1>2, <1>5
  <2> HIDE DEF x
  <2>3. /\ q \in Seq(SolarSystems) /\ Len(q) = Len(p) + 1 /\ q[1] = x
        /\ \A i \in 1..Len(p) : q[i + 1] = p[i]
    BY <1>1, <2>2, Prefixed
  <2> HIDE DEF q
  <2>4. q[Len(q)] = b
    <3>1. Len(p) \in 1..Len(p)
      BY <1>1
    <3> QED
      BY <1>1, <2>3, <3>1
  <2>5. ASSUME NEW i \in 1..Len(q) - 1 PROVE Leads(E, q[i], q[i + 1])
    <3>1. CASE i = 1
      <4>1. q[i] = x /\ q[i + 1] = p[1]
        BY <1>1, <2>3, <3>1
      <4> QED
        BY <2>2, <4>1
    <3>2. CASE i # 1
      <4>1. i - 1 \in 1..Len(p) - 1 /\ i \in 1..Len(p) /\ i - 1 \in 1..Len(p) /\ (i - 1) + 1 = i
        BY <1>1, <2>3, <3>2
      <4>2. q[(i - 1) + 1] = p[i - 1] /\ q[i + 1] = p[i]
        BY <2>3, <4>1
      <4>3. Leads(E, p[i - 1], p[(i - 1) + 1])
        BY <1>1, <4>1
      <4> QED
        BY <4>1, <4>2, <4>3
    <3> QED
      BY <3>1, <3>2
  <2>6. d[b] = d[q[1]] + (Len(q) - 1)
    <3>1. d[b] = (d[x] + 1) + (Len(p) - 1) /\ d[q[1]] = d[x]
      BY <1>1, <2>2, <2>3
    <3>2. ASSUME NEW u \in Nat, NEW l \in Nat PROVE (u + 1) + (l - 1) = u + ((l + 1) - 1)
      OBVIOUS
    <3> QED
      BY <1>1, <2>2, <2>3, <3>1, <3>2
  <2>7. Len(q) \in Nat \ {0} /\ Len(q) = (k + 1) + 1
    BY <1>1, <1>5, <2>3
  <2> QED
    BY <2>1, <2>2, <2>3, <2>4, <2>5, <2>6, <2>7 DEF Backwards
<1> QED
  BY <1>4, <1>5

\* A walk with one node more than its end is deep.
DeepWalk(E, a, b, M, d, p) ==
    b \in M /\ p \in Seq(SolarSystems) /\ IsWalk(E, p, a, b) /\ Len(p) = d[b] + 1

\* The path found is one.
LEMMA PathFound ==
    ASSUME NEW E, NEW a \in SolarSystems, NEW b, NEW M, NEW parent, NEW d,
           M = DOMAIN parent, Tree(E, a, M, parent, d), PathTo(parent, a, b) # << >>
    PROVE  DeepWalk(E, a, b, M, d, PathTo(parent, a, b))
<1>1. b \in M
  BY DEF PathTo
<1>2. M \in SUBSET SolarSystems /\ parent \in [M -> M] /\ a \in M
      /\ d \in [SolarSystems -> Nat] /\ d[a] = 0 /\ d[b] < Cardinality(M)
  BY <1>1 DEF Tree
<1> DEFINE n == Cardinality(SolarSystems)
<1>3. n \in Nat /\ Cardinality(M) \in Nat /\ Cardinality(M) =< n
  BY <1>2, PlannerAssumption, FS_CardinalityType, FS_Subset
<1>4. PICK back : /\ back[0] = <<b>>
                  /\ \A k \in 1..n : back[k] = OneBack(parent, a, back[k - 1])
                  /\ PathTo(parent, a, b) = back[n]
  <2>1. PICK back : BackRun(back, parent, a, b)
    BY <1>1, BackUnrolls
  <2> QED
    BY <2>1 DEF BackRun
<1> HIDE DEF n
<1> DEFINE T == {k \in 0..n : Backwards(E, a, b, M, d, back[k], k)}
<1>5. 0 \in T
  <2> DEFINE p == <<b>>
  <2>1. p \in Seq(SolarSystems) /\ Len(p) = 1 /\ p[1] = b /\ d[b] \in Nat
    BY <1>1, <1>2
  <2> HIDE DEF p
  <2>2. Backwards(E, a, b, M, d, p, 0)
    BY <1>1, <2>1 DEF Backwards
  <2>3. back[0] = p /\ 0 \in 0..n
    BY <1>3, <1>4 DEF p
  <2> QED
    BY <2>2, <2>3
<1>6. ASSUME NEW k \in 1..n, k - 1 \in T PROVE k \in T
  <2>1. k - 1 \in Nat /\ (k - 1) + 1 = k /\ k \in 0..n
    BY <1>3
  <2>2. Backwards(E, a, b, M, d, OneBack(parent, a, back[k - 1]), (k - 1) + 1)
    <3>1. Backwards(E, a, b, M, d, back[k - 1], k - 1)
      BY <1>6
    <3> QED
      BY <2>1, <3>1, OneBackKeeps
  <2> QED
    BY <1>4, <2>1, <2>2
<1>7. n \in T
  <2> HIDE DEF T
  <2>1. \A k \in 0..n : k \in T
    BY <1>3, <1>5, <1>6, UpwardFromZero
  <2> QED
    BY <1>3, <2>1
<1> DEFINE p == back[n]
<1> HIDE DEF p
<1>8. /\ p \in Seq(SolarSystems) /\ Len(p) \in Nat \ {0}
      /\ p[1] \in M /\ p[Len(p)] = b
      /\ \A i \in 1..Len(p) - 1 : Leads(E, p[i], p[i + 1])
      /\ d[b] = d[p[1]] + (Len(p) - 1)
      /\ p[1] = a \/ Len(p) = n + 1
  BY <1>7 DEF Backwards, p
<1>9. p[1] = a
  <2>1. d[p[1]] \in Nat /\ d[b] \in Nat
    BY <1>1, <1>2, <1>8
  <2> QED
    BY <1>2, <1>3, <1>8, <2>1
<1>10. IsWalk(E, p, a, b)
  BY <1>8, <1>9 DEF IsWalk, Leads
<1>11. Len(p) = d[b] + 1
  <2>1. d[b] = 0 + (Len(p) - 1)
    BY <1>2, <1>8, <1>9
  <2> QED
    BY <1>8, <2>1
<1>12. PathTo(parent, a, b) = p
  BY <1>4 DEF p
<1> QED
  BY <1>1, <1>8, <1>10, <1>11, <1>12 DEF DeepWalk

\* A walk is never shorter than its end is deep.
LEMMA WalksAreLonger ==
    ASSUME NEW avoid, NEW E \in Seq(Edge(avoid)), NEW a \in SolarSystems, NEW b, NEW M, NEW parent, NEW d,
           Tree(E, a, M, parent, d), \A m \in M : Covered(E, M, d, m),
           NEW n \in Nat \ {0}, NEW w \in [1..n -> SolarSystems], IsWalk(E, w, a, b)
    PROVE  d[b] < n
<1>1. Len(w) = n /\ n \in 1..n
  BY AsSeq
<1>2. w[1] = a /\ w[n] = b /\ \A i \in 1..n - 1 : \E k \in DOMAIN E : E[k].from = w[i] /\ E[k].to = w[i + 1]
  BY <1>1 DEF IsWalk
<1>3. M \in SUBSET SolarSystems /\ a \in M /\ d \in [SolarSystems -> Nat] /\ d[a] = 0
  BY DEF Tree
<1>4. DOMAIN E = 1..Len(E)
  BY LenProperties
<1> DEFINE one == 1
           T == {i \in 1..n : w[i] \in M /\ d[w[i]] < i}
<1>5. one \in T /\ one \in Nat
  <2>1. 1 \in 1..n /\ w[1] \in M /\ d[w[1]] < 1
    BY <1>2, <1>3
  <2> QED
    BY <2>1
<1>6. ASSUME NEW i \in (one+1)..n, i - 1 \in T PROVE i \in T
  <2>1. i \in 1..n /\ i - 1 \in 1..n - 1 /\ (i - 1) + 1 = i /\ w[i - 1] \in M /\ d[w[i - 1]] < i - 1
    BY <1>6
  <2>2. PICK k \in DOMAIN E : E[k].from = w[i - 1] /\ E[k].to = w[(i - 1) + 1]
    BY <1>2, <2>1
  <2>3. E[k].to \in M /\ d[E[k].to] =< d[w[i - 1]] + 1
    BY <1>4, <2>1, <2>2 DEF Covered
  <2>4. w[i] \in M /\ d[w[i]] =< d[w[i - 1]] + 1
    BY <2>1, <2>2, <2>3
  <2>5. d[w[i]] \in Nat /\ d[w[i - 1]] \in Nat
    BY <1>3, <2>1, <2>4
  <2> QED
    BY <2>1, <2>4, <2>5
<1>7. n \in T
  <2> HIDE DEF T, one
  <2>1. \A i \in one..n : i \in T
    BY <1>5, <1>6, Upward
  <2> QED
    BY <1>1, <2>1 DEF one
<1> QED
  BY <1>2, <1>7

\* What a search finds is a walk that touches no avoided system but where it starts,
\* and no walk is shorter.
LEMMA ShortestPath ==
    ASSUME NEW avoid, NEW E \in Seq(Edge(avoid)), NEW a \in SolarSystems, NEW b,
           BfsShortestPath(E, a, b) # << >>
    PROVE  LET p == BfsShortestPath(E, a, b)
           IN  /\ p \in Seq(SolarSystems) /\ IsWalk(E, p, a, b)
               /\ Range(p) \cap avoid \subseteq {a}
               /\ \A n \in 1..Len(p) - 1 : ~\E w \in [1..n -> SolarSystems] : IsWalk(E, w, a, b)
<1> DEFINE P == Parents(E, a)
           M == DOMAIN P
           p == PathTo(P, a, b)
<1>1. PICK d : Tree(E, a, M, P, d) /\ \A m \in M : Covered(E, M, d, m)
  BY ParentsFound
<1>2. p = BfsShortestPath(E, a, b) /\ p # << >>
  BY DEF BfsShortestPath
<1>0. M = DOMAIN P /\ p = PathTo(P, a, b)
  OBVIOUS
<1> HIDE DEF P, M, p
<1>3. /\ b \in M /\ p \in Seq(SolarSystems) /\ IsWalk(E, p, a, b) /\ Len(p) = d[b] + 1
  <2>1. DeepWalk(E, a, b, M, d, p)
    BY <1>0, <1>1, <1>2, PathFound
  <2> QED
    BY <2>1 DEF DeepWalk
<1>4. d[b] \in Nat
  BY <1>1, <1>3 DEF Tree
<1>5. ASSUME NEW n \in 1..Len(p) - 1, NEW w \in [1..n -> SolarSystems], IsWalk(E, w, a, b)
      PROVE  FALSE
  <2>1. n \in Nat \ {0} /\ n =< d[b]
    BY <1>3, <1>4
  <2>2. d[b] < n
    BY <1>1, <1>5, <2>1, WalksAreLonger
  <2> QED
    BY <1>4, <2>1, <2>2
<1>6. ASSUME NEW x \in Range(p), x \in avoid PROVE x = a
  <2>1. PICK i \in DOMAIN p : p[i] = x
    BY DEF Range
  <2>2. i \in 1..Len(p) /\ Len(p) \in Nat
    BY <1>3, LenProperties
  <2>3. CASE i = 1
    BY <1>3, <2>1, <2>3 DEF IsWalk
  <2>4. CASE i # 1
    <3>1. i - 1 \in 1..Len(p) - 1 /\ (i - 1) + 1 = i
      BY <2>2, <2>4
    <3>2. PICK k \in DOMAIN E : E[k].to = p[(i - 1) + 1]
      BY <1>3, <3>1 DEF IsWalk
    <3>3. E[k] \in Edge(avoid)
      BY <3>2, LenProperties, ElementOfSeq
    <3>4. E[k].to \notin avoid
      BY <3>3 DEF Edge
    <3> QED
      BY <1>6, <2>1, <3>1, <3>2, <3>4
  <2> QED
    BY <2>3, <2>4
<1> QED
  BY <1>2, <1>3, <1>5, <1>6

-----------------------------------------------------------------------------
(* What the autopilot is given                                               *)

\* The greatest of some numbers up to n is one of them.
LEMMA MaxIsMember ==
    ASSUME NEW n \in Nat, NEW S \in SUBSET (1..n), S # {}
    PROVE  Max(S) \in S
<1> DEFINE R == OpToRel(<, Nat)
           D == {k \in Nat : \E x \in S : k = n - x}
<1>1. IsWellFoundedOn(R, Nat)
  BY NatLessThanWellFounded
<1>2. D \subseteq Nat /\ D # {}
  <2>1. PICK x \in S : TRUE
    OBVIOUS
  <2>2. n - x \in Nat
    BY <2>1
  <2> QED
    BY <2>1, <2>2
<1> HIDE DEF R, D
<1>3. PICK k \in D : \A j \in D : ~(<<j, k>> \in R)
  BY <1>1, <1>2, WFMin
<1>4. PICK x \in S : k = n - x
  BY <1>3 DEF D
<1>5. ASSUME NEW y \in S PROVE x >= y
  <2>1. n - y \in Nat /\ n - y \in D /\ y \in Nat /\ x \in Nat /\ k \in Nat
    BY <1>2, <1>3 DEF D
  <2>2. ~(n - y < k)
    BY <1>3, <2>1 DEF R, OpToRel
  <2> QED
    BY <1>4, <2>1, <2>2
<1> QED
  BY <1>5 DEF Max

\* The destinations of a leg, of which there is one.
LEMMA Destinations ==
    ASSUME bridges \in Seq(Bridge), NEW E, NEW p \in Seq(SolarSystems), p # << >>
    PROVE  JumpgatePath(E, p) \in Seq(Destination) /\ JumpgatePath(E, p) # << >>
<1> DEFINE Rows(i) == {k \in DOMAIN bridges : bridges[k].from = p[i] /\ bridges[k].to = p[i + 1]}
           Newest(found) == IF found = {} THEN << >> ELSE <<bridges[Max(found)].gate>>
           Gate(i) == IF Kind(E, p[i], p[i + 1]) = "bridge" THEN Newest(Rows(i)) ELSE << >>
           parts == [i \in 1..Len(p) - 1 |-> Gate(i)]
           S == Destination
           Q == Seq(S)
<1>1. Len(p) \in Nat \ {0} /\ p[Len(p)] \in SolarSystems
  <2>1. Len(p) \in Nat \ {0}
    BY EmptySeq
  <2>2. Len(p) \in 1..Len(p)
    BY <2>1
  <2> QED
    BY <2>1, <2>2, ElementOfSeq
<1>2. DOMAIN bridges = 1..Len(bridges) /\ Len(bridges) \in Nat
  BY LenProperties
<1>3. ASSUME NEW i \in 1..Len(p) - 1 PROVE Gate(i) \in Q
  <2>1. ASSUME NEW found \in SUBSET DOMAIN bridges PROVE Newest(found) \in Q
    <3>1. CASE found = {}
      BY <3>1, EmptySeq
    <3>2. CASE found # {}
      <4>1. Max(found) \in 1..Len(bridges)
        BY <1>2, <3>2, MaxIsMember
      <4>2. bridges[Max(found)] \in Bridge
        BY <4>1, ElementOfSeq
      <4>3. bridges[Max(found)].gate \in S
        BY <4>2 DEF Bridge, Destination
      <4> HIDE DEF S
      <4> QED
        BY <3>2, <4>3, Singles
    <3> QED
      BY <3>1, <3>2
  <2>2. Rows(i) \in SUBSET DOMAIN bridges
    OBVIOUS
  <2> HIDE DEF Newest, Rows
  <2> QED
    BY <2>1, <2>2, EmptySeq
<1>4. parts \in Seq(Q)
  <2>1. Len(p) - 1 \in Nat
    BY <1>1
  <2> HIDE DEF Gate, Q
  <2>2. parts \in [1..Len(p) - 1 -> Q]
    BY <1>3
  <2> HIDE DEF parts
  <2> QED
    BY <2>1, <2>2, AsSeq
<1>5. FlattenSeq(parts) \in Seq(S)
  <2> HIDE DEF parts, S
  <2> QED
    BY <1>4, Flattened DEF Q
<1>6. <<p[Len(p)]>> \in Seq(S) /\ <<p[Len(p)]>> # << >>
  <2>1. p[Len(p)] \in S
    BY <1>1 DEF Destination
  <2> HIDE DEF S
  <2> QED
    BY <2>1, Singles
<1> DEFINE front == FlattenSeq(parts)
           end == <<p[Len(p)]>>
<1> HIDE DEF front, end, S
<1>7. front \o end \in Seq(S) /\ front \o end # << >>
  BY <1>5, <1>6, ConcatProperties, ConcatEqualIffEmpty DEF front, end
<1>8. JumpgatePath(E, p) = front \o end
  BY DEF JumpgatePath, front, end
<1> QED
  BY <1>7, <1>8 DEF S

-----------------------------------------------------------------------------
(* Types                                                                     *)

Asked == [waypoints : Seq(SolarSystems), avoid : SUBSET SolarSystems]

\* What the tables and the requests are made of.
InputsTyped ==
    bridges \in Tables /\ gates \in Seq(SolarSystems \X SolarSystems) /\ disabled \subseteq SolarSystems
PlannerTyped ==
    graph \in Graph /\ expired \in BOOLEAN /\ failed \in BOOLEAN /\ crossed \in BOOLEAN
RequestsTyped ==
    /\ stage \in [Requests -> Stages] /\ ask \in [Requests -> Asked]
    /\ source \in [Requests -> SolarSystems] /\ blocked \in [Requests -> SUBSET SolarSystems]
    /\ loaded \in [Requests -> Seq(Bridge)] /\ used \in [Requests -> Graph]
    /\ path \in [Requests -> Seq(SolarSystems)]
    /\ plan \in [Requests -> Seq(Destination)]
CourseTyped == autopilot \in Seq(Destination) /\ last \in Seq(Destination) /\ mixed \in BOOLEAN

\* The types, part by part.
LEMMA TypedParts == PlannerTypeOK <=> InputsTyped /\ PlannerTyped /\ RequestsTyped /\ CourseTyped
  BY DEF PlannerTypeOK, InputsTyped, PlannerTyped, RequestsTyped, CourseTyped, Asked

\* The same after a step.
LEMMA TypedPartsNext ==
    PlannerTypeOK' <=> InputsTyped' /\ PlannerTyped' /\ RequestsTyped' /\ CourseTyped'
  BY DEF PlannerTypeOK, InputsTyped, PlannerTyped, RequestsTyped, CourseTyped, Asked

\* What a request that is over is left with.
LEMMA NothingTyped ==
    /\ NoAsk \in Asked /\ NoGraph \in Graph /\ << >> \in Seq(Bridge) /\ << >> \in Seq(SolarSystems)
    /\ << >> \in Seq(Destination) /\ Origin \in SolarSystems /\ {} \in SUBSET SolarSystems
<1>1. << >> \in Seq(Bridge) /\ << >> \in Seq(SolarSystems) /\ << >> \in Seq(Destination)
      /\ << >> \in Seq(SolarSystems \X SolarSystems)
  BY EmptySeq
<1> QED
  BY <1>1, PlannerAssumption DEF NoAsk, Asked, NoGraph, Graph

\* A table is a sequence of bridges.
LEMMA TablesTyped ==
    ASSUME NEW t \in Tables
    PROVE  t \in Seq(Bridge)
  BY PlannerAssumption DEF Bridge

\* A request that is over.
LEMMA ForgetTyped ==
    ASSUME RequestsTyped, NEW r \in Requests, Forget(r)
    PROVE  RequestsTyped'
<1>1. stage' \in [Requests -> Stages]
  BY DEF RequestsTyped, Forget, GoesTo, Stages
<1>2. ask' \in [Requests -> Asked] /\ source' \in [Requests -> SolarSystems]
      /\ blocked' \in [Requests -> SUBSET SolarSystems]
  BY NothingTyped DEF RequestsTyped, Forget
<1>3. loaded' \in [Requests -> Seq(Bridge)] /\ used' \in [Requests -> Graph]
      /\ path' \in [Requests -> Seq(SolarSystems)] /\ plan' \in [Requests -> Seq(Destination)]
  BY NothingTyped DEF RequestsTyped, Forget
<1> QED
  BY <1>1, <1>2, <1>3 DEF RequestsTyped

\* Who gives destinations has some.
PlansAhead == \A r \in Requests : stage[r] \in {"set", "append"} => plan[r] # << >>

\* A leg leads through systems.
LEMMA SearchTyped ==
    ASSUME PlannerTypeOK, NEW r \in Requests, stage[r] = "search",
           NEW b, BfsShortestPath(Usable(graph, ask[r].avoid, blocked[r]), source[r], b) # << >>
    PROVE  BfsShortestPath(Usable(graph, ask[r].avoid, blocked[r]), source[r], b) \in Seq(SolarSystems)
<1> DEFINE E == Usable(graph, ask[r].avoid, blocked[r])
           avoid == ask[r].avoid
<1>1. E \in Seq(Edge(avoid)) /\ source[r] \in SolarSystems
  BY UsableTyped DEF PlannerTypeOK
<1> HIDE DEF E, avoid
<1>2. BfsShortestPath(E, source[r], b) # << >>
  BY DEF E
<1>3. BfsShortestPath(E, source[r], b) \in Seq(SolarSystems)
  BY <1>1, <1>2, ShortestPath
<1> QED
  BY <1>3 DEF E

\* A request's step keeps the types of the requests.
LEMMA RequestsStepTyped ==
    ASSUME PlannerTypeOK, LegInv, PlansAhead, NEW r \in Requests,
           RouteStep(r)
    PROVE  RequestsTyped'
<1> USE TypedParts
<1>1. CASE Ask(r)
  <2>1. PICK q \in Routes : ask' = [ask EXCEPT ![r] = q]
    BY <1>1 DEF Ask
  <2>2. q \in Asked
    BY PlannerAssumption DEF Asked
  <2>3. ask' \in [Requests -> Asked]
    BY <2>1, <2>2 DEF RequestsTyped
  <2>4. stage' \in [Requests -> Stages]
    BY <1>1 DEF RequestsTyped, Ask, GoesTo, Stages
  <2>5. blocked' \in [Requests -> SUBSET SolarSystems]
    BY <1>1 DEF RequestsTyped, InputsTyped, Ask
  <2> QED
    BY <1>1, <2>3, <2>4, <2>5 DEF RequestsTyped, Ask, leg
<1>2. CASE EnsureGraph(r)
  <2>1. stage' \in [Requests -> Stages]
    BY <1>2 DEF RequestsTyped, EnsureGraph, GoesTo, Stages
  <2> QED
    BY <1>2, <2>1 DEF RequestsTyped, EnsureGraph, leg
<1>3. CASE LoadBridges(r)
  <2>1. stage' \in [Requests -> Stages]
    BY <1>3 DEF RequestsTyped, LoadBridges, GoesTo, Stages
  <2>2. loaded' \in [Requests -> Seq(Bridge)]
    BY <1>3, TablesTyped DEF RequestsTyped, InputsTyped, LoadBridges
  <2> QED
    BY <1>3, <2>1, <2>2 DEF RequestsTyped, LoadBridges, leg
<1>4. CASE BuildGraph(r)
  <2>1. stage' \in [Requests -> Stages]
    BY <1>4 DEF RequestsTyped, BuildGraph, GoesTo, Stages
  <2> QED
    BY <1>4, <2>1 DEF RequestsTyped, BuildGraph, leg
<1>5. CASE StoreHash(r)
  <2>1. stage' \in [Requests -> Stages]
    BY <1>5 DEF RequestsTyped, StoreHash, GoesTo, Stages
  <2>2. loaded' \in [Requests -> Seq(Bridge)]
    BY <1>5, NothingTyped DEF RequestsTyped, StoreHash
  <2> QED
    BY <1>5, <2>1, <2>2 DEF RequestsTyped, StoreHash, leg
<1>6. CASE RebuildFails(r)
  BY <1>6, ForgetTyped DEF RebuildFails
<1>7. CASE Search(r)
  <2> DEFINE p == BfsShortestPath(Usable(graph, ask[r].avoid, blocked[r]), source[r], Head(ask[r].waypoints))
  <2>1. CASE p = << >>
    BY <1>7, <2>1, ForgetTyped DEF Search
  <2>2. CASE p # << >>
    <3>1. p \in Seq(SolarSystems)
      BY <1>7, <2>2, SearchTyped DEF Search
    <3> HIDE DEF p
    <3>2. /\ used' = [used EXCEPT ![r] = graph]
          /\ path' = [path EXCEPT ![r] = p]
          /\ GoesTo(r, "found")
          /\ UNCHANGED <<ask, source, blocked, loaded, plan>>
      BY <1>7, <2>2 DEF Search, p
    <3>3. stage' \in [Requests -> Stages]
      BY <3>2 DEF RequestsTyped, GoesTo, Stages
    <3>4. used' \in [Requests -> Graph] /\ path' \in [Requests -> Seq(SolarSystems)]
      BY <3>1, <3>2 DEF RequestsTyped, PlannerTyped
    <3> QED
      BY <3>2, <3>3, <3>4 DEF RequestsTyped
  <2> QED
    BY <2>1, <2>2
<1>8. CASE LookUp(r)
  <2>1. stage' \in [Requests -> Stages]
    BY <1>8 DEF RequestsTyped, LookUp, GoesTo, Stages
  <2>2. ask[r].waypoints \in Seq(SolarSystems) /\ ask[r].waypoints # << >> /\ ask[r] \in Asked
    BY <1>8 DEF RequestsTyped, Asked, LegInv, LookUp
  <2>3. Head(ask[r].waypoints) \in SolarSystems /\ Tail(ask[r].waypoints) \in Seq(SolarSystems)
    BY <2>2, HeadTailProperties
  <2>4. source' \in [Requests -> SolarSystems]
    BY <1>8, <2>3 DEF RequestsTyped, LookUp
  <2>5. ask' \in [Requests -> Asked]
    <3> DEFINE w == Tail(ask[r].waypoints)
    <3>1. ask' = [ask EXCEPT ![r] = [ask[r] EXCEPT !.waypoints = w]]
      BY <1>8 DEF LookUp
    <3> HIDE DEF w
    <3>2. [ask[r] EXCEPT !.waypoints = w] \in Asked
      BY <2>2, <2>3 DEF Asked, w
    <3> QED
      BY <3>1, <3>2 DEF RequestsTyped
  <2>6. used' \in [Requests -> Graph] /\ path' \in [Requests -> Seq(SolarSystems)]
    BY <1>8, NothingTyped DEF RequestsTyped, LookUp
  <2>7. plan' \in [Requests -> Seq(Destination)]
    <3> DEFINE j == JumpgatePath(Usable(used[r], ask[r].avoid, blocked[r]), path[r])
    <3>1. j \in Seq(Destination)
      <4>1. bridges \in Seq(Bridge)
        BY TablesTyped DEF InputsTyped
      <4>2. path[r] \in Seq(SolarSystems) /\ path[r] # << >>
        BY <1>8 DEF RequestsTyped, LegInv, LookUp
      <4> QED
        BY <4>1, <4>2, Destinations
    <3> HIDE DEF j
    <3>2. plan[r] \o j \in Seq(Destination)
      BY <3>1, ConcatProperties DEF RequestsTyped
    <3>3. plan' = [plan EXCEPT ![r] = plan[r] \o j]
      BY <1>8 DEF LookUp, j
    <3> QED
      BY <3>2, <3>3 DEF RequestsTyped
  <2> QED
    BY <1>8, <2>1, <2>4, <2>5, <2>6, <2>7 DEF RequestsTyped, LookUp
<1>9. CASE SetFirst(r) \/ AppendNext(r)
  <2>1. CASE Forget(r)
    BY <2>1, ForgetTyped
  <2>2. CASE ~Forget(r)
    <3>1. /\ plan' = [plan EXCEPT ![r] = Tail(plan[r])]
          /\ UNCHANGED <<ask, source, blocked, loaded, leg>>
          /\ UNCHANGED stage \/ GoesTo(r, "append")
      BY <1>9, <2>2 DEF SetFirst, AppendNext
    <3>2. plan[r] \in Seq(Destination) /\ plan[r] # << >>
      BY <1>9 DEF RequestsTyped, PlansAhead, SetFirst, AppendNext
    <3>3. Tail(plan[r]) \in Seq(Destination)
      BY <3>2, HeadTailProperties
    <3>4. plan' \in [Requests -> Seq(Destination)]
      BY <3>1, <3>3 DEF RequestsTyped
    <3>5. stage' \in [Requests -> Stages]
      BY <3>1 DEF RequestsTyped, GoesTo, Stages
    <3> QED
      BY <3>1, <3>4, <3>5 DEF RequestsTyped, leg
  <2> QED
    BY <2>1, <2>2
<1>10. CASE SetFails(r)
  BY <1>10, ForgetTyped DEF SetFails
<1> QED
  BY <1>1, <1>2, <1>3, <1>4, <1>5, <1>6, <1>7, <1>8, <1>9, <1>10 DEF RouteStep

\* What the autopilot is given are destinations.
LEMMA CourseStepTyped ==
    ASSUME PlannerTypeOK, PlansAhead, PlannerNext
    PROVE  CourseTyped'
<1> USE TypedParts
<1>1. ASSUME NEW destinations \in Seq(Destination), destinations # << >>, Give(destinations)
      PROVE  CourseTyped'
  <2>1. Head(destinations) \in Destination
    BY <1>1, HeadTailProperties
  <2>2. autopilot' \in Seq(Destination)
    BY <1>1, <2>1, Singles DEF Give
  <2> QED
    BY <1>1, <2>2 DEF CourseTyped, Give
<1>2. CASE ClearRoute
  <2>1. <<Origin>> \in Seq(Destination) /\ <<Origin>> # << >>
    BY PlannerAssumption, Singles DEF Destination
  <2> QED
    BY <1>1, <1>2, <2>1 DEF ClearRoute
<1>3. ASSUME NEW r \in Requests, SetFirst(r) PROVE CourseTyped'
  <2>1. plan[r] \in Seq(Destination) /\ plan[r] # << >>
    BY <1>3 DEF RequestsTyped, PlansAhead, SetFirst
  <2> QED
    BY <1>1, <1>3, <2>1 DEF SetFirst
<1>4. ASSUME NEW r \in Requests, AppendNext(r) PROVE CourseTyped'
  <2>1. Head(plan[r]) \in Destination
    BY <1>4, HeadTailProperties DEF RequestsTyped, PlansAhead, AppendNext
  <2>2. autopilot' \in Seq(Destination)
    BY <1>4, <2>1 DEF CourseTyped, AppendNext
  <2> QED
    BY <1>4, <2>2 DEF CourseTyped, AppendNext
<1>5. CASE UNCHANGED course
  BY <1>5 DEF CourseTyped, course
<1>6. \/ UNCHANGED course \/ ClearRoute
      \/ \E r \in Requests : SetFirst(r) \/ AppendNext(r)
  BY DEF PlannerNext, RouteStep, ChangeBridges, ChangeOther, Expire, Ask, EnsureGraph, LoadBridges,
         BuildGraph, StoreHash, RebuildFails, Search, LookUp, SetFails
<1> QED
  BY <1>2, <1>3, <1>4, <1>5, <1>6

\* The tables and the graph keep their types.
LEMMA PlannerStepTyped ==
    ASSUME PlannerTypeOK, PlannerNext
    PROVE  InputsTyped' /\ PlannerTyped'
<1> USE TypedParts
<1>1. InputsTyped'
  <2>1. CASE UNCHANGED inputs
    BY <2>1 DEF InputsTyped, inputs
  <2>2. CASE ChangeBridges
    BY <2>2 DEF InputsTyped, ChangeBridges
  <2>3. CASE ChangeOther
    <3>1. MoreGates \in Seq(SolarSystems \X SolarSystems)
      BY PlannerAssumption
    <3>2. gates' \in {gates, MoreGates} /\ disabled' \in {{s} : s \in Reported} \cup {disabled}
          /\ UNCHANGED bridges
      BY <2>3 DEF ChangeOther
    <3>3. disabled' \subseteq SolarSystems
      BY <3>2, PlannerAssumption DEF InputsTyped
    <3> QED
      BY <3>1, <3>2, <3>3 DEF InputsTyped
  <2>4. UNCHANGED inputs \/ ChangeBridges \/ ChangeOther
    BY DEF PlannerNext, RouteStep, Expire, ClearRoute, Ask, EnsureGraph, LoadBridges, BuildGraph, StoreHash,
           RebuildFails, Search, LookUp, SetFirst, SetFails, AppendNext
  <2> QED
    BY <2>1, <2>2, <2>3, <2>4
<1>2. graph' \in Graph
  <2>1. ASSUME NEW r \in Requests, BuildGraph(r) PROVE graph' \in Graph
    <3>1. loaded[r] \in Seq(Bridge) /\ gates \in Seq(SolarSystems \X SolarSystems)
      BY DEF RequestsTyped, InputsTyped
    <3> QED
      BY <2>1, <3>1 DEF BuildGraph, Graph
  <2>2. UNCHANGED graph \/ \E r \in Requests : BuildGraph(r)
    BY DEF PlannerNext, RouteStep, ChangeBridges, ChangeOther, Expire, ClearRoute, Ask, EnsureGraph, LoadBridges,
           StoreHash, RebuildFails, Search, LookUp, SetFirst, SetFails, AppendNext, planner
  <2> QED
    BY <2>1, <2>2 DEF PlannerTyped
<1>3. expired' \in BOOLEAN
  <2>1. UNCHANGED expired \/ expired' = TRUE \/ expired' = FALSE
    BY DEF PlannerNext, RouteStep, ChangeBridges, ChangeOther, Expire, ClearRoute, Ask, EnsureGraph, LoadBridges,
           BuildGraph, StoreHash, RebuildFails, Search, LookUp, SetFirst, SetFails, AppendNext, planner
  <2> QED
    BY <2>1, Zenon DEF PlannerTyped
<1>4. failed' \in BOOLEAN
  <2>1. UNCHANGED failed \/ failed' = TRUE \/ failed' = FALSE
    BY DEF PlannerNext, RouteStep, ChangeBridges, ChangeOther, Expire, ClearRoute, Ask, EnsureGraph, LoadBridges,
           BuildGraph, StoreHash, RebuildFails, Search, LookUp, SetFirst, SetFails, AppendNext, rebuilds
  <2> QED
    BY <2>1, Zenon DEF PlannerTyped
<1>5. crossed' \in BOOLEAN
  <2>1. ASSUME NEW r \in Requests, LoadBridges(r) PROVE crossed' \in BOOLEAN
    BY <2>1, Zenon DEF LoadBridges
  <2>2. UNCHANGED crossed \/ \E r \in Requests : LoadBridges(r)
    BY DEF PlannerNext, RouteStep, ChangeBridges, ChangeOther, Expire, ClearRoute, Ask, EnsureGraph,
           BuildGraph, StoreHash, RebuildFails, Search, LookUp, SetFirst, SetFails, AppendNext, rebuilds
  <2> QED
    BY <2>1, <2>2, Zenon DEF PlannerTyped
<1> QED
  BY <1>1, <1>2, <1>3, <1>4, <1>5 DEF PlannerTyped

\* All of them do.
LEMMA PlannerTypesKept ==
    ASSUME PlannerTypeOK, LegInv, PlansAhead, PlannerNext
    PROVE  PlannerTypeOK'
<1>1. RequestsTyped'
  <2>1. CASE UNCHANGED requests
    BY <2>1, TypedParts DEF RequestsTyped, requests, leg
  <2>2. UNCHANGED requests \/ \E r \in Requests : RouteStep(r)
    BY DEF PlannerNext, ChangeBridges, ChangeOther, Expire, ClearRoute
  <2> QED
    BY <2>1, <2>2, RequestsStepTyped
<1> QED
  BY <1>1, CourseStepTyped, PlannerStepTyped, TypedPartsNext

-----------------------------------------------------------------------------
(* Legs                                                                      *)

\* A request's step changes nothing of another request.
LEMMA OwnRequestOnly ==
    ASSUME PlannerTypeOK, NEW r \in Requests, RouteStep(r), NEW q \in Requests, q # r
    PROVE  /\ stage'[q] = stage[q] /\ ask'[q] = ask[q] /\ source'[q] = source[q]
           /\ blocked'[q] = blocked[q] /\ loaded'[q] = loaded[q] /\ used'[q] = used[q]
           /\ path'[q] = path[q] /\ plan'[q] = plan[q]
<1> USE TypedParts DEF RequestsTyped
<1>1. CASE Forget(r)
  BY <1>1 DEF Forget, GoesTo
<1>2. CASE UNCHANGED requests
  BY <1>2 DEF requests, leg
<1>3. CASE Ask(r) \/ EnsureGraph(r) \/ LoadBridges(r) \/ BuildGraph(r) \/ StoreHash(r)
  BY <1>3 DEF Ask, EnsureGraph, LoadBridges, BuildGraph, StoreHash, GoesTo, leg
<1>4. CASE ~Forget(r) /\ (Search(r) \/ LookUp(r))
  BY <1>4 DEF Search, LookUp, GoesTo, leg
<1>5. CASE ~Forget(r) /\ (SetFirst(r) \/ AppendNext(r))
  BY <1>5 DEF SetFirst, AppendNext, GoesTo, leg
<1> QED
  BY <1>1, <1>3, <1>4, <1>5 DEF RouteStep, RebuildFails, SetFails

\* Of more than one, some are left.
LEMMA TailAhead ==
    ASSUME NEW S, NEW s \in Seq(S), s # << >>, Len(s) # 1
    PROVE  Tail(s) # << >>
<1>1. Tail(s) \in Seq(S) /\ Len(Tail(s)) = Len(s) - 1 /\ Len(s) \in Nat \ {0}
  BY HeadTailProperties, EmptySeq
<1>2. Len(Tail(s)) # 0
  BY <1>1
<1> QED
  BY <1>2, EmptySeq

\* What LegInv says of a request.
LegOf(r) ==
    /\ stage[r] \notin {"idle", "set", "append"} => ask[r].waypoints # << >>
    /\ stage[r] = "found" =>
          /\ path[r] # << >>
          /\ path[r] = BfsShortestPath(Usable(used[r], ask[r].avoid, blocked[r]),
                                       source[r], Head(ask[r].waypoints))

\* A request's step keeps LegInv for it.
LEMMA OwnLeg ==
    ASSUME PlannerTypeOK, NEW r \in Requests, LegOf(r), PlansAhead, RouteStep(r)
    PROVE  LegOf(r)' /\ (stage'[r] \in {"set", "append"} => plan'[r] # << >>)
<1> USE TypedParts
<1>1. CASE Forget(r)
  <2>1. stage'[r] = "idle"
    BY <1>1 DEF Forget, GoesTo, RequestsTyped
  <2> QED
    BY <2>1 DEF LegOf
<1>2. CASE Ask(r)
  <2>1. PICK q \in Routes : ask' = [ask EXCEPT ![r] = q]
    BY <1>2 DEF Ask
  <2>2. ask'[r].waypoints # << >> /\ stage'[r] = "plan"
    BY <1>2, <2>1, PlannerAssumption DEF Ask, GoesTo, RequestsTyped
  <2> QED
    BY <2>2 DEF LegOf
<1>3. CASE EnsureGraph(r) \/ LoadBridges(r) \/ BuildGraph(r) \/ StoreHash(r)
  <2>1. /\ stage[r] \in {"plan", "load", "build", "hash"}
        /\ stage'[r] \in {"search", "load", "build", "hash"}
        /\ UNCHANGED ask
    BY <1>3 DEF EnsureGraph, LoadBridges, BuildGraph, StoreHash, GoesTo, RequestsTyped
  <2> QED
    BY <2>1 DEF LegOf
<1>4. CASE Search(r) /\ ~Forget(r)
  <2> DEFINE p == BfsShortestPath(Usable(graph, ask[r].avoid, blocked[r]), source[r], Head(ask[r].waypoints))
  <2>1. p # << >>
    BY <1>4 DEF Search
  <2>2. /\ used'[r] = graph /\ path'[r] = p /\ stage'[r] = "found" /\ stage[r] = "search"
        /\ UNCHANGED <<ask, source, blocked>>
    <3> HIDE DEF p
    <3>1. /\ used' = [used EXCEPT ![r] = graph] /\ path' = [path EXCEPT ![r] = p]
          /\ GoesTo(r, "found") /\ stage[r] = "search" /\ UNCHANGED <<ask, source, blocked>>
      BY <1>4, <2>1 DEF Search, p
    <3> QED
      BY <3>1 DEF GoesTo, RequestsTyped
  <2>3. path'[r] = BfsShortestPath(Usable(used'[r], ask'[r].avoid, blocked'[r]),
                                   source'[r], Head(ask'[r].waypoints))
    BY <2>2
  <2> HIDE DEF p
  <2> QED
    BY <2>1, <2>2, <2>3 DEF LegOf
<1>5. CASE LookUp(r)
  <2>1. ask[r].waypoints \in Seq(SolarSystems) /\ ask[r].waypoints # << >> /\ ask[r] \in Asked
        /\ path[r] \in Seq(SolarSystems) /\ path[r] # << >>
    BY <1>5 DEF RequestsTyped, Asked, LegOf, LookUp
  <2>2. stage'[r] = IF Len(ask[r].waypoints) = 1 THEN "set" ELSE "plan"
    BY <1>5 DEF LookUp, GoesTo, RequestsTyped
  <2>3. ask'[r].waypoints = Tail(ask[r].waypoints)
    BY <1>5, <2>1 DEF LookUp, RequestsTyped, Asked
  <2>4. Len(ask[r].waypoints) # 1 => ask'[r].waypoints # << >>
    BY <2>1, <2>3, TailAhead
  <2>5. plan'[r] # << >>
    <3> DEFINE j == JumpgatePath(Usable(used[r], ask[r].avoid, blocked[r]), path[r])
    <3>1. j \in Seq(Destination) /\ j # << >>
      <4>1. bridges \in Seq(Bridge)
        BY TablesTyped DEF InputsTyped
      <4> QED
        BY <2>1, <4>1, Destinations
    <3> HIDE DEF j
    <3>2. plan[r] \o j # << >>
      BY <3>1, ConcatEqualIffEmpty DEF RequestsTyped
    <3>3. plan' = [plan EXCEPT ![r] = plan[r] \o j]
      BY <1>5 DEF LookUp, j
    <3> QED
      BY <3>2, <3>3 DEF RequestsTyped
  <2> QED
    BY <2>2, <2>4, <2>5 DEF LegOf
<1>6. CASE ~Forget(r) /\ (SetFirst(r) \/ AppendNext(r))
  <2>1. /\ Len(plan[r]) # 1 /\ stage[r] \in {"set", "append"}
        /\ plan' = [plan EXCEPT ![r] = Tail(plan[r])]
        /\ UNCHANGED stage \/ GoesTo(r, "append")
    BY <1>6 DEF SetFirst, AppendNext
  <2>2. plan[r] \in Seq(Destination) /\ plan[r] # << >>
    BY <2>1 DEF RequestsTyped, PlansAhead
  <2>3. Tail(plan[r]) # << >>
    BY <2>1, <2>2, TailAhead
  <2>4. plan'[r] # << >> /\ stage'[r] \in {"set", "append"}
    BY <2>1, <2>3 DEF RequestsTyped, GoesTo
  <2> QED
    BY <2>4 DEF LegOf
<1> QED
  BY <1>1, <1>2, <1>3, <1>4, <1>5, <1>6 DEF RouteStep, RebuildFails, SetFails

\* Every step keeps LegInv.
LEMMA LegsKept ==
    ASSUME PlannerTypeOK, LegInv, PlansAhead, PlannerNext
    PROVE  LegInv' /\ PlansAhead'
<1>1. CASE UNCHANGED requests
  BY <1>1 DEF LegInv, PlansAhead, requests, leg
<1>2. ASSUME NEW r \in Requests, RouteStep(r) PROVE LegInv' /\ PlansAhead'
  <2>1. LegOf(r)
    BY DEF LegInv, LegOf
  <2>2. LegOf(r)' /\ (stage'[r] \in {"set", "append"} => plan'[r] # << >>)
    BY <1>2, <2>1, OwnLeg
  <2>3. ASSUME NEW q \in Requests PROVE LegOf(q)' /\ (stage'[q] \in {"set", "append"} => plan'[q] # << >>)
    <3>1. CASE q = r
      BY <2>2, <3>1
    <3>2. CASE q # r
      <4>1. /\ stage'[q] = stage[q] /\ ask'[q] = ask[q] /\ source'[q] = source[q]
            /\ blocked'[q] = blocked[q] /\ used'[q] = used[q]
            /\ path'[q] = path[q] /\ plan'[q] = plan[q]
        BY <1>2, <3>2, OwnRequestOnly
      <4>2. LegOf(q)
        BY DEF LegInv, LegOf
      <4>3. LegOf(q)'
        BY <4>1, <4>2 DEF LegOf
      <4> QED
        BY <4>1, <4>3 DEF PlansAhead
    <3> QED
      BY <3>1, <3>2
  <2> QED
    BY <2>3 DEF LegInv, LegOf, PlansAhead
<1>3. UNCHANGED requests \/ \E r \in Requests : RouteStep(r)
  BY DEF PlannerNext, ChangeBridges, ChangeOther, Expire, ClearRoute
<1> QED
  BY <1>1, <1>2, <1>3

\* At the start nobody plans anything.
LEMMA PlannerInitTyped == PlannerInit => PlannerTypeOK /\ LegInv /\ PlansAhead
<1> SUFFICES ASSUME PlannerInit PROVE PlannerTypeOK /\ LegInv /\ PlansAhead
  OBVIOUS
<1>1. RequestsTyped
  <2>1. "idle" \in Stages
    BY DEF Stages
  <2> QED
    BY <2>1, NothingTyped DEF PlannerInit, RequestsTyped
<1>2. InputsTyped /\ graph \in Graph /\ CourseTyped
  BY NothingTyped, PlannerAssumption DEF PlannerInit, InputsTyped, CourseTyped
<1>3. PlannerTyped
  BY <1>2 DEF PlannerInit, PlannerTyped
<1>4. \A r \in Requests : stage[r] = "idle"
  BY DEF PlannerInit
<1> QED
  BY <1>1, <1>2, <1>3, <1>4, TypedParts DEF LegInv, PlansAhead

\* PlannerTypeOK: the types.  LegInv holds beside it because a leg that was found is never
\* empty and has a waypoint ahead (Search, LookUp).
THEOREM PlannerTypes == PlannerSpec => [](PlannerTypeOK /\ LegInv /\ PlansAhead)
<1>1. PlannerInit => PlannerTypeOK /\ LegInv /\ PlansAhead
  BY PlannerInitTyped
<1>2. PlannerTypeOK /\ LegInv /\ PlansAhead /\ [PlannerNext]_plannerVars
      => PlannerTypeOK' /\ LegInv' /\ PlansAhead'
  <2> SUFFICES ASSUME PlannerTypeOK, LegInv, PlansAhead, [PlannerNext]_plannerVars
               PROVE  PlannerTypeOK' /\ LegInv' /\ PlansAhead'
    OBVIOUS
  <2>1. CASE PlannerNext
    BY <2>1, PlannerTypesKept, LegsKept
  <2>2. CASE UNCHANGED plannerVars
    <3>1. PlannerTypeOK'
      BY <2>2 DEF PlannerTypeOK, plannerVars, inputs, planner, requests, leg, course, rebuilds
    <3>2. LegInv' /\ PlansAhead'
      BY <2>2 DEF LegInv, PlansAhead, plannerVars, requests, leg
    <3> QED
      BY <3>1, <3>2
  <2> QED
    BY <2>1, <2>2
<1> QED
  BY <1>1, <1>2, PTL DEF PlannerSpec

\* LegsAreShortest: a leg leads to its waypoint along usable edges through no avoided
\* system, and no shorter one does (GenerateRouteWithBridgeAvoid).
THEOREM ShortestLegs == PlannerSpec => []LegsAreShortest
<1>1. PlannerTypeOK /\ LegInv => LegsAreShortest
  <2> SUFFICES ASSUME PlannerTypeOK, LegInv, NEW r \in Requests, stage[r] = "found"
               PROVE  LET E == Usable(used[r], ask[r].avoid, blocked[r])
                          a == source[r]
                          b == Head(ask[r].waypoints)
                      IN  /\ IsWalk(E, path[r], a, b)
                          /\ Range(path[r]) \cap ask[r].avoid \subseteq {a}
                          /\ \A n \in 1..Len(path[r]) - 1 :
                                ~\E p \in [1..n -> SolarSystems] : IsWalk(E, p, a, b)
    BY DEF LegsAreShortest
  <2> DEFINE avoid == ask[r].avoid
             E == Usable(used[r], avoid, blocked[r])
             a == source[r]
             b == Head(ask[r].waypoints)
             p == path[r]
  <2>1. E \in Seq(Edge(avoid)) /\ a \in SolarSystems
    BY UsableTyped DEF PlannerTypeOK
  <2>2. p # << >> /\ p = BfsShortestPath(E, a, b)
    BY DEF LegInv
  <2> HIDE DEF avoid, E, a, b, p
  <2>3. /\ IsWalk(E, p, a, b)
        /\ Range(p) \cap avoid \subseteq {a}
        /\ \A n \in 1..Len(p) - 1 : ~\E w \in [1..n -> SolarSystems] : IsWalk(E, w, a, b)
    BY <2>1, <2>2, ShortestPath
  <2> QED
    BY <2>3 DEF avoid, E, a, b, p
<1> QED
  BY <1>1, PlannerTypes, PTL

-----------------------------------------------------------------------------
(* The graph                                                                 *)

Alone == \A q, r \in Requests : Rebuilding(q) /\ Rebuilding(r) => q = r
HashFits == graph.built /\ (\A r \in Requests : stage[r] # "hash") => graphHash = Hash(graph.bridges)
HashComing == \A r \in Requests : stage[r] = "hash" => graph.built /\ graph.bridges = loaded[r]
Fresh ==
    \/ expired \/ failed
    \/ \E r \in Requests : stage[r] = "load"
    \/ /\ \A r \in Requests : Rebuilding(r) => Hash(loaded[r]) \in Since
       /\ \/ \E r \in Requests : Rebuilding(r)
          \/ graph.built /\ Hash(graph.bridges) \in Since

\* RecentInv, part by part.
LEMMA RecentParts ==
    RecentInv <=> bridges \in since /\ (crossed \/ (Alone /\ HashFits /\ HashComing /\ Fresh))
  BY DEF RecentInv, Alone, HashFits, HashComing, Fresh

\* The same after a step.
LEMMA RecentPartsNext ==
    RecentInv' <=> bridges' \in since' /\ (crossed' \/ (Alone' /\ HashFits' /\ HashComing' /\ Fresh'))
  BY DEF RecentInv, Alone, HashFits, HashComing, Fresh

InRebuild(r) == stage[r] \in {"load", "build", "hash"}

\* Steps in which no request enters or leaves a rebuild.
LEMMA RebuildsUntouched ==
    ASSUME RecentInv, UNCHANGED <<graph, graphHash, crossed>>,
           since \subseteq since' \/ expired', bridges' \in since',
           \A q \in Requests : InRebuild(q) \/ InRebuild(q)' => stage'[q] = stage[q] /\ loaded'[q] = loaded[q],
           expired => expired', failed => failed' \/ expired'
    PROVE  RecentInv'
<1>1. CASE crossed
  BY <1>1, RecentPartsNext
<1>2. CASE ~crossed
  <2>1. Alone /\ HashFits /\ HashComing /\ Fresh
    BY <1>2, RecentParts
  <2>2. \A q \in Requests : /\ Rebuilding(q)' <=> Rebuilding(q)
                            /\ stage'[q] = "load" <=> stage[q] = "load"
                            /\ stage'[q] = "hash" <=> stage[q] = "hash"
                            /\ Rebuilding(q) => loaded'[q] = loaded[q]
    BY DEF InRebuild, Rebuilding
  <2>3. Alone'
    BY <2>1, <2>2 DEF Alone
  <2>4. HashFits'
    BY <2>1, <2>2 DEF HashFits
  <2>5. HashComing'
    BY <2>1, <2>2 DEF HashComing, Rebuilding
  <2>6. Fresh'
    <3>1. CASE expired'
      BY <3>1 DEF Fresh
    <3>2. CASE ~expired'
      <4>1. \A x \in Since : x \in Since'
        BY <3>2 DEF Since
      <4> QED
        BY <2>1, <2>2, <3>2, <4>1 DEF Fresh
    <3> QED
      BY <3>1, <3>2
  <2> QED
    BY <2>3, <2>4, <2>5, <2>6, RecentPartsNext
<1> QED
  BY <1>1, <1>2

\* A request's step keeps RecentInv.
LEMMA RecentStep ==
    ASSUME PlannerTypeOK, RecentInv, NEW r \in Requests, RouteStep(r)
    PROVE  RecentInv'
<1> USE TypedParts
<1>1. /\ bridges \in since /\ (crossed \/ (Alone /\ HashFits /\ HashComing /\ Fresh))
      /\ UNCHANGED <<bridges, since>>
  <2>1. UNCHANGED <<bridges, since>>
    BY DEF RouteStep, Ask, EnsureGraph, LoadBridges, BuildGraph, StoreHash, RebuildFails, Search, LookUp,
           SetFirst, SetFails, AppendNext, inputs, rebuilds
  <2> QED
    BY <2>1, RecentParts
<1>2. \A q \in Requests : q # r => stage'[q] = stage[q] /\ loaded'[q] = loaded[q]
  BY OwnRequestOnly
<1>3. Since' = Since
  BY <1>1 DEF Since
<1>4. CASE Ask(r) \/ Search(r) \/ LookUp(r) \/ SetFirst(r) \/ SetFails(r) \/ AppendNext(r)
  <2>1. UNCHANGED <<graph, graphHash, crossed, expired, failed>>
    BY <1>4 DEF Ask, Search, LookUp, SetFirst, SetFails, AppendNext, planner, rebuilds
  <2>2. ~InRebuild(r) /\ ~InRebuild(r)'
    <3>1. stage[r] \in {"idle", "search", "found", "set", "append"}
      BY <1>4 DEF Ask, Search, LookUp, SetFirst, SetFails, AppendNext
    <3>2. stage'[r] \in {"idle", "plan", "found", "set", "append"}
      <4>1. CASE Forget(r)
        BY <4>1 DEF Forget, GoesTo, RequestsTyped
      <4>2. CASE ~Forget(r)
        BY <1>4, <3>1, <4>2 DEF Ask, Search, LookUp, SetFirst, SetFails, AppendNext, GoesTo, RequestsTyped
      <4> QED
        BY <4>1, <4>2
    <3> QED
      BY <3>1, <3>2 DEF InRebuild
  <2>3. \A q \in Requests : InRebuild(q) \/ InRebuild(q)' => stage'[q] = stage[q] /\ loaded'[q] = loaded[q]
    BY <1>2, <2>2
  <2> QED
    BY <1>1, <2>1, <2>3, RebuildsUntouched
<1>5. CASE EnsureGraph(r)
  <2>1. stage[r] = "plan" /\ UNCHANGED <<graph, graphHash, crossed, failed, loaded>>
    BY <1>5 DEF EnsureGraph, rebuilds
  <2>2. CASE stage'[r] # "load"
    <3>1. stage'[r] = "search" /\ UNCHANGED expired
      BY <1>5, <2>2 DEF EnsureGraph, GoesTo, RequestsTyped
    <3>2. \A q \in Requests : InRebuild(q) \/ InRebuild(q)' => stage'[q] = stage[q] /\ loaded'[q] = loaded[q]
      BY <1>2, <2>1, <3>1 DEF InRebuild
    <3> QED
      BY <1>1, <2>1, <3>1, <3>2, RebuildsUntouched
  <2>3. CASE stage'[r] = "load"
    <3>1. Fresh'
      BY <2>3 DEF Fresh
    <3>2. \A q \in Requests : (Rebuilding(q)' <=> Rebuilding(q)) /\ (stage'[q] = "hash" <=> stage[q] = "hash")
      BY <1>2, <2>1, <2>3 DEF Rebuilding
    <3>3. Alone => Alone'
      BY <3>2 DEF Alone
    <3>4. HashFits => HashFits'
      BY <2>1, <3>2 DEF HashFits
    <3>5. HashComing => HashComing'
      BY <2>1, <3>2 DEF HashComing
    <3> QED
      BY <1>1, <2>1, <3>1, <3>3, <3>4, <3>5, RecentPartsNext
  <2> QED
    BY <2>2, <2>3
<1>6. CASE LoadBridges(r)
  <2>1. /\ stage[r] = "load" /\ UNCHANGED <<graph, graphHash, expired, failed>>
        /\ crossed' = (crossed \/ \E q \in Requests : Rebuilding(q))
    BY <1>6 DEF LoadBridges, planner
  <2>2. CASE crossed \/ \E q \in Requests : Rebuilding(q)
    BY <1>1, <2>1, <2>2, RecentPartsNext
  <2>3. CASE ~crossed /\ \A q \in Requests : ~Rebuilding(q)
    <3>1. Alone /\ HashFits /\ HashComing /\ Fresh /\ \A q \in Requests : stage[q] # "hash"
      BY <1>1, <2>3 DEF Rebuilding
    <3>2. CASE graph.built /\ graphHash = Hash(bridges)
      <4>1. stage'[r] = "search" /\ UNCHANGED loaded
        BY <1>6, <3>2 DEF LoadBridges, GoesTo, RequestsTyped
      <4>2. \A q \in Requests : ~Rebuilding(q)' /\ stage'[q] # "hash"
        BY <1>2, <2>3, <4>1 DEF Rebuilding
      <4>3. Alone' /\ HashFits' /\ HashComing'
        BY <2>1, <3>1, <4>2 DEF Alone, HashFits, HashComing
      <4>4. graph'.built /\ Hash(graph'.bridges) \in Since'
        BY <1>1, <1>3, <2>1, <3>1, <3>2 DEF HashFits, Since
      <4>5. Fresh'
        BY <4>2, <4>4 DEF Fresh
      <4> QED
        BY <1>1, <4>3, <4>5, RecentPartsNext
    <3>3. CASE ~(graph.built /\ graphHash = Hash(bridges))
      <4>1. stage'[r] = "build" /\ loaded'[r] = bridges
        BY <1>6, <3>3 DEF LoadBridges, GoesTo, RequestsTyped
      <4>2. \A q \in Requests : (Rebuilding(q)' <=> q = r) /\ stage'[q] # "hash"
        BY <1>2, <2>3, <3>1, <4>1 DEF Rebuilding
      <4>3. Alone' /\ HashFits' /\ HashComing'
        BY <2>1, <3>1, <4>2 DEF Alone, HashFits, HashComing
      <4>4. Hash(loaded'[r]) \in Since'
        BY <1>1, <1>3, <4>1 DEF Since
      <4>5. Fresh'
        BY <4>2, <4>4 DEF Fresh
      <4> QED
        BY <1>1, <4>3, <4>5, RecentPartsNext
    <3> QED
      BY <3>2, <3>3
  <2> QED
    BY <2>2, <2>3
<1>7. CASE BuildGraph(r)
  <2>1. /\ stage[r] = "build" /\ stage'[r] = "hash" /\ UNCHANGED <<graphHash, expired, failed, loaded, crossed>>
        /\ graph'.built /\ graph'.bridges = loaded[r]
    BY <1>7 DEF BuildGraph, GoesTo, RequestsTyped, rebuilds
  <2>2. CASE crossed
    BY <1>1, <2>1, <2>2, RecentPartsNext
  <2>3. CASE ~crossed
    <3>1. Alone /\ HashComing /\ Fresh
      BY <1>1, <2>3
    <3>2. \A q \in Requests : /\ Rebuilding(q)' <=> Rebuilding(q)
                              /\ stage'[q] = "load" <=> stage[q] = "load"
      BY <1>2, <2>1 DEF Rebuilding
    <3>3. \A q \in Requests : Rebuilding(q) => q = r
      BY <2>1, <3>1 DEF Alone, Rebuilding
    <3>4. Alone'
      BY <3>1, <3>2 DEF Alone
    <3>5. HashFits'
      BY <2>1 DEF HashFits
    <3>6. HashComing'
      <4>1. \A q \in Requests : stage'[q] = "hash" => q = r
        BY <3>2, <3>3 DEF Rebuilding
      <4> QED
        BY <2>1, <4>1 DEF HashComing
    <3>7. Fresh'
      <4>1. Rebuilding(r)
        BY <2>1 DEF Rebuilding
      <4> QED
        BY <1>3, <2>1, <3>1, <3>2, <4>1 DEF Fresh
    <3> QED
      BY <1>1, <3>4, <3>5, <3>6, <3>7, RecentPartsNext
  <2> QED
    BY <2>2, <2>3
<1>8. CASE StoreHash(r)
  <2>1. /\ stage[r] = "hash" /\ stage'[r] = "search" /\ UNCHANGED <<graph, expired, failed, crossed>>
        /\ graphHash' = Hash(loaded[r])
    BY <1>8 DEF StoreHash, GoesTo, RequestsTyped, rebuilds
  <2>2. CASE crossed
    BY <1>1, <2>1, <2>2, RecentPartsNext
  <2>3. CASE ~crossed
    <3>1. Alone /\ HashComing /\ Fresh
      BY <1>1, <2>3
    <3>2. graph.built /\ graph.bridges = loaded[r]
      BY <2>1, <3>1 DEF HashComing
    <3>3. \A q \in Requests : /\ ~Rebuilding(q)' /\ stage'[q] # "hash"
                              /\ stage'[q] = "load" <=> stage[q] = "load"
      BY <1>2, <2>1, <3>1 DEF Alone, Rebuilding
    <3>4. Alone' /\ HashFits' /\ HashComing'
      BY <2>1, <3>2, <3>3 DEF Alone, HashFits, HashComing
    <3>5. Fresh'
      <4>1. Rebuilding(r)
        BY <2>1 DEF Rebuilding
      <4>2. Hash(loaded[r]) \in Since => graph'.built /\ Hash(graph'.bridges) \in Since'
        BY <1>3, <2>1, <3>2
      <4> QED
        BY <2>1, <3>1, <3>3, <4>1, <4>2 DEF Fresh
    <3> QED
      BY <1>1, <3>4, <3>5, RecentPartsNext
  <2> QED
    BY <2>2, <2>3
<1>9. CASE RebuildFails(r)
  <2>1. /\ stage[r] \in {"load", "build"} /\ stage'[r] = "idle" /\ failed' = TRUE
        /\ UNCHANGED <<graph, graphHash, expired, crossed>>
    BY <1>9 DEF RebuildFails, Forget, GoesTo, RequestsTyped, planner
  <2>2. CASE crossed
    BY <1>1, <2>1, <2>2, RecentPartsNext
  <2>3. CASE ~crossed
    <3>1. Alone /\ HashFits /\ HashComing
      BY <1>1, <2>3
    <3>2. \A q \in Requests : /\ Rebuilding(q)' => Rebuilding(q)
                              /\ stage'[q] = "hash" <=> stage[q] = "hash"
                              /\ stage'[q] = "hash" => loaded'[q] = loaded[q]
      BY <1>2, <2>1 DEF Rebuilding
    <3>3. Alone'
      BY <3>1, <3>2 DEF Alone
    <3>4. HashFits' /\ HashComing'
      BY <2>1, <3>1, <3>2 DEF HashFits, HashComing
    <3>5. Fresh'
      BY <2>1 DEF Fresh
    <3> QED
      BY <1>1, <3>3, <3>4, <3>5, RecentPartsNext
  <2> QED
    BY <2>2, <2>3
<1> QED
  BY <1>4, <1>5, <1>6, <1>7, <1>8, <1>9 DEF RouteStep

\* RecentInv: a rebuild nobody crosses stores the hash of the graph it stored (populateGraph).
LEMMA RecentHolds == PlannerSpec => []RecentInv
<1>1. PlannerInit => RecentInv
  <2> SUFFICES ASSUME PlannerInit PROVE RecentInv
    OBVIOUS
  <2>1. bridges \in since /\ expired /\ (\A r \in Requests : stage[r] = "idle") /\ graph = NoGraph
    BY DEF PlannerInit
  <2>2. Alone /\ HashFits /\ HashComing /\ Fresh
    BY <2>1 DEF Alone, HashFits, HashComing, Fresh, Rebuilding, NoGraph
  <2> QED
    BY <2>1, <2>2, RecentParts
<1>2. PlannerTypeOK /\ RecentInv /\ [PlannerNext]_plannerVars => RecentInv'
  <2> SUFFICES ASSUME PlannerTypeOK, RecentInv, [PlannerNext]_plannerVars PROVE RecentInv'
    OBVIOUS
  <2>1. bridges \in since
    BY RecentParts
  <2>2. CASE UNCHANGED requests /\ UNCHANGED <<graph, graphHash, crossed>>
             /\ (since \subseteq since' \/ expired') /\ bridges' \in since'
             /\ (expired => expired') /\ (failed => failed' \/ expired')
    <3>1. \A q \in Requests : InRebuild(q) \/ InRebuild(q)' => stage'[q] = stage[q] /\ loaded'[q] = loaded[q]
      BY <2>2 DEF requests
    <3> QED
      BY <2>2, <3>1, RebuildsUntouched
  <2>3. CASE ChangeBridges
    BY <2>1, <2>2, <2>3 DEF ChangeBridges, planner
  <2>4. CASE ChangeOther
    BY <2>1, <2>2, <2>4 DEF ChangeOther, planner, rebuilds
  <2>5. CASE Expire
    BY <2>1, <2>2, <2>5 DEF Expire, inputs
  <2>6. CASE ClearRoute
    BY <2>1, <2>2, <2>6 DEF ClearRoute, inputs, planner, rebuilds
  <2>7. CASE UNCHANGED plannerVars
    BY <2>1, <2>2, <2>7 DEF plannerVars, inputs, planner, rebuilds
  <2> QED
    BY <2>3, <2>4, <2>5, <2>6, <2>7, RecentStep DEF PlannerNext
<1> QED
  BY <1>1, <1>2, PlannerTypes, PTL DEF PlannerSpec

\* GraphIsRecent: until it expires again the graph is of bridges the table held since it
\* last expired, or of such that hash alike, unless that rebuild failed or two were under
\* way at once (ensureGraph, populateGraph).
THEOREM RecentGraph == PlannerSpec => []GraphIsRecent
<1>1. RecentInv => GraphIsRecent
  <2> SUFFICES ASSUME RecentInv, Settled, ~expired, ~failed, ~crossed
               PROVE  Hash(graph.bridges) \in {Hash(t) : t \in since}
    BY DEF GraphIsRecent
  <2>1. Fresh
    BY RecentParts
  <2> QED
    BY <2>1 DEF Fresh, Settled, Since
<1> QED
  BY <1>1, RecentHolds, PTL

-----------------------------------------------------------------------------
(* The autopilot                                                             *)

\* a holds members of l among the first k, in their order and with the first of them.
IsAlong(a, l, k) ==
    \E place \in [DOMAIN a -> 1..k] :
       /\ a # << >> /\ place[1] = 1
       /\ \A i, j \in DOMAIN a : i < j => place[i] < place[j]
       /\ \A i \in DOMAIN a : a[i] = l[place[i]]

\* What Along says, with the sequences named.
LEMMA AlongIs == \A k : Along(k) <=> IsAlong(autopilot, last, k)
  BY DEF Along, IsAlong

\* The first destination alone is along.
LEMMA AlongFirst ==
    ASSUME NEW S, NEW d \in Seq(S), d # << >>
    PROVE  IsAlong(<<Head(d)>>, d, 1)
<1> DEFINE a == <<Head(d)>>
           place == [i \in 1..1 |-> 1]
<1>1. DOMAIN a = 1..1 /\ a # << >> /\ a[1] = d[1]
  OBVIOUS
<1> HIDE DEF a
<1>2. place \in [DOMAIN a -> 1..1] /\ place[1] = 1
  BY <1>1
<1>3. \A i \in DOMAIN a : i = 1
  BY <1>1
<1> HIDE DEF place
<1>4. \A i, j \in DOMAIN a : i < j => place[i] < place[j]
  BY <1>3
<1>5. \A i \in DOMAIN a : a[i] = d[place[i]]
  BY <1>1, <1>2, <1>3
<1>6. IsAlong(a, d, 1)
  BY <1>1, <1>2, <1>4, <1>5 DEF IsAlong
<1> QED
  BY <1>6 DEF a

\* So are more of them, and one that is appended.
LEMMA AlongMore ==
    ASSUME NEW S, NEW a \in Seq(S), NEW l, NEW k \in Int, IsAlong(a, l, k)
    PROVE  /\ k \in Nat \ {0}
           /\ \A m \in Int : k =< m => IsAlong(a, l, m)
           /\ \A x \in S : x = l[k + 1] => IsAlong(Append(a, x), l, k + 1)
<1>1. PICK place \in [DOMAIN a -> 1..k] :
         /\ a # << >> /\ place[1] = 1
         /\ \A i, j \in DOMAIN a : i < j => place[i] < place[j]
         /\ \A i \in DOMAIN a : a[i] = l[place[i]]
  BY DEF IsAlong
<1> DEFINE n == Len(a)
<1>2. DOMAIN a = 1..n /\ n \in Nat \ {0} /\ 1 \in DOMAIN a
  <2>1. DOMAIN a = 1..n /\ n \in Nat \ {0}
    BY <1>1, LenProperties, EmptySeq
  <2> QED
    BY <2>1
<1>3. k \in Nat \ {0}
  BY <1>1, <1>2
<1>4. ASSUME NEW m \in Int, k =< m PROVE IsAlong(a, l, m)
  <2>1. place \in [DOMAIN a -> 1..m]
    BY <1>3, <1>4
  <2> QED
    BY <1>1, <2>1 DEF IsAlong
<1>5. ASSUME NEW x \in S, x = l[k + 1] PROVE IsAlong(Append(a, x), l, k + 1)
  <2> DEFINE b == Append(a, x)
             q == [i \in 1..n + 1 |-> IF i = n + 1 THEN k + 1 ELSE place[i]]
  <2>1. /\ b \in Seq(S) /\ Len(b) = n + 1 /\ b[n + 1] = x /\ \A i \in 1..n : b[i] = a[i]
    OBVIOUS
  <2> HIDE DEF b, n
  <2>2. DOMAIN b = 1..n + 1 /\ b # << >>
    <3>1. DOMAIN b = 1..n + 1
      BY <2>1, LenProperties
    <3> QED
      BY <1>2, <2>1, EmptySeq
  <2>3. \A i \in 1..n + 1 : i \in 1..n \/ i = n + 1
    BY <1>2
  <2>4. /\ \A i \in 1..n : q[i] = place[i] /\ place[i] \in 1..k /\ i \in 1..n + 1
        /\ q[n + 1] = k + 1 /\ n + 1 \in 1..n + 1
    BY <1>1, <1>2
  <2>5. q \in [DOMAIN b -> 1..k + 1]
    <3>1. ASSUME NEW i \in 1..n + 1 PROVE (IF i = n + 1 THEN k + 1 ELSE place[i]) \in 1..k + 1
      <4>1. CASE i = n + 1
        BY <1>3, <4>1
      <4>2. CASE i # n + 1
        <5>1. place[i] \in 1..k
          BY <2>3, <2>4, <4>2
        <5> QED
          BY <1>3, <4>2, <5>1
      <4> QED
        BY <4>1, <4>2
    <3> QED
      BY <2>2, <3>1
  <2> HIDE DEF q
  <2>6. q[1] = 1
    BY <1>1, <1>2, <2>4
  <2>7. \A i, j \in DOMAIN b : i < j => q[i] < q[j]
    <3>1. ASSUME NEW i \in DOMAIN b, NEW j \in DOMAIN b, i < j PROVE q[i] < q[j]
      <4>1. i \in 1..n /\ q[i] = place[i] /\ place[i] \in 1..k
        BY <1>2, <2>2, <2>4, <3>1
      <4>2. CASE j \in 1..n
        BY <1>1, <1>2, <2>4, <3>1, <4>1, <4>2
      <4>3. CASE j = n + 1
        BY <1>3, <2>4, <4>1, <4>3
      <4> QED
        BY <2>2, <2>3, <4>2, <4>3
    <3> QED
      BY <3>1
  <2>8. \A i \in DOMAIN b : b[i] = l[q[i]]
    <3>1. ASSUME NEW i \in DOMAIN b PROVE b[i] = l[q[i]]
      <4>1. CASE i \in 1..n
        BY <1>1, <1>2, <2>1, <2>4, <4>1
      <4>2. CASE i = n + 1
        BY <1>5, <2>1, <2>4, <4>2
      <4> QED
        BY <2>2, <2>3, <4>1, <4>2
    <3> QED
      BY <3>1
  <2>9. IsAlong(b, l, k + 1)
    BY <2>2, <2>5, <2>6, <2>7, <2>8 DEF IsAlong
  <2> QED
    BY <2>9 DEF b
<1> QED
  BY <1>3, <1>4, <1>5

Appending(r) == stage[r] = "append"
OneAppends == \A q, r \in Requests : Appending(q) /\ Appending(r) => q = r
\* What request r has still to append is the end of what was given last.
Rest(r) ==
    LET k == Len(last) - Len(plan[r])
    IN  IsAlong(autopilot, last, k) /\ \A i \in DOMAIN plan[r] : plan[r][i] = last[k + i]
Arrived == autopilot = last \/ IsAlong(autopilot, last, Len(last))
OneCourse ==
    /\ OneAppends
    /\ \A r \in Requests : Appending(r) => Rest(r)
    /\ (\A r \in Requests : ~Appending(r)) => Arrived

\* CourseInv, part by part.
LEMMA CourseParts == CourseInv <=> PlansAhead /\ (mixed \/ OneCourse)
  BY DEF CourseInv, PlansAhead, OneCourse, OneAppends, Appending, Rest, Arrived, Along, IsAlong

\* Every step keeps what CourseInv says of the autopilot.
LEMMA CourseStep ==
    ASSUME PlannerTypeOK, PlansAhead, mixed \/ OneCourse, PlannerNext
    PROVE  mixed' \/ OneCourse'
<1> USE TypedParts
<1>1. CASE ClearRoute
  <2>1. CASE \E q \in Requests : Appending(q)
    BY <1>1, <2>1 DEF ClearRoute, Give, Appending
  <2>2. CASE \A q \in Requests : ~Appending(q)
    <3>1. \A q \in Requests : ~Appending(q)'
      BY <1>1, <2>2 DEF ClearRoute, Appending, requests
    <3>2. autopilot' = last'
      BY <1>1 DEF ClearRoute, Give
    <3> QED
      BY <3>1, <3>2 DEF OneCourse, OneAppends, Arrived
  <2> QED
    BY <2>1, <2>2
<1>2. ASSUME NEW r \in Requests, SetFirst(r) PROVE mixed' \/ OneCourse'
  <2> DEFINE d == plan[r]
  <2>1. /\ d \in Seq(Destination) /\ d # << >> /\ stage[r] = "set"
        /\ autopilot' = <<Head(d)>> /\ last' = d
        /\ mixed' = \E q \in Requests : Appending(q)
    BY <1>2 DEF RequestsTyped, PlansAhead, SetFirst, Give, Appending
  <2>2. CASE \E q \in Requests : Appending(q)
    BY <2>1, <2>2
  <2>3. CASE \A q \in Requests : ~Appending(q)
    <3>1. \A q \in Requests : q # r => ~Appending(q)'
      BY <1>2, <2>3, OwnRequestOnly DEF RouteStep, Appending
    <3>2. IsAlong(autopilot', last', 1)
      BY <2>1, AlongFirst
    <3>3. CASE Len(d) = 1
      <4>1. ~Appending(r)'
        BY <1>2, <3>3 DEF SetFirst, Forget, GoesTo, RequestsTyped, Appending
      <4> QED
        BY <2>1, <3>1, <3>2, <3>3, <4>1 DEF OneCourse, OneAppends, Arrived
    <3>4. CASE Len(d) # 1
      <4>1. plan'[r] = Tail(d)
        BY <1>2, <3>4 DEF SetFirst, RequestsTyped
      <4>2. Len(Tail(d)) = Len(d) - 1 /\ \A i \in 1..Len(Tail(d)) : Tail(d)[i] = d[i + 1]
            /\ Tail(d) \in Seq(Destination) /\ Len(d) \in Nat
        BY <2>1, HeadTailProperties, LenProperties
      <4> DEFINE t == Tail(d)
      <4>3. DOMAIN t = 1..Len(t) /\ Len(d) - Len(t) = 1
        BY <4>2, LenProperties
      <4>4. \A i \in DOMAIN t : t[i] = d[1 + i]
        BY <4>2, <4>3
      <4> HIDE DEF t, d
      <4>5. Rest(r)'
        <5>1. plan'[r] = t
          BY <4>1 DEF t
        <5> QED
          BY <2>1, <3>2, <4>3, <4>4, <5>1 DEF Rest
      <4>6. OneAppends'
        BY <3>1 DEF OneAppends
      <4>7. Appending(r)'
        BY <1>2, <3>4 DEF SetFirst, GoesTo, RequestsTyped, Appending, d
      <4> QED
        BY <3>1, <4>5, <4>6, <4>7 DEF OneCourse
    <3> QED
      BY <3>3, <3>4
  <2> QED
    BY <2>2, <2>3
<1>3. ASSUME NEW r \in Requests, AppendNext(r) PROVE mixed' \/ OneCourse'
  <2> DEFINE d == plan[r]
             k == Len(last) - Len(d)
  <2>1. /\ d \in Seq(Destination) /\ d # << >> /\ Appending(r)
        /\ autopilot \in Seq(Destination) /\ last \in Seq(Destination)
        /\ UNCHANGED <<last, mixed>>
    BY <1>3 DEF RequestsTyped, CourseTyped, PlansAhead, AppendNext, Appending
  <2>2. CASE mixed
    BY <2>1, <2>2
  <2>3. CASE ~mixed
    <3>1. \A q \in Requests : q # r => ~Appending(q) /\ ~Appending(q)'
      <4>1. \A q \in Requests : q # r => ~Appending(q)
        BY <2>1, <2>3 DEF OneCourse, OneAppends
      <4> QED
        BY <1>3, <4>1, OwnRequestOnly DEF RouteStep, Appending
    <3>2. IsAlong(autopilot, last, k) /\ \A i \in DOMAIN d : d[i] = last[k + i]
      BY <2>1, <2>3 DEF OneCourse, Rest
    <3>3. Len(d) \in Nat \ {0} /\ Len(last) \in Nat /\ k \in Int /\ DOMAIN d = 1..Len(d)
      <4>1. Len(d) \in Nat \ {0} /\ Len(last) \in Nat /\ DOMAIN d = 1..Len(d)
        BY <2>1, LenProperties, EmptySeq
      <4> QED
        BY <4>1
    <3>4. Head(d) \in Destination /\ Head(d) = last[k + 1]
      <4>1. 1 \in DOMAIN d /\ Head(d) = d[1]
        BY <2>1, <3>3
      <4>2. Head(d) \in Destination
        BY <2>1, HeadTailProperties
      <4> QED
        BY <3>2, <4>1, <4>2
    <3>5. IsAlong(autopilot', last', k + 1)
      <4> HIDE DEF d, k
      <4>1. k + 1 \in Int /\ k =< k + 1
        BY <3>3
      <4>2. IsAlong(autopilot, last, k + 1) /\ IsAlong(Append(autopilot, Head(d)), last, k + 1)
        BY <2>1, <3>2, <3>3, <3>4, <4>1, AlongMore
      <4>3. autopilot' = Append(autopilot, Head(d)) \/ autopilot' = autopilot
        BY <1>3 DEF AppendNext, d
      <4> QED
        BY <2>1, <4>2, <4>3
    <3>6. CASE Len(d) = 1
      <4>1. ~Appending(r)'
        BY <1>3, <3>6 DEF AppendNext, Forget, GoesTo, RequestsTyped, Appending
      <4>2. k + 1 = Len(last')
        BY <2>1, <3>3, <3>6
      <4>3. IsAlong(autopilot', last', Len(last'))
        BY <3>5, <4>2
      <4> QED
        BY <3>1, <4>1, <4>3 DEF OneCourse, OneAppends, Arrived
    <3>7. CASE Len(d) # 1
      <4>1. plan'[r] = Tail(d) /\ UNCHANGED stage
        BY <1>3, <3>7 DEF AppendNext, RequestsTyped
      <4> DEFINE t == Tail(d)
      <4>2. Len(t) = Len(d) - 1 /\ (\A i \in 1..Len(t) : t[i] = d[i + 1]) /\ t \in Seq(Destination)
        BY <2>1, HeadTailProperties
      <4>3. DOMAIN t = 1..Len(t) /\ Len(t) \in Nat
        BY <4>2, LenProperties
      <4> HIDE DEF t, d
      <4>4. Len(last) - Len(t) = k + 1
        BY <3>3, <4>2
      <4> HIDE DEF k
      <4>5. \A i \in DOMAIN t : t[i] = last[(k + 1) + i]
        <5>1. ASSUME NEW i \in DOMAIN t PROVE t[i] = last[(k + 1) + i]
          <6>1. t[i] = d[i + 1] /\ i + 1 \in DOMAIN d /\ k + (i + 1) = (k + 1) + i
            BY <3>3, <4>2, <4>3
          <6> QED
            BY <3>2, <6>1
        <5> QED
          BY <5>1
      <4>6. Rest(r)'
        <5>1. plan'[r] = t
          BY <4>1 DEF t
        <5>2. Len(last') - Len(plan'[r]) = k + 1
          BY <2>1, <4>4, <5>1
        <5> QED
          BY <2>1, <3>5, <4>5, <5>1, <5>2 DEF Rest
      <4>7. OneAppends' /\ Appending(r)'
        BY <2>1, <3>1, <4>1 DEF OneAppends, Appending
      <4> QED
        BY <3>1, <4>6, <4>7 DEF OneCourse
    <3> QED
      BY <3>6, <3>7
  <2> QED
    BY <2>2, <2>3
<1>4. ASSUME UNCHANGED course,
             \A q \in Requests : (Appending(q)' <=> Appending(q)) /\ (Appending(q) => plan'[q] = plan[q])
      PROVE  mixed' \/ OneCourse'
  <2>1. CASE mixed
    BY <1>4, <2>1 DEF course
  <2>2. CASE OneCourse
    <3>1. OneAppends'
      BY <1>4, <2>2 DEF OneCourse, OneAppends
    <3>2. \A r \in Requests : Appending(r) => Rest(r)'
      BY <1>4, <2>2 DEF OneCourse, Rest, course
    <3>3. Arrived => Arrived'
      BY <1>4 DEF Arrived, course
    <3> QED
      BY <1>4, <2>2, <3>1, <3>2, <3>3 DEF OneCourse
  <2> QED
    BY <2>1, <2>2
<1>5. CASE ChangeBridges \/ ChangeOther \/ Expire
  <2>1. UNCHANGED course /\ UNCHANGED requests
    BY <1>5 DEF ChangeBridges, ChangeOther, Expire
  <2> QED
    BY <1>4, <2>1 DEF requests, Appending
<1>6. ASSUME NEW r \in Requests, RouteStep(r), ~SetFirst(r), ~AppendNext(r)
      PROVE  mixed' \/ OneCourse'
  <2>1. UNCHANGED course /\ stage[r] # "append"
    BY <1>6 DEF RouteStep, Ask, EnsureGraph, LoadBridges, BuildGraph, StoreHash, RebuildFails, Search, LookUp,
           SetFails
  <2>2. stage'[r] # "append"
    <3>1. CASE Forget(r)
      BY <3>1 DEF Forget, GoesTo, RequestsTyped
    <3>2. CASE ~Forget(r)
      BY <1>6, <3>2 DEF RouteStep, Ask, EnsureGraph, LoadBridges, BuildGraph, StoreHash, RebuildFails, Search,
             LookUp, SetFails, GoesTo, RequestsTyped
    <3> QED
      BY <3>1, <3>2
  <2>3. \A q \in Requests : (Appending(q)' <=> Appending(q)) /\ (Appending(q) => plan'[q] = plan[q])
    BY <1>6, <2>1, <2>2, OwnRequestOnly DEF Appending
  <2> QED
    BY <1>4, <2>1, <2>3
<1> QED
  BY <1>1, <1>2, <1>3, <1>5, <1>6 DEF PlannerNext

\* CourseInv: what is still to be appended is the end of what was given last
\* (setRouteWaypoints, appendRouteWaypoints).
LEMMA CourseHolds == PlannerSpec => []CourseInv
<1>1. PlannerInit => OneCourse
  <2> SUFFICES ASSUME PlannerInit PROVE OneCourse
    OBVIOUS
  <2>1. autopilot = last /\ \A r \in Requests : ~Appending(r)
    BY DEF PlannerInit, Appending
  <2> QED
    BY <2>1 DEF OneCourse, OneAppends, Arrived
<1>2. PlannerTypeOK /\ PlansAhead /\ (mixed \/ OneCourse) /\ [PlannerNext]_plannerVars
      => (mixed \/ OneCourse)'
  <2> SUFFICES ASSUME PlannerTypeOK, PlansAhead, mixed \/ OneCourse, [PlannerNext]_plannerVars
               PROVE  mixed' \/ OneCourse'
    OBVIOUS
  <2>1. CASE PlannerNext
    BY <2>1, CourseStep
  <2>2. CASE UNCHANGED plannerVars
    <3>1. UNCHANGED <<mixed, autopilot, last, stage, plan>>
      BY <2>2 DEF plannerVars, course, requests
    <3>2. OneCourse => OneCourse'
      BY <3>1 DEF OneCourse, OneAppends, Appending, Rest, Arrived
    <3> QED
      BY <3>1, <3>2
  <2> QED
    BY <2>1, <2>2
<1> QED
  BY <1>1, <1>2, PlannerTypes, CourseParts, PTL DEF PlannerSpec

\* AutopilotHoldsOneRoute: what the autopilot holds are destinations given last, in their
\* order and with the first of them, unless destinations of an earlier route were still to
\* come when they were given (setRouteWaypoints, ClearRoute).
THEOREM OneRoute == PlannerSpec => []AutopilotHoldsOneRoute
<1>1. PlannerTypeOK /\ CourseInv => AutopilotHoldsOneRoute
  <2> USE CourseParts
  <2> SUFFICES ASSUME PlannerTypeOK, OneCourse, autopilot # last
               PROVE  \E place \in [DOMAIN autopilot -> DOMAIN last] :
                         /\ autopilot # << >> /\ place[1] = 1
                         /\ \A i, j \in DOMAIN autopilot : i < j => place[i] < place[j]
                         /\ \A i \in DOMAIN autopilot : autopilot[i] = last[place[i]]
    BY DEF AutopilotHoldsOneRoute
  <2>1. last \in Seq(Destination) /\ DOMAIN last = 1..Len(last) /\ Len(last) \in Nat
    <3>1. last \in Seq(Destination)
      BY DEF PlannerTypeOK
    <3> QED
      BY <3>1, LenProperties
  <2>2. IsAlong(autopilot, last, Len(last))
    <3>1. CASE \A r \in Requests : ~Appending(r)
      BY <3>1 DEF OneCourse, Arrived
    <3>2. ASSUME NEW r \in Requests, Appending(r) PROVE IsAlong(autopilot, last, Len(last))
      <4> DEFINE k == Len(last) - Len(plan[r])
      <4>1. IsAlong(autopilot, last, k)
        BY <3>2 DEF OneCourse, Rest
      <4>2. plan[r] \in Seq(Destination) /\ autopilot \in Seq(Destination)
        BY DEF PlannerTypeOK
      <4>3. k \in Int /\ k =< Len(last)
        BY <2>1, <4>2, LenProperties
      <4> HIDE DEF k
      <4> QED
        BY <2>1, <4>1, <4>2, <4>3, AlongMore
    <3> QED
      BY <3>1, <3>2
  <2> QED
    BY <2>1, <2>2 DEF IsAlong
<1> QED
  BY <1>1, PlannerTypes, CourseHolds, PTL

\* PlannerInv: types, the graph's age, legs and course together, which every handler and
\* rebuild keeps (Route, ClearRoute, populateGraph).
THEOREM PlannerInvariant == PlannerSpec => []PlannerInv
<1>1. PlannerTypeOK /\ LegInv /\ RecentInv /\ CourseInv => PlannerInv
  BY DEF PlannerInv
<1> QED
  BY <1>1, PlannerTypes, RecentHolds, CourseHolds, PTL
==============================================================================
