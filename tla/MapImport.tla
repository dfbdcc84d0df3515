------------------------------ MODULE MapImport ------------------------------
(***************************************************************************)
(* The import of the map (backend/internal/mapdata): the files of the      *)
(* game's static data become rows, and layouts are drawn from the rows.    *)
(*                                                                         *)
(* What was done is remembered in sde_meta: the hash of every file that    *)
(* was imported, and the ETag of the archive.  Both let a later run skip   *)
(* its work, the layouts among it when all files are skipped.  Runs are    *)
(* not unique: the one at the start of the process, the one of every six   *)
(* hours and an administrator's, of all steps or of one, may overlap.      *)
(*                                                                         *)
(* A file has a first and a last row, so that an import may stop, or meet  *)
(* another, in between.  A row that is there is overwritten (of the gates, *)
(* which are only ever added, a row is one the release adds).              *)
(***************************************************************************)
EXTENDS Naturals, Sequences, SequencesExt

CONSTANTS
    Topology,   \* files of the import proper, in their order
    Optional,   \* files that are fetched again afterwards, in their order
    Systems,    \* the file of Topology whose import clears the layouts
    Early,      \* layouts drawn before the optional files
    Late,       \* layouts drawn after them
    Pipelines,  \* runs that may overlap
    Changes,    \* bound: what a release may change, sets of files
    MaxRelease, \* bound: releases of the static data
    MaxAdmin,   \* bound: runs an administrator starts
    MaxFaults   \* bound: failures and crashes

Files == Range(Topology \o Optional)
Layouts == Range(Early \o Late)

ASSUME MapAssumption ==
    /\ \A s \in {Topology, Optional, Early, Late} : s \in Seq(Range(s))
    /\ Systems \in Range(Topology) /\ Range(Topology) \cap Range(Optional) = {}
    /\ Files \cap Layouts = {} /\ "meta" \notin Files \cup Layouts
    /\ Changes \subseteq SUBSET Files
    /\ {MaxRelease, MaxAdmin, MaxFaults} \subseteq Nat /\ MaxRelease > 0

VARIABLES
    releases,   \* releases[k][f]: the version of file f in release k
    rows,       \* rows[f]: the versions of the first and the last row of f, or 0
    hash,       \* hash[f]: the version whose hash is stored, or 0
    etag,       \* the release whose ETag is stored, or 0
    updated,    \* last_sde_update is stored
    fresh,      \* layouts drawn from the systems as they are
    kind,       \* kind[p]: what started run p
    pc,         \* pc[p]: where it stands
    queue,      \* queue[p]: what it has still to do
    tag,        \* tag[p]: the release whose ETag it has, or 0
    got,        \* got[p]: the files it downloaded
    wrote,      \* wrote[p]: it did not skip every file so far
    sharp,      \* runs that drew from systems no import has written since
    admin, faults,  \* what the bounds count
    raced,      \* history: files of which two runs wrote different versions at once, or
                \* an older version over a newer one
    left        \* history: layouts and optional files a run left undone

memory == <<hash, etag, updated>>
tables == <<rows, fresh>>
runs == <<kind, pc, queue, tag, got, wrote>>
counts == <<admin, faults>>
history == <<raced, left>>
vars == <<releases, memory, tables, runs, sharp, counts, history>>

Latest == Len(releases)
Archive == releases[Latest]
Never == [f \in Files |-> 0]

Init ==
    /\ releases = <<[f \in Files |-> 1]>>
    /\ rows = [f \in Files |-> <<0, 0>>]
    /\ hash = Never /\ etag = 0 /\ updated = FALSE
    /\ fresh = {}
    /\ kind = [p \in Pipelines |-> "none"]
    /\ pc = [p \in Pipelines |-> "idle"]
    /\ queue = [p \in Pipelines |-> << >>]
    /\ tag = [p \in Pipelines |-> 0]
    /\ got = [p \in Pipelines |-> Never]
    /\ wrote = [p \in Pipelines |-> FALSE]
    /\ sharp = {}
    /\ admin = 0 /\ faults = 0
    /\ raced = {} /\ left = {}

Fault == faults < MaxFaults /\ faults' = faults + 1
Goto(p, l) == pc' = [pc EXCEPT ![p] = l]
Item(p) == Head(queue[p])
At(p, l, items) == pc[p] = l /\ queue[p] # << >> /\ Item(p) \in items

\* A release changes some of the files.
Publish ==
    /\ Latest < MaxRelease
    /\ \E changed \in Changes :
          releases' = Append(releases, [f \in Files |-> IF f \in changed THEN Latest + 1 ELSE Archive[f]])
    /\ UNCHANGED <<memory, tables, runs, sharp, counts, history>>

-----------------------------------------------------------------------------
(* Starts *)

Pipeline == Topology \o <<"meta">> \o Early \o Optional \o Late

Start(p, k, l, work) ==
    /\ pc[p] = "idle"
    /\ kind' = [kind EXCEPT ![p] = k]
    /\ Goto(p, l)
    /\ queue' = [queue EXCEPT ![p] = work]
    /\ UNCHANGED <<releases, memory, tables, tag, got, wrote, sharp, faults, history>>

\* At the start of the process and every six hours.
StartUpdate(p) == Start(p, "update", "check", Pipeline) /\ UNCHANGED admin

\* An administrator runs everything, the import alone, one optional file or one layout.
\* (The item types, of Topology, have a run of their own like an optional file's.)
StartByAdmin(p) ==
    /\ admin < MaxAdmin /\ admin' = admin + 1
    /\ \/ Start(p, "forced", "tag", Pipeline)
       \/ Start(p, "import", "tag", Topology \o <<"meta">>)
       \/ \E f \in Range(Optional) : Start(p, "one", "refetch", <<f>>)
       \/ \E l \in Layouts : Start(p, "one", "next", <<l>>)

-----------------------------------------------------------------------------
(* ShouldUpdateSDE, and the download *)

Stops(p) ==
    /\ kind' = [kind EXCEPT ![p] = "none"]
    /\ Goto(p, "idle")
    /\ queue' = [queue EXCEPT ![p] = << >>]
    /\ tag' = [tag EXCEPT ![p] = 0]
    /\ got' = [got EXCEPT ![p] = Never]
    /\ wrote' = [wrote EXCEPT ![p] = FALSE]

\* Mutant: the ETag is not compared.
CheckOnce(p) ==
    /\ pc[p] = "check"
    /\ IF ~updated
         THEN /\ tag' = [tag EXCEPT ![p] = Latest]
              /\ Goto(p, "download")
              /\ UNCHANGED <<kind, queue, got, wrote>>
         ELSE Stops(p)
    /\ UNCHANGED <<releases, memory, tables, sharp, counts, history>>

\* The archive has another ETag than is stored, or nothing was ever imported.
Check(p) ==
    /\ pc[p] = "check"
    /\ IF etag # Latest \/ ~updated
         THEN /\ tag' = [tag EXCEPT ![p] = Latest]
              /\ Goto(p, "download")
              /\ UNCHANGED <<kind, queue, got, wrote>>
         ELSE Stops(p)
    /\ UNCHANGED <<releases, memory, tables, sharp, counts, history>>

\* The ETag cannot be had: the update goes on if the last one is a day old.
CheckFails(p) ==
    /\ pc[p] = "check" /\ Fault
    /\ \/ Goto(p, "tag") /\ UNCHANGED <<kind, queue, tag, got, wrote>>
       \/ updated /\ Stops(p)
    /\ UNCHANGED <<releases, memory, tables, sharp, admin, history>>

\* The ETag of a run that has none; the run goes on without if it cannot be had.
FetchTag(p) ==
    /\ pc[p] = "tag"
    /\ Goto(p, "download")
    /\ \/ tag' = [tag EXCEPT ![p] = Latest] /\ UNCHANGED faults
       \/ Fault /\ UNCHANGED tag
    /\ UNCHANGED <<releases, memory, tables, kind, queue, got, wrote, sharp, admin, history>>

Download(p) ==
    /\ pc[p] = "download"
    /\ got' = [got EXCEPT ![p] = Archive]
    /\ Goto(p, "next")
    /\ UNCHANGED <<releases, memory, tables, kind, queue, tag, wrote, sharp, counts, history>>

-----------------------------------------------------------------------------
(* importJSONLIfChanged *)

\* The run goes on with the rest of its work, or it is done.
GoOn(p, w) ==
    IF Len(queue[p]) = 1
      THEN Stops(p)
      ELSE /\ queue' = [queue EXCEPT ![p] = Tail(@)]
           /\ Goto(p, "next")
           /\ wrote' = [wrote EXCEPT ![p] = w]
           /\ tag' = IF Item(p) = "meta" THEN [tag EXCEPT ![p] = 0] ELSE tag
           /\ got' = IF Item(p) \in Files THEN [got EXCEPT ![p][Item(p)] = 0] ELSE got
           /\ UNCHANGED kind

\* Mutant: the last file alone says whether all were skipped.
SkipFileAndForget(p) ==
    /\ At(p, "next", Range(Topology)) /\ hash[Item(p)] = got[p][Item(p)]
    /\ GoOn(p, FALSE)
    /\ UNCHANGED <<releases, memory, tables, sharp, counts, history>>

SkipFile(p) ==
    /\ At(p, "next", Range(Topology)) /\ hash[Item(p)] = got[p][Item(p)]
    /\ GoOn(p, wrote[p])
    /\ UNCHANGED <<releases, memory, tables, sharp, counts, history>>

\* Another run is writing another version of the file, or has written a newer one.
Races(p, f) ==
    \/ \E q \in Pipelines \ {p} : At(q, "write", {f}) /\ got[q][f] # got[p][f]
    \/ \E i \in 1..2 : rows[f][i] > got[p][f]

\* One row of the file is written; that of a system loses its coordinates.
WriteRow(p, i) ==
    LET f == Item(p)
    IN  /\ rows' = [rows EXCEPT ![f][i] = got[p][f]]
        /\ IF f = Systems
             THEN /\ fresh' = {} /\ sharp' = {}
                  /\ left' = IF kind[p] = "import" THEN left \cup Layouts ELSE left
             ELSE UNCHANGED <<fresh, sharp, left>>
        /\ raced' = IF Races(p, f) THEN raced \cup {f} ELSE raced

WriteFirst(p) ==
    /\ \/ At(p, "next", Range(Topology)) /\ hash[Item(p)] # got[p][Item(p)]
       \/ pc[p] = "fetched"
    /\ WriteRow(p, 1)
    /\ Goto(p, "write")
    /\ UNCHANGED <<releases, memory, kind, queue, tag, got, wrote, counts>>

\* The last row, and the hash; a failure to store it is only logged.
\* (A crash between the two leaves what such a failure leaves.)
WriteLast(p) ==
    /\ pc[p] = "write"
    /\ WriteRow(p, 2)
    /\ \/ hash' = [hash EXCEPT ![Item(p)] = got[p][Item(p)]] /\ UNCHANGED faults
       \/ Fault /\ UNCHANGED hash
    /\ GoOn(p, TRUE)
    /\ UNCHANGED <<releases, etag, updated, admin>>

\* Mutant: the ETag is asked for when the files are in.
SaveMetaOfNow(p) ==
    /\ At(p, "next", {"meta"})
    /\ updated' = TRUE /\ etag' = Latest
    /\ left' = IF kind[p] = "import" THEN left \cup Range(Optional) ELSE left
    /\ GoOn(p, wrote[p])
    /\ UNCHANGED <<releases, hash, tables, sharp, counts, raced>>

\* All files are in: the time and the ETag are stored, failures are ignored.
SaveMeta(p) ==
    /\ At(p, "next", {"meta"})
    /\ \/ updated' = TRUE /\ etag' = (IF tag[p] = 0 THEN etag ELSE tag[p]) /\ UNCHANGED faults
       \/ Fault /\ updated' = TRUE /\ UNCHANGED etag
       \/ Fault /\ etag' = (IF tag[p] = 0 THEN etag ELSE tag[p]) /\ UNCHANGED updated
    /\ left' = IF kind[p] = "import" THEN left \cup Range(Optional) ELSE left
    /\ GoOn(p, wrote[p])
    /\ UNCHANGED <<releases, hash, tables, sharp, admin, raced>>

-----------------------------------------------------------------------------
(* Optional files: the archive is fetched twice for each, to compare and to import it *)

CompareOptional(p) ==
    /\ At(p, "next", Range(Optional))
    /\ IF hash[Item(p)] = Archive[Item(p)]
         THEN GoOn(p, wrote[p])
         ELSE Goto(p, "refetch") /\ UNCHANGED <<kind, queue, tag, got, wrote>>
    /\ UNCHANGED <<releases, memory, tables, sharp, counts, history>>

FetchOptional(p) ==
    /\ pc[p] = "refetch"
    /\ IF hash[Item(p)] = Archive[Item(p)]
         THEN GoOn(p, wrote[p])
         ELSE /\ got' = [got EXCEPT ![p][Item(p)] = Archive[Item(p)]]
              /\ Goto(p, "fetched")
              /\ UNCHANGED <<kind, queue, tag, wrote>>
    /\ UNCHANGED <<releases, memory, tables, sharp, counts, history>>

-----------------------------------------------------------------------------
(* Layouts *)

\* topologyUnchanged: every file was skipped.
Skips(p) == kind[p] \in {"update", "forced"} /\ ~wrote[p]

SkipLayout(p) ==
    /\ At(p, "next", Layouts) /\ Skips(p)
    /\ GoOn(p, wrote[p])
    /\ UNCHANGED <<releases, memory, tables, sharp, counts, history>>

LoadLayout(p) ==
    /\ At(p, "next", Layouts) /\ ~Skips(p)
    /\ sharp' = sharp \cup {p}
    /\ Goto(p, "drawn")
    /\ UNCHANGED <<releases, memory, tables, kind, queue, tag, got, wrote, counts, history>>

\* The positions are saved.  Dotlan's may lack regions that failed, which is no error.
SaveLayout(p) ==
    /\ pc[p] = "drawn"
    /\ \/ fresh' = (IF p \in sharp THEN fresh \cup {Item(p)} ELSE fresh) /\ UNCHANGED <<faults, left>>
       \/ Fault /\ left' = left \cup {Item(p)} /\ fresh' = fresh \ {Item(p)}
    /\ GoOn(p, wrote[p])
    /\ sharp' = sharp \ {p}
    /\ UNCHANGED <<releases, memory, rows, admin, raced>>

-----------------------------------------------------------------------------
(* Failures *)

\* What nobody does again: the layouts if the systems may have been written, the
\* optional files if the ETag may have been stored.
Undone(p) ==
    (IF kind[p] \in {"update", "forced"} THEN Layouts \cup Range(Optional) ELSE {})
       \cap Range(queue[p])

\* A step fails or is canceled, and the run with it.
Fails(p) ==
    /\ pc[p] # "idle" /\ Fault
    /\ left' = left \cup Undone(p)
    /\ Stops(p)
    /\ sharp' = sharp \ {p}
    /\ UNCHANGED <<releases, memory, tables, admin, raced>>

Crash ==
    /\ Fault
    /\ left' = left \cup UNION {Undone(p) : p \in Pipelines}
    /\ kind' = [p \in Pipelines |-> "none"]
    /\ pc' = [p \in Pipelines |-> "idle"]
    /\ queue' = [p \in Pipelines |-> << >>]
    /\ tag' = [p \in Pipelines |-> 0]
    /\ got' = [p \in Pipelines |-> Never]
    /\ wrote' = [p \in Pipelines |-> FALSE]
    /\ sharp' = {}
    /\ UNCHANGED <<releases, memory, tables, admin, raced>>

-----------------------------------------------------------------------------
Step(p) ==
    \/ Check(p) \/ FetchTag(p) \/ Download(p)
    \/ SkipFile(p) \/ WriteFirst(p) \/ WriteLast(p) \/ SaveMeta(p)
    \/ CompareOptional(p) \/ FetchOptional(p)
    \/ SkipLayout(p) \/ LoadLayout(p) \/ SaveLayout(p)

Next ==
    \/ Publish \/ Crash
    \/ \E p \in Pipelines : StartUpdate(p) \/ StartByAdmin(p) \/ CheckFails(p) \/ Step(p) \/ Fails(p)

Spec == Init /\ [][Next]_vars

\* The cron starts an update again and again, and a run goes on while nothing fails.
FairSpec == Spec /\ \A p \in Pipelines : WF_vars(StartUpdate(p)) /\ WF_vars(Step(p))

-----------------------------------------------------------------------------
(* Properties *)

\* What lets a later run skip its work is never ahead of the work: no hash stands for
\* rows that are not in, and no ETag for a release of which a file is not, unless two
\* runs wrote the file against each other (importJSONLIfChanged,
\* DownloadAndImportWithReport).
MarksAreNotAhead ==
    \A f \in Files \ raced : \A i \in 1..2 :
       /\ rows[f][i] >= hash[f]
       /\ etag # 0 /\ f \in Range(Topology) => rows[f][i] >= releases[etag][f]

ToDo(p) == IF Skips(p) /\ "meta" \notin Range(queue[p]) THEN Range(Optional) ELSE Files \cup Layouts
InHand(x) == \E p \in Pipelines : x \in Range(queue[p]) \cap ToDo(p)

\* Once systems are in, every layout is drawn from them or will be by a run under way,
\* and once an ETag is stored every optional file of that release is in or will be,
\* unless a run was stopped before it came to it, drew it in part, or was an
\* administrator's import alone: nothing else ever makes up for it
\* (runMapDataPipeline, allSDEFilesSkipped, ShouldUpdateSDE).
LeftBehindHasACause ==
    /\ \A l \in Layouts : rows[Systems] # <<0, 0>> => l \in fresh \cup left \/ InHand(l)
    /\ \A f \in Range(Optional) \ (left \cup raced) :
          etag # 0 => InHand(f) \/ \A i \in 1..2 : rows[f][i] >= releases[etag][f]

\* Whatever failed, overlapped or was lost, every release is taken up in the end: the
\* ETag of the latest comes to be stored (the update of every six hours).
ReleasesComeIn == <>[](etag = Latest)

-----------------------------------------------------------------------------
(* Types and the inductive invariant *)

Updates == {"update", "forced"}
Places == {"idle", "check", "tag", "download", "next", "write", "refetch", "fetched", "drawn"}
Before == {"check", "tag", "download"}

TypeOK ==
    /\ releases \in Seq([Files -> Nat]) /\ releases # << >>
    /\ rows \in [Files -> [1..2 -> Nat]] /\ hash \in [Files -> Nat]
    /\ etag \in 0..Latest /\ updated \in BOOLEAN
    /\ fresh \subseteq Layouts /\ sharp \subseteq Pipelines
    /\ kind \in [Pipelines -> {"none", "import", "one"} \cup Updates]
    /\ pc \in [Pipelines -> Places]
    /\ queue \in [Pipelines -> Seq(Files \cup Layouts \cup {"meta"})]
    /\ tag \in [Pipelines -> 0..Latest]
    /\ got \in [Pipelines -> [Files -> Nat]]
    /\ wrote \in [Pipelines -> BOOLEAN]
    /\ admin \in Nat /\ faults \in Nat
    /\ raced \subseteq Files /\ left \subseteq Files \cup Layouts

\* A file's version is never below that of an earlier release.
ReleasesInv ==
    \A f \in Files : /\ Archive[f] <= Latest
                     /\ \A k \in 1..Latest : releases[k][f] <= Archive[f]

\* What a run of kind k may have left to do: files, "meta", and then the rest.
Work(k, q) ==
    /\ \A i, j \in DOMAIN q : q[j] = "meta" =>
          /\ i < j => q[i] \in Range(Topology)
          /\ i > j => q[i] \notin Range(Topology) \cup {"meta"}
    /\ Range(q) \cap Range(Topology) # {} => "meta" \in Range(q)
    /\ "meta" \in Range(q) => k # "one" /\ (k \in Updates => Layouts \cup Range(Optional) \subseteq Range(q))

\* Where run p may stand.
PlaceInv(p) ==
    /\ IF pc[p] = "idle" THEN kind[p] = "none" /\ queue[p] = << >>
                         ELSE kind[p] # "none" /\ queue[p] # << >>
    /\ Work(kind[p], queue[p])
    /\ pc[p] \in Before => Range(Topology) \cup {"meta"} \subseteq Range(queue[p])
    /\ pc[p] \in Before \cup {"idle"} => ~wrote[p]
    /\ pc[p] = "write" => Item(p) \in Files
    /\ pc[p] \in {"refetch", "fetched"} => Item(p) \in Range(Optional)
    /\ pc[p] = "drawn" => Item(p) \in Layouts

\* What run p has in its hands is no newer than the archive, and what it has written
\* of a file stays.
GotInv(p) ==
    /\ \A f \in Files : got[p][f] <= Archive[f]
    /\ pc[p] = "write" => Item(p) \in raced \/ rows[Item(p)][1] >= got[p][Item(p)]

\* Before it stores the ETag every file of that release is in or is to come.
TagInv(p) ==
    /\ pc[p] \in {"idle", "check", "tag"} => tag[p] = 0
    /\ tag[p] # 0 => "meta" \in Range(queue[p])
    /\ tag[p] # 0 /\ pc[p] \notin Before =>
         \A f \in Range(Topology) \ raced :
            \/ (f \in Range(queue[p]) /\ got[p][f] >= releases[tag[p]][f])
            \/ \A i \in 1..2 : rows[f][i] >= releases[tag[p]][f]

RunInv(p) == PlaceInv(p) /\ GotInv(p) /\ TagInv(p)

\* Run p will draw layout l from the systems as they are, or be marked in left.
WillDraw(p, l) ==
    /\ kind[p] \in Updates /\ l \in Range(queue[p])
    /\ wrote[p] \/ (pc[p] = "write" /\ Item(p) = Systems)
    /\ pc[p] = "drawn" /\ Item(p) = l => p \in sharp

LayoutInv ==
    rows[Systems] # <<0, 0>> =>
        \A l \in Layouts : l \in fresh \cup left \/ \E p \in Pipelines : WillDraw(p, l)

\* Run p will bring optional file f to the release whose ETag is stored.
WillBring(p, f) ==
    /\ kind[p] \in Updates /\ f \in Range(queue[p]) /\ "meta" \notin Range(queue[p])
    /\ pc[p] \in {"fetched", "write"} /\ Item(p) = f => got[p][f] >= releases[etag][f]

OptionalInv ==
    etag # 0 =>
        \A f \in Range(Optional) \ (left \cup raced) :
           \/ \E p \in Pipelines : WillBring(p, f)
           \/ \A i \in 1..2 : rows[f][i] >= releases[etag][f]

IInv ==
    /\ TypeOK /\ ReleasesInv /\ \A p \in Pipelines : RunInv(p)
    /\ MarksAreNotAhead /\ LayoutInv /\ OptionalInv
==============================================================================
