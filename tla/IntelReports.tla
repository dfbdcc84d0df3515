---------------------------- MODULE IntelReports ----------------------------
(***************************************************************************)
(* Submission of intel reports (backend/internal/api/intel/reports.go and  *)
(* backend/internal/intel/intel.go) and the cleanup steps that remove old  *)
(* fingerprints and reports (backend/internal/cleanup).                    *)
(*                                                                         *)
(* Uploaders of several pilots read the same chat channel, so one line is  *)
(* submitted several times.  The backend keeps up to IntelReportHashSlots  *)
(* rows per fingerprint (author and text) in intel_report_hashes, one for  *)
(* each report time, and scans them in order: a row with nearly the same   *)
(* time makes the submission a duplicate, the first empty slot is claimed. *)
(* Query, claim and creation are separate statements and nothing makes     *)
(* (hash, hash_index) unique.                                              *)
(*                                                                         *)
(* Fingerprints do not interact: the module follows the submissions of one *)
(* of them.                                                                *)
(***************************************************************************)
EXTENDS Integers, FiniteSets

CONSTANTS
    Submissions,    \* requests that carry the one fingerprint; a retry is another
    ReportTimes,    \* ReportTimes[q]: times the chat line of q may bear
    Fuzz,           \* reportTimeFuzzSeconds
    MaxSlots        \* reportHashSlots()

ASSUME IntelReportsAssumption ==
    /\ ReportTimes \in [Submissions -> SUBSET Int]
    /\ \A q \in Submissions : ReportTimes[q] # {}
    /\ Fuzz \in Nat
    /\ MaxSlots \in Nat \ {0}

Slots == 1..MaxSlots

VARIABLES
    pc,         \* pc[q]: where the handler of submission q stands
    time,       \* time[q]: the time its chat line bears
    cursor,     \* cursor[q]: the slot ShouldCreateReport looks at
    answer,     \* answer[q]: how the request ended, "none" before
    rows,       \* submissions whose fingerprint row is stored
    slotOf,     \* slotOf[q]: hash_index of the row of q
    expired,    \* submissions whose row is past its expires_at
    feed,       \* submissions whose report is stored
    saw,        \* history: saw[q], the rows stored when q began to scan
    shared,     \* history: slots that held two rows at once
    freed,      \* history: slots the cleanup deleted a row from
    retired,    \* history: submissions whose report was stored and removed
    failed      \* history: submissions whose report could not be stored

request == <<pc, time, cursor, answer, saw>>
table == <<rows, slotOf, expired, shared, freed>>
reports == <<feed, retired, failed>>
vars == <<request, table, reports>>

-----------------------------------------------------------------------------
(* intel.IntelService *)

RowsAt(i) == {x \in rows : slotOf[x] = i}

Distance(s, t) == IF s >= t THEN s - t ELSE t - s

\* Mutant: the window is closed at its end.
SameReportInclusive(x, q) == Distance(time[x], time[q]) =< Fuzz

SameReport(x, q) == Distance(time[x], time[q]) < Fuzz

\* The cursor is local to the scan.
Leave(q) == cursor' = [cursor EXCEPT ![q] = 1]

Answer(q, a) ==
    /\ pc' = [pc EXCEPT ![q] = "done"]
    /\ answer' = [answer EXCEPT ![q] = a]

\* The handler up to ShouldCreateReport.  A request it turns away before (no
\* channel, an unreadable line, no known system) changes nothing and is not one
\* of the submissions.
Submit(q) ==
    /\ pc[q] = "idle"
    /\ \E t \in ReportTimes[q] : time' = [time EXCEPT ![q] = t]
    /\ pc' = [pc EXCEPT ![q] = "scan"]
    /\ saw' = [saw EXCEPT ![q] = rows]
    /\ UNCHANGED <<cursor, answer, table, reports>>

\* A slot holds a row: one of them is returned and decides.
Occupied(q) ==
    \E x \in RowsAt(cursor[q]) :
        \/ SameReport(x, q) /\ Answer(q, "duplicate") /\ Leave(q)
        \/ /\ ~SameReport(x, q)
           /\ cursor[q] < MaxSlots
           /\ cursor' = [cursor EXCEPT ![q] = @ + 1]
           /\ UNCHANGED <<pc, answer>>
        \/ /\ ~SameReport(x, q)
           /\ cursor[q] = MaxSlots
           /\ Answer(q, "full")             \* also a 409 of a duplicate
           /\ Leave(q)

\* One iteration of the loop of ShouldCreateReport; a failing query is a 500.
LookUp(q) ==
    /\ pc[q] = "scan"
    /\ \/ Occupied(q)
       \/ /\ RowsAt(cursor[q]) = {}
          /\ pc' = [pc EXCEPT ![q] = "claim"]
          /\ UNCHANGED <<cursor, answer>>
       \/ Answer(q, "error") /\ Leave(q)
    /\ UNCHANGED <<time, saw, table, reports>>

\* Mutant: the claimed row is stored in the slot after the empty one.
ClaimNextSlot(q) ==
    /\ pc[q] = "claim"
    /\ rows' = rows \cup {q}
    /\ slotOf' = [slotOf EXCEPT ![q] = (cursor[q] % MaxSlots) + 1]
    /\ pc' = [pc EXCEPT ![q] = "create"]
    /\ Leave(q)
    /\ UNCHANGED <<answer, expired, shared, freed, time, saw, reports>>

\* The row is inserted whatever was stored since the query.
Claim(q) ==
    /\ pc[q] = "claim"
    /\ \/ /\ rows' = rows \cup {q}
          /\ slotOf' = [slotOf EXCEPT ![q] = cursor[q]]
          /\ shared' = IF RowsAt(cursor[q]) = {} THEN shared
                       ELSE shared \cup {cursor[q]}
          /\ pc' = [pc EXCEPT ![q] = "create"]
          /\ UNCHANGED <<answer, expired, freed>>
       \/ /\ Answer(q, "error")
          /\ UNCHANGED table
    /\ Leave(q)
    /\ UNCHANGED <<time, saw, reports>>

\* CreateReport; a failure leaves the row behind.
Create(q) ==
    /\ pc[q] = "create"
    /\ \/ /\ feed' = feed \cup {q}
          /\ Answer(q, "created")
          /\ UNCHANGED <<retired, failed>>
       \/ /\ failed' = failed \cup {q}
          /\ Answer(q, "error")
          /\ UNCHANGED <<feed, retired>>
    /\ UNCHANGED <<time, cursor, saw, table>>

-----------------------------------------------------------------------------
(* Time, and the hourly cleanup *)

\* ReportHashExpiry has gone by since the row was stored.
Expire(x) ==
    /\ x \in rows \ expired
    /\ expired' = expired \cup {x}
    /\ UNCHANGED <<request, rows, slotOf, shared, freed, reports>>

\* Mutant: the filter is the wrong way round.
RemoveUnexpired(x) ==
    /\ x \in rows \ expired
    /\ rows' = rows \ {x}
    /\ freed' = freed \cup {slotOf[x]}
    /\ UNCHANGED <<request, slotOf, expired, shared, reports>>

\* RemoveExpired of the fingerprints loads the expired rows and deletes them
\* one by one.  A row never changes and stays expired, so the list it loaded
\* only delays the deletion; one that fails is left to the next hour.
RemoveExpired(x) ==
    /\ x \in rows \cap expired
    /\ rows' = rows \ {x}
    /\ freed' = freed \cup {slotOf[x]}
    /\ UNCHANGED <<request, slotOf, expired, shared, reports>>

\* RemoveOldIntelReports, likewise.  The retention counts from the time the
\* chat line bears, which may have been long ago when it was submitted.
RemoveOldReport(x) ==
    /\ x \in feed
    /\ feed' = feed \ {x}
    /\ retired' = retired \cup {x}
    /\ UNCHANGED <<request, table, failed>>

-----------------------------------------------------------------------------
Init ==
    /\ pc = [q \in Submissions |-> "idle"]
    /\ time = [q \in Submissions |-> CHOOSE t \in ReportTimes[q] : TRUE]
    /\ cursor = [q \in Submissions |-> 1]
    /\ answer = [q \in Submissions |-> "none"]
    /\ rows = {}
    /\ slotOf = [q \in Submissions |-> 1]
    /\ expired = {}
    /\ feed = {}
    /\ saw = [q \in Submissions |-> {}]
    /\ shared = {}
    /\ freed = {}
    /\ retired = {}
    /\ failed = {}

Handle(q) == Submit(q) \/ LookUp(q) \/ Claim(q) \/ Create(q)

Next ==
    \/ \E q \in Submissions : Handle(q)
    \/ \E x \in Submissions : Expire(x) \/ RemoveExpired(x) \/ RemoveOldReport(x)

Spec == Init /\ [][Next]_vars

\* Time passes, and the cleanup job, which runs every hour, gets through its
\* list; the database does not refuse to delete the same row for ever.
FairSpec ==
    /\ Spec
    /\ \A x \in Submissions : WF_vars(Expire(x)) /\ WF_vars(RemoveExpired(x))

-----------------------------------------------------------------------------
(* Properties *)

PCs == {"idle", "scan", "claim", "create", "done"}
Answers == {"none", "duplicate", "full", "error", "created"}

TypeOK ==
    /\ pc \in [Submissions -> PCs]
    /\ time \in [Submissions -> Int]
    /\ cursor \in [Submissions -> Slots]
    /\ answer \in [Submissions -> Answers]
    /\ rows \subseteq Submissions
    /\ slotOf \in [Submissions -> Slots]
    /\ expired \subseteq Submissions
    /\ feed \subseteq Submissions
    /\ saw \in [Submissions -> SUBSET Submissions]
    /\ shared \subseteq Slots
    /\ freed \subseteq Slots
    /\ retired \subseteq Submissions
    /\ failed \subseteq Submissions

\* Two chat lines within the window of reportTimeFuzzSeconds.
Near(x, q) == time[x] - time[q] < Fuzz /\ time[q] - time[x] < Fuzz

\* A submission turned away as a duplicate loses nothing: a report of the same
\* fingerprint and window is in the feed, or was until the retention, or is
\* just being stored.  The one exception is a claim whose report could not be
\* stored: its row then turns away the retry.
RejectedReportIsHeld ==
    \A q \in Submissions : answer[q] = "duplicate" =>
        \E x \in Submissions :
            /\ Near(x, q)
            /\ x \in feed \cup retired \cup failed \/ pc[x] = "create"

\* While its row lasts, a report keeps its slot against every submission that
\* begins to scan after it, and keeps those of the same window out of the feed.
\* A second row of the window gets in only below it, through a slot the cleanup
\* emptied, or past a slot that concurrent claims made two rows share, of which
\* the query returns one.
NearTwinsHaveACause ==
    \A x, y \in rows : x \in saw[y] =>
        /\ slotOf[x] # slotOf[y]
        /\ Near(x, y) =>
              \/ slotOf[y] < slotOf[x] /\ slotOf[y] \in freed
              \/ slotOf[x] < slotOf[y] /\ slotOf[x] \in shared

\* A fingerprint whose slots are all taken, which turns every further report
\* of it away, gets a free slot again.
FullTableDrains ==
    (\A i \in Slots : RowsAt(i) # {}) ~> (\E i \in Slots : RowsAt(i) = {})
-----------------------------------------------------------------------------
(* What the properties above rest on, step by step *)

\* An answer and a report are the end of a submission, a row belongs to one that
\* claimed it, and only claimed rows are ever seen.
Claimed ==
    \A q \in Submissions :
        /\ pc[q] \notin {"scan", "claim"} => cursor[q] = 1
        /\ answer[q] # "none" \/ q \in feed \cup retired \cup failed => pc[q] = "done"
        /\ q \in rows => \/ pc[q] = "create"
                         \/ pc[q] = "done" /\ q \in feed \cup retired \cup failed
        /\ \A x \in saw[q] : pc[x] \in {"create", "done"}

\* Two rows in one slot are on record, and so is an empty slot below a row.
Slotted ==
    \A x \in rows :
        /\ \A y \in rows : x # y /\ slotOf[x] = slotOf[y] => slotOf[x] \in shared
        /\ \A j \in Slots : j < slotOf[x] => RowsAt(j) # {} \/ j \in freed

\* What a scan has established: an empty slot it passed was emptied since, and
\* a row of its window that was there when it began, if passed, was hidden in
\* a shared slot.
Passed ==
    \A q \in Submissions : pc[q] \in {"scan", "claim"} =>
        /\ \A j \in Slots : j < cursor[q] => RowsAt(j) # {} \/ j \in freed
        /\ \A x \in rows \cap saw[q] :
              slotOf[x] < cursor[q] /\ Near(x, q) => slotOf[x] \in shared

\* A submission about to claim found its slot empty of rows that are still
\* there, and if one of them is above, the cleanup has emptied the slot.
Found ==
    \A q \in Submissions : pc[q] = "claim" =>
        \A x \in rows \cap saw[q] :
            /\ slotOf[x] # cursor[q]
            /\ slotOf[x] > cursor[q] => cursor[q] \in freed

IInv ==
    /\ TypeOK
    /\ Claimed
    /\ Slotted
    /\ Passed
    /\ Found
    /\ RejectedReportIsHeld
    /\ NearTwinsHaveACause
=============================================================================
