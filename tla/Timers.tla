------------------------------- MODULE Timers -------------------------------
(***************************************************************************)
(* The table of timers (backend/internal/timers) and those who write it:   *)
(* the synchronisation that keeps one timer for every sovereignty campaign *)
(* the game lists, staff's requests on single timers, the webhook that     *)
(* owns the table in the other mode, and the cleanup of old timers.        *)
(*                                                                         *)
(* Everybody loads a record and saves it later.  A save writes the columns *)
(* that differ from what was loaded, and no others; saving a record that   *)
(* was deleted writes nothing.  No index makes the timers of campaigns     *)
(* unique, staff may give any timer any source and reference, and two runs *)
(* of the synchronisation can overlap (JobRuns).  A job record that a run  *)
(* left at running keeps every later run from starting.                    *)
(***************************************************************************)
EXTENDS Naturals, FiniteSets

CONSTANTS
    Campaigns,  \* sovereignty campaigns, also the source_ref of their timers
    Hooks,      \* identifiers of the external system, webhook_id
    Syncs,      \* runs of the synchronisation that may overlap
    Requests,   \* requests of staff or of the webhook that may overlap
    MaxVersion, \* bound: what the game may say of one campaign, one after another
    MaxNews,    \* bound: changes of the campaigns or of the watchlist
    MaxRequests,\* bound: staff's requests, and deletions by the cleanup
    MaxHooked,  \* bound: the same in webhook mode, where nothing synchronises
    MaxFaults   \* bound: failures, and restarts of the process

ASSUME TimersAssumption ==
    /\ Campaigns \cap Hooks = {}
    /\ "stray" \notin Campaigns \cup Hooks
    /\ {MaxVersion, MaxNews, MaxRequests, MaxHooked, MaxFaults} \subseteq Nat

\* What the columns a campaign decides may say.  Unlisted stands for a campaign
\* that is not listed, StaffWords for columns that say what no campaign does.
Unlisted == 0
StaffWords == 0
Versions == 1..MaxVersion
Facts == Versions \cup {StaffWords}
Statuses == {"active", "canceled"}

VARIABLES
    mode,       \* TIMER_SOURCE of this process
    feed,       \* feed[c]: what the game says of campaign c, or Unlisted if it is not
                \* listed, or matches none of the standings staff keeps
    rows,       \* rows[i]: the timer with id i
    lastId,     \* the id last given
    left,       \* the job record of a synchronisation that is gone says running, for good
    pc,         \* pc[s]: where synchronisation s stands
    want,       \* want[s]: what s will write
    copy,       \* copy[s]: the timer s loaded for each campaign
    upTo,       \* upTo[s]: history, the clock when s loaded the timers
    todo,       \* todo[s]: campaigns s has still to save in this phase
    req,        \* req[a]: what request a is doing, .row the copy it loaded if any
    news, requests, faults,     \* what the bounds count
    clock,      \* history: how often a timer was given its reference
    took,       \* history: took[i], the clock when timer i was given its reference
    knew,       \* history: knew[i], the clock when the giver had loaded the timers
    calm        \* history: runs since whose loading nobody else has written

world == <<mode, feed>>
references == <<clock, took, knew>>
table == <<rows, lastId, references>>
runs == <<pc, want, copy, upTo, todo>>
counts == <<news, requests, faults>>
vars == <<world, left, table, runs, req, counts, calm>>

\* A timer is a campaign's, if it has the synchronisation's source and the campaign's
\* reference; a stray, if it has that source and no campaign's reference; or the
\* external system's, with its webhook_id.  Timers of any other source are left out:
\* no run loads them, whatever their reference is, and nobody can change their source.
Stray == "stray"
Synced == Campaigns \cup {Stray}
Row == [ref : Synced \cup Hooks, facts : Facts, status : Statuses]
NoRow(ref) == [ref |-> ref, facts |-> StaffWords, status |-> "active"]
NoCopy(c) == [id |-> 0, row |-> NoRow(c)]
NoRequest == [kind |-> "none", id |-> 0, hook |-> "none", row |-> {}]
Nothing == [c \in Campaigns |-> Unlisted]
NoCopies == [c \in Campaigns |-> NoCopy(c)]

Init ==
    /\ mode \in {"standalone", "webhook"}
    /\ feed \in [Campaigns -> Versions \cup {Unlisted}]
    /\ left = FALSE
    /\ rows = << >> /\ lastId = 0
    /\ clock = 0 /\ took = << >> /\ knew = << >>
    /\ pc = [s \in Syncs |-> "idle"]
    /\ want = [s \in Syncs |-> Nothing]
    /\ copy = [s \in Syncs |-> NoCopies]
    /\ upTo = [s \in Syncs |-> 0]
    /\ todo = [s \in Syncs |-> {}]
    /\ req = [a \in Requests |-> NoRequest]
    /\ news = 0 /\ requests = 0 /\ faults = 0
    /\ calm = {}

Ids == DOMAIN rows
RowsOf(ref) == {i \in Ids : rows[i].ref = ref}

-----------------------------------------------------------------------------
(* Writes to the table                                                       *)

\* Every write ends the calm of the runs other than its own.
Disturb(own) == calm' = calm \cap own

\* What somebody knew of the other timers who has not looked at them.
Blind == 0

Insert(row, known) ==
    /\ lastId' = lastId + 1 /\ clock' = clock + 1
    /\ rows' = [i \in Ids \cup {lastId + 1} |-> IF i = lastId + 1 THEN row ELSE rows[i]]
    /\ took' = [i \in Ids \cup {lastId + 1} |-> IF i = lastId + 1 THEN clock + 1 ELSE took[i]]
    /\ knew' = [i \in Ids \cup {lastId + 1} |-> IF i = lastId + 1 THEN known ELSE knew[i]]

\* The columns in which new differs from old, the others as they are.
Merged(row, old, new) ==
    [ref    |-> IF new.ref    = old.ref    THEN row.ref    ELSE new.ref,
     facts  |-> IF new.facts  = old.facts  THEN row.facts  ELSE new.facts,
     status |-> IF new.status = old.status THEN row.status ELSE new.status]

\* Record i, loaded as old and changed to new, is saved.  A new reference is given
\* without a look at other timers.
Save(i, old, new) ==
    /\ rows' = [j \in Ids |-> IF j = i THEN Merged(rows[j], old, new) ELSE rows[j]]
    /\ IF new.ref = old.ref
         THEN UNCHANGED references
         ELSE /\ clock' = clock + 1
              /\ took' = [j \in Ids |-> IF j = i THEN clock + 1 ELSE took[j]]
              /\ knew' = [j \in Ids |-> IF j = i THEN Blind ELSE knew[j]]
    /\ UNCHANGED lastId

RemoveRow(i) ==
    /\ rows' = [j \in Ids \ {i} |-> rows[j]]
    /\ took' = [j \in Ids \ {i} |-> took[j]]
    /\ knew' = [j \in Ids \ {i} |-> knew[j]]
    /\ UNCHANGED <<lastId, clock>>

-----------------------------------------------------------------------------
(* The game and the watchlist                                                *)

CampaignChanges(c) ==
    /\ news < MaxNews /\ news' = news + 1
    /\ \E v \in (Versions \cup {Unlisted}) \ {feed[c]} : feed' = [feed EXCEPT ![c] = v]
    /\ UNCHANGED <<mode, left, table, runs, req, requests, faults, calm>>

-----------------------------------------------------------------------------
(* SyncSovereigntyCampaignTimers                                             *)

Goto(s, l) == pc' = [pc EXCEPT ![s] = l]

\* Every minute, in standalone mode, by the cron, or by an administrator: no record
\* says running, or the run is skipped (Runner.Run with Unique).  Another run may be
\* under way all the same: one that was cancelled and goes on, or that looked when
\* this one did, before either had its record.
LookForRun(s) ==
    /\ mode = "standalone" /\ pc[s] = "idle" /\ ~left
    /\ Goto(s, "fetch")
    /\ UNCHANGED <<world, left, table, want, copy, upTo, todo, req, counts, calm>>

\* What the game lists and the watchlist matches, except what lies in a system that
\* is not found.
FetchCampaigns(s) ==
    /\ pc[s] = "fetch"
    /\ \E unknown \in SUBSET Campaigns :
          /\ unknown # {} => faults < MaxFaults
          /\ faults' = IF unknown = {} THEN faults ELSE faults + 1
          /\ want' = [want EXCEPT ![s] = [c \in Campaigns |->
                        IF c \in unknown THEN Unlisted ELSE feed[c]]]
    /\ Goto(s, "load")
    /\ UNCHANGED <<world, left, table, copy, upTo, todo, req, news, requests, calm>>

\* Mutant: the status is not compared.
DiffersInFacts(k, v) == k.id = 0 \/ k.row.facts # v

\* There is no timer, or applyTimerRecordFromSource has something to change.
Differs(k, v) == k.id = 0 \/ k.row.facts # v \/ k.row.status # "active"

\* Mutant: the query leaves canceled timers out.
ActiveTimersOf(c) == {i \in RowsOf(c) : rows[i].status = "active"}

\* The timers of the campaign, of which one is taken for it.
TimersOf(c) == RowsOf(c)

LoadExisting(s) ==
    /\ pc[s] = "load"
    /\ \E k \in [Campaigns -> {0} \cup Ids] :
          /\ \A c \in Campaigns : IF TimersOf(c) = {} THEN k[c] = 0 ELSE k[c] \in TimersOf(c)
          /\ LET loaded == [c \in Campaigns |->
                              IF k[c] = 0 THEN NoCopy(c) ELSE [id |-> k[c], row |-> rows[k[c]]]]
             IN  /\ copy' = [copy EXCEPT ![s] = loaded]
                 /\ todo' = [todo EXCEPT ![s] = {c \in Campaigns :
                       want[s][c] # Unlisted /\ Differs(loaded[c], want[s][c])}]
    /\ upTo' = [upTo EXCEPT ![s] = clock]
    /\ Goto(s, "apply")
    /\ calm' = calm \cup {s}
    /\ UNCHANGED <<world, left, table, want, req, counts>>

\* What the campaign says, of an active timer.
Desired(c, v) == [ref |-> c, facts |-> v, status |-> "active"]

\* applyDesiredSovRecords for one campaign: a new timer, or the loaded one changed.
Apply(s, c) ==
    /\ pc[s] = "apply" /\ c \in todo[s]
    /\ LET k == copy[s][c]
           new == Desired(c, want[s][c])
       IN  IF k.id = 0 THEN Insert(new, upTo[s])
           ELSE Save(k.id, k.row, new)
    /\ todo' = [todo EXCEPT ![s] = @ \ {c}]
    /\ Disturb({s})
    /\ UNCHANGED <<world, left, pc, want, copy, upTo, req, counts>>

\* Mutant: whatever was not changed in this run counts as stale.
StaleUnlessNew(s) == {c \in Campaigns : copy[s][c].id # 0 /\ copy[s][c].row.status # "canceled"}

\* Loaded timers that are not canceled and whose campaign is not wanted.
Stale(s) == {c \in Campaigns : /\ want[s][c] = Unlisted
                               /\ copy[s][c].id # 0
                               /\ copy[s][c].row.status # "canceled"}

Applied(s) ==
    /\ pc[s] = "apply" /\ todo[s] = {}
    /\ todo' = [todo EXCEPT ![s] = Stale(s)]
    /\ Goto(s, "cancel")
    /\ UNCHANGED <<world, left, table, want, copy, upTo, req, counts, calm>>

\* cancelStaleSovRecords for one timer.
CancelStale(s, c) ==
    /\ pc[s] = "cancel" /\ c \in todo[s]
    /\ LET k == copy[s][c]
       IN  Save(k.id, k.row, [k.row EXCEPT !.status = "canceled"])
    /\ todo' = [todo EXCEPT ![s] = @ \ {c}]
    /\ Disturb({s})
    /\ UNCHANGED <<world, left, pc, want, copy, upTo, req, counts>>

Forget(s) ==
    /\ Goto(s, "idle")
    /\ want' = [want EXCEPT ![s] = Nothing]
    /\ copy' = [copy EXCEPT ![s] = NoCopies]
    /\ upTo' = [upTo EXCEPT ![s] = 0]
    /\ todo' = [todo EXCEPT ![s] = {}]

\* The closing save of the job record may fail, and its error is dropped.  Nothing
\* closes a record that is left: neither the sweep (JobRuns) nor an administrator, who
\* cancels what is registered in this process.
SyncEnds(s) ==
    /\ pc[s] = "cancel" /\ todo[s] = {}
    /\ Forget(s)
    /\ \/ UNCHANGED <<left, faults>>
       \/ faults < MaxFaults /\ faults' = faults + 1 /\ left' = TRUE
    /\ calm' = calm \ {s}
    /\ UNCHANGED <<world, table, req, news, requests>>

\* A query, the request to the game or a save fails: the run returns the error, and
\* what failed may fail once more for the closing save.
SyncFails(s) ==
    /\ pc[s] # "idle"
    /\ faults < MaxFaults /\ faults' = faults + 1
    /\ left' \in {left, TRUE}
    /\ Forget(s)
    /\ calm' = calm \ {s}
    /\ UNCHANGED <<world, table, req, news, requests>>

-----------------------------------------------------------------------------
(* Requests.  Each loads a record, and may wait for the names of its owners  *)
(* before it saves.                                                          *)

\* Bound: what is asked for in one mode and in the other.
Counted == /\ requests < IF mode = "webhook" THEN MaxHooked ELSE MaxRequests
           /\ requests' = requests + 1

Begins(a) == req[a] = NoRequest /\ Counted

Ends(a) == req' = [req EXCEPT ![a] = NoRequest]

\* Anybody with a main character enters a timer with the synchronisation's source, and
\* with the reference, the words and the status they like.  What a stray says is left
\* out: no run reads it, and an edit that makes it a campaign's may say anything.
Entered == {NoRow(Stray)} \cup [ref : Campaigns, facts : Facts, status : Statuses]

Create ==
    /\ mode = "standalone" /\ Counted
    /\ \E row \in Entered : Insert(row, Blind)
    /\ Disturb({})
    /\ UNCHANGED <<world, left, runs, req, news, faults>>

\* FindRecordById for staff's edit, cancellation or its withdrawal.
StaffLoads(a, i) ==
    /\ mode = "standalone" /\ Begins(a)
    /\ req' = [req EXCEPT ![a] = [kind |-> "edit", id |-> i, hook |-> "none", row |-> {rows[i]}]]
    /\ UNCHANGED <<world, left, table, runs, news, faults, calm>>

\* An edit may set the reference, but neither the source nor the webhook_id.
References(row) == IF row.ref \in Synced THEN Synced ELSE {row.ref}

\* What an edit may make of the record it loaded; a cancellation and its withdrawal
\* change the status alone.
Changes(row) == [ref : References(row), facts : Facts, status : Statuses]

Saves(a) ==
    /\ req[a].kind = "edit"
    /\ \E old \in req[a].row : \E new \in Changes(old) : Save(req[a].id, old, new)
    /\ Ends(a)
    /\ Disturb({})
    /\ UNCHANGED <<world, left, runs, counts>>

\* Staff deletes a timer, or the cleanup one that expired a day ago.
Delete(i) ==
    /\ Counted
    /\ RemoveRow(i)
    /\ Disturb({})
    /\ UNCHANGED <<world, left, runs, req, news, faults>>

\* The webhook's Create: no timer has the identifier yet.
HookLooks(a, h) ==
    /\ mode = "webhook" /\ Begins(a)
    /\ RowsOf(h) = {}
    /\ req' = [req EXCEPT ![a] = [kind |-> "create", id |-> 0, hook |-> h, row |-> {}]]
    /\ UNCHANGED <<world, left, table, runs, news, faults, calm>>

\* The insertion, which the unique index refuses to the second of two requests.
HookInserts(a) ==
    /\ req[a].kind = "create"
    /\ \/ /\ RowsOf(req[a].hook) = {}
          /\ \E st \in Statuses : Insert([NoRow(req[a].hook) EXCEPT !.status = st], Blind)
          /\ Disturb({})
       \/ RowsOf(req[a].hook) # {} /\ UNCHANGED <<table, calm>>
    /\ Ends(a)
    /\ UNCHANGED <<world, left, runs, counts>>

\* The webhook's Patch finds the timer, then Update loads it and goes on as staff's.
HookFinds(a, i) ==
    /\ mode = "webhook" /\ rows[i].ref \in Hooks /\ Begins(a)
    /\ req' = [req EXCEPT ![a] = [kind |-> "patch", id |-> i, hook |-> rows[i].ref, row |-> {}]]
    /\ UNCHANGED <<world, left, table, runs, news, faults, calm>>

HookLoads(a) ==
    /\ req[a].kind = "patch"
    /\ IF req[a].id \in Ids
         THEN req' = [req EXCEPT ![a].kind = "edit", ![a].row = {rows[req[a].id]}]
         ELSE Ends(a)
    /\ UNCHANGED <<world, left, table, runs, counts, calm>>

\* The process stops and starts again, perhaps with the other TIMER_SOURCE.  The job
\* record of a run that was under way, if it had one already, says running.
Restart ==
    /\ faults < MaxFaults /\ faults' = faults + 1
    /\ left' \in {left, left \/ \E s \in Syncs : pc[s] # "idle"}
    /\ mode' \in {"standalone", "webhook"}
    /\ pc' = [s \in Syncs |-> "idle"]
    /\ want' = [s \in Syncs |-> Nothing]
    /\ copy' = [s \in Syncs |-> NoCopies]
    /\ upTo' = [s \in Syncs |-> 0]
    /\ todo' = [s \in Syncs |-> {}]
    /\ req' = [a \in Requests |-> NoRequest]
    /\ calm' = {}
    /\ UNCHANGED <<feed, table, news, requests>>

-----------------------------------------------------------------------------
SyncStep(s) ==
    \/ FetchCampaigns(s) \/ LoadExisting(s)
    \/ \E c \in Campaigns : Apply(s, c) \/ CancelStale(s, c)
    \/ Applied(s) \/ SyncEnds(s)

RequestStep(a) == Saves(a) \/ HookInserts(a) \/ HookLoads(a)

RequestBegins(a) ==
    \/ \E i \in Ids : StaffLoads(a, i) \/ HookFinds(a, i)
    \/ \E h \in Hooks : HookLooks(a, h)

Next ==
    \/ \E c \in Campaigns : CampaignChanges(c)
    \/ \E s \in Syncs : LookForRun(s) \/ SyncStep(s) \/ SyncFails(s)
    \/ \E a \in Requests : RequestBegins(a) \/ RequestStep(a)
    \/ Create
    \/ \E i \in Ids : Delete(i)
    \/ Restart

Spec == Init /\ [][Next]_vars

\* The cron looks every minute, and finds no record when no run is under way and none
\* was left.
CronStarts == (\A s \in Syncs : pc[s] = "idle") /\ \E s \in Syncs : LookForRun(s)

\* A run goes on while nothing fails, and a request ends.
FairSpec ==
    /\ Spec
    /\ WF_vars(CronStarts)
    /\ \A s \in Syncs : WF_vars(SyncStep(s))
    /\ \A a \in Requests : WF_vars(RequestStep(a))

-----------------------------------------------------------------------------
(* Properties *)

\* Of two timers with a campaign's reference, the one that was given it last was given
\* it blindly: by staff, who may set any reference, or by a run that had loaded the
\* table before the other had the reference (loadExistingSovRecords and
\* applyDesiredSovRecords, which no index backs); never by a run that saw the other
\* there.  The external system, whose requests race the same way, never gets two for
\* one id (Create in api/timerwebhook/handler.go and the index of
\* 0015_timer_webhook_source.go).
TwinsHaveACause ==
    /\ \A h \in Hooks : \A i, j \in RowsOf(h) : i = j
    /\ \A c \in Campaigns : \A i, j \in RowsOf(c) :
          i # j /\ took[i] <= took[j] => knew[j] < took[i]

\* The timers of a campaign are as v says, unless there are twins.
SettledAs(c, v) ==
    /\ v # Unlisted => RowsOf(c) # {}
    /\ Cardinality(RowsOf(c)) = 1 =>
         \A i \in RowsOf(c) :
            IF v = Unlisted THEN rows[i].status = "canceled"
                            ELSE rows[i].status = "active" /\ rows[i].facts = v

\* When a run of the synchronisation ends without an error, and nobody else wrote a
\* timer since it loaded them, the table says what the run wanted: every campaign it
\* wants has its timer, active and up to date whatever staff did before, and every
\* other is canceled (SyncSovereigntyCampaignTimers as a whole).
CalmRunsSettleTheTable ==
    [][\A s \in Syncs : SyncEnds(s) /\ s \in calm =>
          \A c \in Campaigns : SettledAs(c, want[s][c])]_vars

\* Once the campaigns, the watchlist and staff are quiet, the process is in standalone
\* mode, and no job record was left at running for good, the table comes to say what
\* the game says and stays so, in spite of runs that overlap, end half way or are cut
\* off (the cron of every minute and its unique job).
TimersFollowTheCampaigns ==
    <>[](mode = "standalone" /\ ~left =>
           \A c \in Campaigns : SettledAs(c, feed[c]))
-----------------------------------------------------------------------------
(* The inductive invariant *)

Labels == {"idle", "fetch", "load", "apply", "cancel"}

TypeOK ==
    /\ mode \in {"standalone", "webhook"} /\ feed \in [Campaigns -> 0..MaxVersion]
    /\ left \in BOOLEAN
    /\ lastId \in Nat /\ Ids \subseteq 1..lastId
    /\ rows \in [Ids -> Row]
    /\ clock \in Nat /\ took \in [Ids -> 1..clock] /\ knew \in [Ids -> 0..clock]
    /\ pc \in [Syncs -> Labels]
    /\ want \in [Syncs -> [Campaigns -> 0..MaxVersion]]
    /\ copy \in [Syncs -> [Campaigns -> [id : Nat, row : Row]]]
    /\ upTo \in [Syncs -> 0..clock]
    /\ todo \in [Syncs -> SUBSET Campaigns]
    /\ req \in [Requests -> [kind : {"none", "edit", "create", "patch"},
                             id : Nat, hook : Hooks \cup {"none"}, row : SUBSET Row]]
    /\ calm \subseteq Syncs

\* A creation is of one of the external system's identifiers.
HookInv == \A a \in Requests : req[a].kind = "create" => req[a].hook \in Hooks

\* What a run loaded for a campaign was the campaign's.
CopyInv == \A s \in Syncs, c \in Campaigns : copy[s][c].row.ref = c

Writing(s) == pc[s] \in {"apply", "cancel"}

\* What s did not find had not its reference yet when it looked.
LoadInv ==
    \A s \in Syncs : Writing(s) =>
       \A c \in Campaigns : copy[s][c].id = 0 => \A i \in RowsOf(c) : upTo[s] < took[i]

\* The timers of c are as s loaded them.
Untouched(s, c) ==
    LET k == copy[s][c]
    IN  IF k.id = 0 THEN RowsOf(c) = {} ELSE k.id \in RowsOf(c) /\ rows[k.id] = k.row

\* There is one that says v.
Said(c, v) == \E i \in RowsOf(c) : rows[i].facts = v /\ rows[i].status = "active"

\* There is none, or the one s loaded is canceled.
Over(s, c) ==
    LET k == copy[s][c]
    IN  IF k.id = 0 THEN RowsOf(c) = {} ELSE k.id \in RowsOf(c) /\ rows[k.id].status = "canceled"

\* How far s has come with c, while nobody else writes.
Progress(s, c) ==
    IF want[s][c] # Unlisted
      THEN IF pc[s] = "apply" /\ c \in todo[s] THEN Untouched(s, c) ELSE Said(c, want[s][c])
      ELSE IF pc[s] = "apply" \/ c \in todo[s] THEN Untouched(s, c) ELSE Over(s, c)

\* What s still saves, it has something to save of.
Work(s) ==
    \A c \in todo[s] : IF pc[s] = "apply" THEN want[s][c] # Unlisted
                                          ELSE want[s][c] = Unlisted /\ copy[s][c].id # 0

CalmInv ==
    \A s \in Syncs : /\ Writing(s) => Work(s)
                     /\ s \in calm => Writing(s) /\ \A c \in Campaigns : Progress(s, c)

IInv == TypeOK /\ HookInv /\ CopyInv /\ TwinsHaveACause /\ LoadInv /\ CalmInv
=============================================================================
