---------------------------- MODULE SkyhookWatch ----------------------------
(***************************************************************************)
(* The watch over the game's notifications about skyhooks                  *)
(* (backend/internal/timers/skyhook_notification_sync.go).  Every minute a *)
(* run polls a few of the characters that may read notifications, in turn; *)
(* what one of them is told of an attack becomes a report, what it is told *)
(* of a reinforcement becomes a timer.                                     *)
(*                                                                         *)
(* Three memories decide what is never acted upon: the cursor of the       *)
(* turns, the ETag of the list each character was last given, and the      *)
(* cutoff, two minutes before the run began.  Runs may overlap (JobRuns).  *)
(* A notification found again leaves its report, or refreshes its timer    *)
(* (Timers): here only whether it has a record counts, of which two runs    *)
(* that look for it at once may make two.                                   *)
(***************************************************************************)
EXTENDS Integers, FiniteSets, Sequences, SequencesExt

CONSTANTS
    Characters,     \* eve ids of the characters, numbers, in whose order they take turns
    Notifications,
    Audience,       \* Audience[n]: the characters that are told of n
    Runs,           \* runs of the watch that may overlap
    SinceWindow,    \* seconds: how old a notification may be
    CoverageWindow, \* seconds in which everybody should be polled
    MinInterval,    \* seconds between two polls, at least
    MaxNow,         \* bound: minutes
    MaxChanges,     \* bound: changes of who is eligible
    MaxMishaps      \* bound: failures, timeouts and crashes

ASSUME SkyhookAssumption ==
    /\ Characters \subseteq Nat /\ IsFiniteSet(Characters)
    /\ Audience \in [Notifications -> SUBSET Characters]
    /\ {SinceWindow, CoverageWindow, MinInterval} \subseteq Nat \ {0}
    /\ {MaxNow, MaxChanges, MaxMishaps} \subseteq Nat

VARIABLES
    now,        \* minutes
    eligible,   \* characters with a valid token, the scope and an allowed alliance
    cursor,     \* skyhook_notification_rr_cursor
    list,       \* list[c]: the notifications the game lists for c
    born,       \* born[n]: the timestamp of n
    etag,       \* etag[c]: the list whose ETag is stored for c
    stage,      \* stage[r]: where run r stands
    cutoff,     \* cutoff[r]: older notifications are passed over
    turn,       \* turn[r]: the cursor r will store
    queue,      \* queue[r]: characters r has still to poll
    pending,    \* pending[r]: notifications fetched and not yet processed
    missing,    \* missing[r]: notifications of which r has found no record
    recorded,   \* notifications that have a record, a report or a timer
    changes, mishaps,   \* what the bounds count
    inTime,     \* history: notifications a poll could still act upon
    dropped,    \* history: notifications whose processing failed or was cut short
    late,       \* history: notifications a run was given that were too old for it, and
                \* not for an earlier one still under way
    waited      \* history: waited[c], selections without c since the turns were disturbed

memory == <<cursor, etag, recorded>>
polling == <<stage, cutoff, turn, queue, pending, missing>>
game == <<list, born>>
tally == <<changes, mishaps>>
history == <<inTime, dropped, late, waited>>
watchVars == <<now, eligible, memory, game, polling, tally, history>>

Window == SinceWindow \div 60
NoOne == [c \in Characters |-> 0]

WatchInit ==
    /\ now = 0
    /\ eligible = Characters
    /\ cursor = 0
    /\ list = [c \in Characters |-> {}]
    /\ born = [n \in Notifications |-> 0]
    /\ etag = [c \in Characters |-> {}]
    /\ stage = [r \in Runs |-> "idle"]
    /\ cutoff = [r \in Runs |-> 0]
    /\ turn = [r \in Runs |-> 0]
    /\ queue = [r \in Runs |-> << >>]
    /\ pending = [r \in Runs |-> {}]
    /\ missing = [r \in Runs |-> {}]
    /\ recorded = {}
    /\ changes = 0 /\ mishaps = 0
    /\ inTime = {} /\ dropped = {} /\ late = {}
    /\ waited = NoOne

Mishap == mishaps < MaxMishaps /\ mishaps' = mishaps + 1
MovesTo(r, l) == stage' = [stage EXCEPT ![r] = l]

-----------------------------------------------------------------------------
(* Time, the game, and the tokens *)

Tick ==
    /\ now < MaxNow /\ now' = now + 1
    /\ UNCHANGED <<eligible, memory, game, polling, tally, history>>

\* The game lists a notification for those who are told of it.
Listed(n) ==
    /\ \A c \in Characters : n \notin list[c]
    /\ born' = [born EXCEPT ![n] = now]
    /\ list' = [c \in Characters |-> IF c \in Audience[n] THEN list[c] \cup {n} ELSE list[c]]
    /\ UNCHANGED <<now, eligible, memory, polling, tally, history>>

\* A token is refreshed or revoked, or the alliance is allowed or no longer.
EligibleChanges(c) ==
    /\ changes < MaxChanges /\ changes' = changes + 1
    /\ eligible' = IF c \in eligible THEN eligible \ {c} ELSE eligible \cup {c}
    /\ waited' = NoOne
    /\ UNCHANGED <<now, memory, game, polling, mishaps, inTime, dropped, late>>

-----------------------------------------------------------------------------
(* Turns *)

Lesser(a, b) == IF a < b THEN a ELSE b
Greater(a, b) == IF a > b THEN a ELSE b

\* The eligible characters in the order of their ids.
Rank(c) == Cardinality({d \in eligible : d =< c})
InOrder ==
    {order \in [1..Cardinality(eligible) -> eligible] : \A i \in DOMAIN order : Rank(order[i]) = i}

RequestsPerRun(n) ==
    Lesser(n, Greater(1, SinceWindow \div Greater(MinInterval, CoverageWindow \div n)))

\* Mutant: the character after the last one polled is passed over.
NextTurnSkipping(n, at) == (at + RequestsPerRun(n) + 1) % n

\* roundRobinSelection over n characters, of which some may have come or gone since
\* the cursor was stored.
NextTurn(n, at) == (at + RequestsPerRun(n)) % n
Selection(order, at) ==
    [i \in 1..RequestsPerRun(Len(order)) |-> order[((at + i - 1) % Len(order)) + 1]]

\* A run begins, by the cron or an administrator; nobody eligible, and it is over.
Begin(r) ==
    /\ stage[r] = "idle" /\ eligible # {}
    /\ \E order \in InOrder : LET at == cursor % Len(order) IN
          /\ queue' = [queue EXCEPT ![r] = Selection(order, at)]
          /\ turn' = [turn EXCEPT ![r] = NextTurn(Len(order), at)]
          /\ waited' = IF \E q \in Runs : stage[q] = "select" THEN NoOne
                       ELSE [c \in Characters |->
                               IF c \in eligible /\ c \notin Range(Selection(order, at))
                                 THEN waited[c] + 1 ELSE 0]
    /\ cutoff' = [cutoff EXCEPT ![r] = now - Window]
    /\ MovesTo(r, "select")
    /\ UNCHANGED <<now, eligible, memory, game, pending, missing, tally,
                   inTime, dropped, late>>

\* The cursor is stored; a failure is ignored.
StoreCursor(r) ==
    /\ stage[r] = "select"
    /\ MovesTo(r, "poll")
    /\ turn' = [turn EXCEPT ![r] = 0]
    /\ \/ cursor' = turn[r] /\ UNCHANGED <<mishaps, waited>>
       \/ Mishap /\ waited' = NoOne /\ UNCHANGED cursor
    /\ UNCHANGED <<now, eligible, etag, recorded, game, cutoff, queue, pending, missing,
                   changes, inTime, dropped, late>>

-----------------------------------------------------------------------------
(* Polls *)

Recent(n, r) == born[n] >= cutoff[r]
Elsewhere(n, r) == \E q \in Runs \ {r} : stage[q] # "idle" /\ Recent(n, q)

\* The list is new: its ETag is stored, which may fail and is ignored, and what is
\* on the list is to be processed.  The same list again brings nothing.
Poll(r) ==
    /\ stage[r] = "poll" /\ pending[r] = {} /\ queue[r] # << >>
    /\ LET c == Head(queue[r])
       IN  /\ \/ etag' = [etag EXCEPT ![c] = list[c]] /\ UNCHANGED mishaps
              \/ etag[c] # list[c] /\ Mishap /\ UNCHANGED etag
           /\ pending' = [pending EXCEPT ![r] = IF etag[c] = list[c] THEN {} ELSE list[c]]
           /\ inTime' = inTime \cup {n \in list[c] : Recent(n, r)}
           /\ late' = late \cup {n \in list[c] : ~Recent(n, r) /\ Elsewhere(n, r)}
    /\ queue' = [queue EXCEPT ![r] = Tail(@)]
    /\ UNCHANGED <<now, eligible, cursor, recorded, game, stage, cutoff, turn, missing, changes,
                   dropped, waited>>

\* The request fails: the next character is polled, none if the game limits the rate.
PollFails(r) ==
    /\ stage[r] = "poll" /\ pending[r] = {} /\ queue[r] # << >>
    /\ Mishap
    /\ \E rest \in {Tail(queue[r]), << >>} : queue' = [queue EXCEPT ![r] = rest]
    /\ UNCHANGED <<now, eligible, memory, game, stage, cutoff, turn, pending, missing, changes,
                   history>>

-----------------------------------------------------------------------------
(* processNotification: a record is looked for, and made if there is none *)

Processed(r, n) == pending' = [pending EXCEPT ![r] = @ \ {n}]

Look(r, n) ==
    /\ n \in pending[r] /\ missing[r] = {}
    /\ IF Recent(n, r) /\ n \notin recorded
         THEN missing' = [missing EXCEPT ![r] = {n}] /\ UNCHANGED pending
         ELSE Processed(r, n) /\ UNCHANGED missing
    /\ UNCHANGED <<now, eligible, memory, game, stage, cutoff, turn, queue, tally, history>>

Make(r, n) ==
    /\ n \in missing[r]
    /\ recorded' = recorded \cup {n}
    /\ missing' = [missing EXCEPT ![r] = {}]
    /\ Processed(r, n)
    /\ UNCHANGED <<now, eligible, cursor, etag, game, stage, cutoff, turn, queue, tally, history>>

\* Mutant: what is left of the list is given up with a notification that fails.
GiveUpTheList(r, n) ==
    /\ n \in pending[r] /\ Mishap
    /\ missing' = [missing EXCEPT ![r] = {}]
    /\ pending' = [pending EXCEPT ![r] = {}]
    /\ dropped' = dropped \cup {n}
    /\ UNCHANGED <<now, eligible, memory, game, stage, cutoff, turn, queue, changes,
                   inTime, late, waited>>

\* It cannot be read, its system is not found, or the record not looked for or saved:
\* this is counted, and the next one is processed.
NotificationFails(r, n) ==
    /\ n \in pending[r] /\ Mishap
    /\ missing' = [missing EXCEPT ![r] = {}]
    /\ Processed(r, n)
    /\ dropped' = dropped \cup {n}
    /\ UNCHANGED <<now, eligible, memory, game, stage, cutoff, turn, queue, changes,
                   inTime, late, waited>>

-----------------------------------------------------------------------------
(* Ends *)

Forgotten(R) ==
    /\ stage' = [r \in Runs |-> IF r \in R THEN "idle" ELSE stage[r]]
    /\ cutoff' = [r \in Runs |-> IF r \in R THEN 0 ELSE cutoff[r]]
    /\ turn' = [r \in Runs |-> IF r \in R THEN 0 ELSE turn[r]]
    /\ queue' = [r \in Runs |-> IF r \in R THEN << >> ELSE queue[r]]
    /\ pending' = [r \in Runs |-> IF r \in R THEN {} ELSE pending[r]]
    /\ missing' = [r \in Runs |-> IF r \in R THEN {} ELSE missing[r]]

End(r) ==
    /\ stage[r] = "poll" /\ pending[r] = {} /\ queue[r] = << >>
    /\ Forgotten({r})
    /\ UNCHANGED <<now, eligible, memory, game, tally, history>>

\* After 45 seconds, or when it is canceled, a run stops before its next character.
TimesOut(r) ==
    /\ stage[r] = "poll" /\ pending[r] = {} /\ queue[r] # << >> /\ Mishap
    /\ Forgotten({r})
    /\ UNCHANGED <<now, eligible, memory, game, changes, history>>

Crash ==
    /\ Mishap
    /\ Forgotten(Runs)
    /\ dropped' = dropped \cup UNION {pending[r] : r \in Runs}
    /\ waited' = NoOne
    /\ UNCHANGED <<now, eligible, memory, game, changes, inTime, late>>

RunStep(r) ==
    \/ Begin(r) \/ StoreCursor(r) \/ Poll(r) \/ PollFails(r) \/ End(r) \/ TimesOut(r)
    \/ \E n \in Notifications : Look(r, n) \/ Make(r, n) \/ NotificationFails(r, n)

WatchNext ==
    \/ Tick \/ Crash
    \/ \E n \in Notifications : Listed(n)
    \/ \E c \in Characters : EligibleChanges(c)
    \/ \E r \in Runs : RunStep(r)

WatchSpec == WatchInit /\ [][WatchNext]_watchVars

-----------------------------------------------------------------------------
(* Properties *)

\* A notification that some run could still have acted upon, when it polled a
\* character that is told of it, and that nobody is processing, has its record, unless
\* its own processing failed or was cut short after the ETag was stored, or a later
\* run, for which it was too old, was given the list before one still under way
\* (fetchCharacterNotifications stores the ETag first, syncNotificationSource goes on
\* after a failure).
MissedHaveACause ==
    \A n \in inTime \ (dropped \cup late) :
       n \in recorded \/ \E r \in Runs : n \in pending[r]

\* While nobody comes or goes, no cursor is lost and no two runs select at once, an
\* eligible character waits no longer than the number of its fellows demands, however
\* the cursor that an earlier, larger or smaller list left stands
\* (selectNotificationSources, roundRobinSelection).
EveryoneHasATurn ==
    \A c \in eligible :
       LET n == Cardinality(eligible)  k == RequestsPerRun(n)
       IN  waited[c] < (n + k - 1) \div k
-----------------------------------------------------------------------------
(* The inductive invariant *)

Stages == {"idle", "select", "poll"}

WatchTypeOK ==
    /\ now \in Nat /\ eligible \subseteq Characters /\ cursor \in Nat
    /\ list \in [Characters -> SUBSET Notifications] /\ etag \in [Characters -> SUBSET Notifications]
    /\ born \in [Notifications -> Nat]
    /\ stage \in [Runs -> Stages]
    /\ cutoff \in [Runs -> Int] /\ turn \in [Runs -> Nat]
    /\ queue \in [Runs -> Seq(Characters)]
    /\ pending \in [Runs -> SUBSET Notifications] /\ missing \in [Runs -> SUBSET Notifications]
    /\ waited \in [Characters -> Nat]

\* Only a run that polls has fetched anything, and it began with the cutoff of then.
PollInv ==
    \A r \in Runs : /\ stage[r] # "poll" => pending[r] = {}
                    /\ stage[r] # "idle" => cutoff[r] =< now - Window

\* n has its record, is being processed, or has a cause for being missed.
Handled(n) ==
    \/ n \in recorded \cup dropped \cup late
    \/ \E r \in Runs : n \in pending[r] /\ Recent(n, r)

\* n is too old for every run under way, and for those to come.
TooOld(n) ==
    /\ born[n] < now - Window
    /\ \A r \in Runs : stage[r] # "idle" => ~Recent(n, r)

\* What a stored ETag hides, and what could have been acted upon, is listed for good
\* and was handled, or nobody would act upon it.
HiddenInv ==
    /\ \A c \in Characters : \A n \in etag[c] : n \in list[c] /\ (Handled(n) \/ TooOld(n))
    /\ \A n \in inTime : Handled(n) /\ \E c \in Characters : n \in list[c]

\* How many take their turn before c, when the cursor is x.
Before(n, c, x) ==
    LET at == x % n IN IF Rank(c) > at THEN Rank(c) - 1 - at ELSE Rank(c) - 1 - at + n

\* With what c has waited, they are fewer than there are characters: by the cursor that
\* is stored, or that those who select will store.
TurnInv ==
    \A c \in eligible :
       LET n == Cardinality(eligible)
           InTurn(x) == waited[c] * RequestsPerRun(n) + Before(n, c, x) < n
       IN  /\ (\A r \in Runs : stage[r] # "select") => InTurn(cursor)
           /\ \A r \in Runs : stage[r] = "select" => InTurn(turn[r])

WatchInv == WatchTypeOK /\ PollInv /\ HiddenInv /\ TurnInv
=============================================================================
