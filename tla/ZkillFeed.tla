----------------------------- MODULE ZkillFeed -----------------------------
(***************************************************************************)
(* The zKillboard worker (backend/internal/zkill/feed.go) beside the       *)
(* realtime publisher it feeds.                                            *)
(*                                                                         *)
(* zKillboard numbers its killmails in one sequence and may list one       *)
(* killmail again under a later number.  The worker starts at the current  *)
(* number, reads the numbers one by one, up to a limit each tick, and      *)
(* publishes the killmails somebody watches.  A list of recent killmails   *)
(* keeps it from publishing one twice; the checkpoint it stores after each *)
(* number is not read back, so what was listed while the process was down  *)
(* is passed over.                                                         *)
(*                                                                         *)
(* The text of a report, the standings and the name cache behind it are    *)
(* payload: a message stands for the number it was made from.  One region  *)
(* is followed; the other topics are the noise that fills the queue.       *)
(***************************************************************************)
EXTENDS RealtimePublisher

CONSTANTS
    Kills,              \* killmails
    Reportable,         \* those of a known system that is not J-space, no cheap capsule
    Feeds,              \* contents zKillboard may have: what each number holds
    Undecodable,        \* a number whose killmail lacks a field
    Unreadable,         \* a number whose answer never parses
    RegionTopic,        \* TopicIntelZKillRegion of the region
    MaxSequence,        \* bound: numbers listed
    MaxFetchPerTick,    \* maxFetchPerTick
    RecentSize,         \* recentKillmailLRUSize
    MaxDisturbances     \* bound: messages of other producers and restarts of the process

Numbers == 1..MaxSequence

ASSUME ZkillFeedAssumption ==
    /\ MaxSequence \in Nat \ {0} /\ MaxFetchPerTick \in Nat \ {0}
    /\ RecentSize \in Nat \ {0}
    /\ MaxDisturbances \in Nat
    /\ Reportable \subseteq Kills
    /\ Feeds \subseteq [Numbers -> Kills \cup {Undecodable, Unreadable}]
    /\ RegionTopic \in Topics
    /\ Bodies = 0..MaxSequence
    /\ Undecodable \notin Kills /\ Unreadable \notin Kills

VARIABLES
    feed,       \* zKillboard: what each number holds
    head,       \* zKillboard: the current number
    age,        \* age[k]: killmail_time of k against the clock (the
                \* others are skipped at any age)
    pc,         \* where Run stands
    next,       \* nextSequence, 0 before bootstrapSequence succeeded
    processed,  \* numbers advanced in this tick
    recent,     \* recentKills: killmails in the order they were added
    checkpoint, \* sequence_id of the stored state
    cancelled,  \* the lifecycle context is done
    start,      \* history: the number this process began with, 0 before
    judged,     \* history: killmails this process looked at
    adds,       \* history: additions to recentKills by this process
    attempts,   \* history: calls of PublishJSON: the number and adds at the time
    noise, restarts

zkill == <<feed, head, age>>
worker == <<pc, next, processed, recent, start, judged, adds, attempts>>
bounds == <<noise, restarts>>
vars == <<zkill, worker, checkpoint, cancelled, bounds, publisherVars>>

IsKill(s) == feed[s] \in Kills
Elements(q) == {q[i] : i \in 1..Len(q)}

WorkerInit ==
    /\ pc = "wait" /\ next = 0 /\ processed = 0
    /\ recent = <<>>
    /\ start = 0 /\ judged = {} /\ adds = 0 /\ attempts = <<>>

Init ==
    /\ feed \in Feeds
    /\ head = 1                             \* more may be listed before Bootstrap
    /\ age = [k \in Reportable |-> "future"]
    /\ checkpoint = 0
    /\ cancelled = FALSE
    /\ noise = 0 /\ restarts = 0
    /\ WorkerInit
    /\ PublisherInit

-----------------------------------------------------------------------------
(* FeedIngestor.Run.  A step ends before each call that takes time. *)

\* The rest of the worker's state stays.
Goto(l) ==
    /\ pc' = l
    /\ UNCHANGED <<next, processed, recent, start, judged, adds, attempts>>

\* The first round, or the ticker fired: the top of the loop.  A failing refresh
\* of the standings is only logged.
Round ==
    /\ pc = "wait"
    /\ \/ cancelled /\ Goto("done")
       \/ /\ ~cancelled /\ next > 0
          /\ pc' = "fetch"
          /\ processed' = 0
          /\ UNCHANGED <<next, recent, start, judged, adds, attempts>>
       \/ ~cancelled /\ next = 0 /\ Goto("bootstrap")
    /\ UNCHANGED <<zkill, checkpoint, cancelled, bounds, publisherVars>>

\* bootstrapSequence: the current number, not the checkpoint.
Bootstrap ==
    /\ pc = "bootstrap"
    /\ next' = head
    /\ start' = head
    /\ pc' = "fetch" /\ processed' = 0
    /\ UNCHANGED <<recent, judged, adds, attempts>>
    /\ UNCHANGED <<zkill, checkpoint, cancelled, bounds, publisherVars>>

BootstrapFails ==
    /\ pc = "bootstrap"
    /\ Goto("wait")
    /\ UNCHANGED <<zkill, checkpoint, cancelled, bounds, publisherVars>>

\* Mutant: an event that does not decode is an error of the fetch.
FetchDecodable ==
    /\ pc = "fetch" /\ processed < MaxFetchPerTick /\ ~cancelled
    /\ next =< head
    /\ IsKill(next)
    /\ Goto("handle")
    /\ UNCHANGED <<zkill, checkpoint, cancelled, bounds, publisherVars>>

\* fetchSequenceEvent got an event, or one that does not decode.
FetchOK ==
    /\ pc = "fetch" /\ processed < MaxFetchPerTick /\ ~cancelled
    /\ next =< head
    /\ feed[next] # Unreadable
    /\ Goto(IF IsKill(next) THEN "handle" ELSE "save")
    /\ UNCHANGED <<zkill, checkpoint, cancelled, bounds, publisherVars>>

\* Mutant: an error of the fetch passes over the number.
FetchStopsAdvancing ==
    /\ pc = "fetch"
    /\ IF cancelled /\ processed < MaxFetchPerTick
         THEN Goto("done")
         ELSE IF processed < MaxFetchPerTick /\ next =< head
           THEN /\ pc' = "wait" /\ next' = next + 1
                /\ UNCHANGED <<processed, recent, start, judged, adds, attempts>>
           ELSE Goto("wait")
    /\ UNCHANGED <<zkill, checkpoint, cancelled, bounds, publisherVars>>

\* The tick is over: the limit, a number not listed yet, an error, a 429; or
\* the context is done.
FetchStops ==
    /\ pc = "fetch"
    /\ Goto(IF cancelled /\ processed < MaxFetchPerTick THEN "done" ELSE "wait")
    /\ UNCHANGED <<zkill, checkpoint, cancelled, bounds, publisherVars>>

\* Mutant: the list of recent killmails holds one less than its size.
AddEvictingEarly(k) ==
    LET all == Append(recent, k)
    IN  recent' = IF Len(all) < RecentSize THEN all ELSE Tail(all)

\* killmailLRU.Add of a killmail that was not seen.
Add(k) ==
    LET all == Append(recent, k)
    IN  recent' = IF Len(all) =< RecentSize THEN all ELSE Tail(all)

\* handleEvent up to the resolution of names.  The killmail counts as seen from
\* here on, whatever becomes of it.
Handle ==
    /\ pc = "handle"
    /\ LET k == feed[next]
       IN  IF k \in Elements(recent)
             THEN Goto("save")
             ELSE /\ Add(k)
                  /\ adds' = adds + 1
                  /\ judged' = judged \cup {k}
                  /\ pc' = IF /\ k \in Reportable
                              /\ age[k] = "fresh"
                              /\ HasSubscribers(RegionTopic)
                           THEN "publish" ELSE "save"
                  /\ UNCHANGED <<next, processed, start, attempts>>
    /\ UNCHANGED <<zkill, checkpoint, cancelled, bounds, publisherVars>>

\* PublishJSON; an error ends the tick without advancing.
Publish ==
    /\ pc = "publish"
    /\ attempts' = Append(attempts, [number |-> next, at |-> adds])
    /\ \/ Accept(RegionTopic, next) /\ pc' = "save"
       \/ Refused /\ pc' = "wait" /\ UNCHANGED publisherVars
    /\ UNCHANGED <<next, processed, recent, start, judged, adds>>
    /\ UNCHANGED <<zkill, checkpoint, cancelled, bounds>>

\* saveCheckpoint, then the next number.
SaveOK ==
    /\ pc = "save"
    /\ checkpoint' = next
    /\ next' = next + 1
    /\ processed' = processed + 1
    /\ pc' = "fetch"
    /\ UNCHANGED <<recent, start, judged, adds, attempts>>
    /\ UNCHANGED <<zkill, cancelled, bounds, publisherVars>>

\* The number is read again at the next tick.
SaveFails ==
    /\ pc = "save"
    /\ Goto("wait")
    /\ UNCHANGED <<zkill, checkpoint, cancelled, bounds, publisherVars>>

-----------------------------------------------------------------------------
(* Around the worker *)

\* zKillboard lists another number.
Listed ==
    /\ head < MaxSequence
    /\ head' = head + 1
    /\ UNCHANGED <<feed, age, worker, checkpoint, cancelled, bounds, publisherVars>>

\* Time passes for killmail k: past the two minutes a clock may be off, and past
\* maxEventAge.
GrowsOld(k) ==
    /\ age[k] # "old"
    /\ age' = [age EXCEPT ![k] = IF @ = "future" THEN "fresh" ELSE "old"]
    /\ UNCHANGED <<feed, head, worker, checkpoint, cancelled, bounds, publisherVars>>

\* OnTerminate cancels the lifecycle context.
Terminate ==
    /\ ~cancelled
    /\ cancelled' = TRUE
    /\ UNCHANGED <<zkill, worker, checkpoint, bounds, publisherVars>>

\* The keepalive, the uploader count or the configuration is published.
Noise ==
    /\ noise + restarts < MaxDisturbances
    /\ noise' = noise + 1
    /\ \E t \in Topics \ {RegionTopic} : Accept(t, 0)
    /\ UNCHANGED <<zkill, worker, checkpoint, cancelled, restarts>>

ProcessRestart ==
    /\ noise + restarts < MaxDisturbances
    /\ restarts' = restarts + 1
    /\ cancelled' = FALSE
    /\ pc' = "wait" /\ next' = 0 /\ processed' = 0
    /\ recent' = <<>>
    /\ start' = 0 /\ judged' = {} /\ adds' = 0 /\ attempts' = <<>>
    /\ Restart
    /\ UNCHANGED <<zkill, checkpoint, noise>>

\* The publisher's goroutine, its Stop on the way out of server.Run, and the
\* clients.
PublisherStep ==
    /\ \/ Deliver \/ Return
       \/ cancelled /\ Stop
       \/ \E c \in Clients, ts \in SUBSET {RegionTopic} : Subscribe(c, ts)
    /\ UNCHANGED <<zkill, worker, checkpoint, cancelled, bounds>>

Step ==
    \/ Round \/ Bootstrap \/ BootstrapFails \/ FetchOK \/ FetchStops
    \/ Handle \/ Publish \/ SaveOK \/ SaveFails

Next ==
    \/ Step
    \/ Listed \/ (\E k \in Reportable : GrowsOld(k)) \/ Terminate
    \/ Noise \/ ProcessRestart \/ PublisherStep

Spec == Init /\ [][Next]_vars

\* Each step of Run ends, and the calls of zKillboard and of the database succeed now
\* and then.  The publisher may stand still: the worker does not wait for it.
Fairness ==
    /\ WF_vars(Step)
    /\ SF_vars(Bootstrap) /\ SF_vars(FetchOK) /\ SF_vars(SaveOK)

FairSpec == Spec /\ Fairness

-----------------------------------------------------------------------------
(* Properties *)

Attempt == [number : Numbers, at : Nat]

FeedTypeOK ==
    /\ feed \in Feeds /\ head \in Numbers
    /\ age \in [Reportable -> {"future", "fresh", "old"}]
    /\ pc \in {"bootstrap", "fetch", "handle", "publish", "save", "wait", "done"}
    /\ next \in 0..MaxSequence + 1 /\ processed \in 0..MaxFetchPerTick
    /\ recent \in Seq(Kills) /\ Len(recent) \in 0..RecentSize
    /\ checkpoint \in 0..MaxSequence /\ start \in 0..MaxSequence
    /\ judged \subseteq Kills /\ adds \in Nat /\ attempts \in Seq(Attempt)
    /\ cancelled \in BOOLEAN /\ noise \in 0..MaxDisturbances /\ restarts \in 0..MaxDisturbances

TypeOK == FeedTypeOK /\ PublisherTypeOK

\* Within a process no number is passed over: every killmail from the first
\* number on was looked at, through failed fetches, failed checkpoints and
\* refused publications (Run).
NoNumberIsPassedOver ==
    \A s \in start..next - 1 : s > 0 /\ IsKill(s) => feed[s] \in judged

\* One killmail is offered to the publisher again only after RecentSize others
\* were looked at, whatever number it comes under and however often a number is
\* read again (handleEvent, killmailLRU).
RepeatsAreFarApart ==
    \A i, j \in 1..Len(attempts) :
        i < j /\ feed[attempts[i].number] = feed[attempts[j].number]
            => attempts[j].at > attempts[i].at + RecentSize

\* A client sees the killmails of its region in the order of the feed, none of
\* them twice under one number (Run, handleEvent, Publisher.deliver).
ClientsSeeFeedOrder ==
    \A c \in Clients : \A i, j \in 1..Len(inbox[c]) :
        /\ i < j
        /\ Topic(inbox[c][i]) = RegionTopic
        /\ Topic(inbox[c][j]) = RegionTopic
        => accepted[inbox[c][i]].body < accepted[inbox[c][j]].body

\* The stored checkpoint never goes back, across restarts too (saveCheckpoint,
\* bootstrapSequence).
CheckpointNeverGoesBack == [][checkpoint' >= checkpoint]_vars

\* Listed numbers the worker has not passed, none of which is at or after one
\* whose answer never parses: that one stops the worker (Run).
Behind ==
    {s \in Numbers : /\ next =< s /\ s =< head
                     /\ \A t \in 1..s : feed[t] # Unreadable}

\* A worker that is behind catches up in the end, whatever fails on the way and
\* however often, unless the process is told to stop (Run, fetchSequenceEvent,
\* saveCheckpoint).
FeedAdvances == Behind # {} ~> Behind = {} \/ cancelled

\* Inductive part: where the worker stands in the feed, and that what it passed
\* or remembers was looked at.
WorkerInv ==
    /\ start =< next /\ next =< head + 1
    /\ pc = "bootstrap" => next = 0
    /\ pc = "fetch" => next >= 1
    /\ pc \in {"handle", "publish", "save"} =>
           next >= 1 /\ next =< head /\ processed < MaxFetchPerTick
    /\ pc \in {"handle", "publish"} => IsKill(next)
    /\ pc \in {"publish", "save"} /\ IsKill(next) => feed[next] \in judged
    /\ Elements(recent) \subseteq judged
    /\ checkpoint =< head
    /\ next > 0 => checkpoint =< next

\* An attempt made fewer than RecentSize additions ago is still remembered, at
\* its place in the list.
Remembered(a) ==
    LET ago == adds - a.at
    IN  ago < RecentSize =>
            /\ ago < Len(recent)
            /\ recent[Len(recent) - ago] = feed[a.number]

\* Inductive part: the list of recent killmails against the attempts.
RecentInv ==
    /\ \A i \in 1..Len(attempts) : attempts[i].at =< adds /\ Remembered(attempts[i])
    /\ pc = "publish" =>
        /\ recent # <<>>
        /\ recent[Len(recent)] = feed[next]
        /\ \A i \in 1..Len(attempts) : feed[attempts[i].number] = feed[next] =>
               adds > attempts[i].at + RecentSize

OfRegion(i) == Topic(i) = RegionTopic

\* Inductive part: the accepted reports follow the feed, and the number being
\* read is not published a second time.
OrderInv ==
    /\ \A i \in Ids : OfRegion(i) =>
        /\ accepted[i].body >= 1 /\ accepted[i].body =< next
        /\ accepted[i].body = next =>
               pc # "publish" /\ feed[next] \in Elements(recent)
    /\ \A i, j \in Ids : i < j /\ OfRegion(i) /\ OfRegion(j) =>
           accepted[i].body < accepted[j].body

FeedInv ==
    /\ FeedTypeOK /\ WorkerInv /\ RecentInv /\ OrderInv
    /\ NoNumberIsPassedOver /\ RepeatsAreFarApart

IInv == FeedInv /\ PublisherInv
=============================================================================
