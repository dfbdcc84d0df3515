------------------------- MODULE RealtimePublisher -------------------------
(***************************************************************************)
(* The realtime publisher (backend/internal/realtime/topics.go).           *)
(*                                                                         *)
(* Every part of the backend that has news for the clients puts a message  *)
(* on one bounded queue, which never waits: a message that finds it full,  *)
(* or the publisher closed, is refused.  One goroutine takes the messages  *)
(* off in order and hands each to the clients that hold a subscription for *)
(* its topic, one client after the other; PocketBase's client channel is   *)
(* not buffered, so a client that does not read holds up all of them.      *)
(***************************************************************************)
EXTENDS Integers, Sequences, FiniteSets

CONSTANTS
    Clients,        \* realtime connections
    Topics,         \* names a client may subscribe to
    Bodies,         \* what a message may carry
    QueueSize       \* DefaultQueueSize

ASSUME RealtimePublisherAssumption == QueueSize \in Nat \ {0}

VARIABLES
    accepted,   \* history: the messages the queue took, in order; a message is
                \* known by its place in this sequence
    queue,      \* queue: the messages that wait
    sending,    \* the message the goroutine hands out, 0 for none
    pending,    \* clients the goroutine has still to come to
    closed,     \* closed: PublishJSON refuses everything
    running,    \* the goroutine has not returned
    subs,       \* subs[c]: the topics client c is subscribed to
    since,      \* history: since[c][t], the last message taken off the queue
                \* when the subscription of c to t began
    inbox       \* inbox[c]: the messages client c was sent, in order

line == <<accepted, queue>>
delivery == <<sending, pending>>
state == <<closed, running>>
clients == <<subs, since, inbox>>
publisherVars == <<line, delivery, state, clients>>

Ids == 1..Len(accepted)
Topic(i) == accepted[i].topic

\* The messages the goroutine has taken off.
Taken == Len(accepted) - Len(queue)

PublisherInit ==
    /\ accepted = <<>> /\ queue = <<>>
    /\ sending = 0 /\ pending = {}
    /\ closed = FALSE /\ running = TRUE
    /\ subs = [c \in Clients |-> {}]
    /\ since = [c \in Clients |-> [t \in Topics |-> 0]]
    /\ inbox = [c \in Clients |-> <<>>]

-----------------------------------------------------------------------------
(* realtime.Publisher *)

Refused == closed \/ Len(queue) >= QueueSize

\* Mutant: the queue makes room for the newest message.
AcceptDroppingOldest(t, b) ==
    /\ ~closed
    /\ accepted' = Append(accepted, [topic |-> t, body |-> b])
    /\ queue' = IF Len(queue) < QueueSize THEN Append(queue, Len(accepted) + 1)
                ELSE Append(Tail(queue), Len(accepted) + 1)
    /\ UNCHANGED <<delivery, state, clients>>

\* PublishJSON when the queue has room.
Accept(t, b) ==
    /\ ~Refused
    /\ accepted' = Append(accepted, [topic |-> t, body |-> b])
    /\ queue' = Append(queue, Len(accepted) + 1)
    /\ UNCHANGED <<delivery, state, clients>>

\* HasSubscribers.
HasSubscribers(t) == \E c \in Clients : t \in subs[c]

\* The goroutine takes the next message and lists the clients: the subscribed
\* ones and whoever else is connected.  It may do so after Stop as well, when
\* both channels are ready.
Take ==
    /\ running /\ sending = 0 /\ queue # <<>>
    /\ sending' = Head(queue)
    /\ queue' = Tail(queue)
    /\ \E connected \in SUBSET Clients :
        /\ {c \in Clients : Topic(Head(queue)) \in subs[c]} \subseteq connected
        /\ pending' = connected
    /\ UNCHANGED <<accepted, state, clients>>

\* One client of deliver: its subscription is read again, and Send waits until
\* the client takes the message.
Hand(c) ==
    /\ running /\ sending # 0 /\ c \in pending
    /\ inbox' = IF Topic(sending) \in subs[c]
                THEN [inbox EXCEPT ![c] = Append(@, sending)] ELSE inbox
    /\ pending' = pending \ {c}
    /\ UNCHANGED <<line, sending, state, subs, since>>

Delivered ==
    /\ running /\ sending # 0 /\ pending = {}
    /\ sending' = 0
    /\ UNCHANGED <<line, pending, state, clients>>

\* Stop refuses further messages; the goroutine may see it at its next round,
\* whatever the queue still holds.
Stop ==
    /\ ~closed
    /\ closed' = TRUE
    /\ UNCHANGED <<line, delivery, running, clients>>

Return ==
    /\ closed /\ running /\ sending = 0
    /\ running' = FALSE
    /\ UNCHANGED <<line, delivery, closed, clients>>

\* A subscribe request replaces the topics of the connection; a client that
\* goes away keeps none (PocketBase).
Subscribe(c, ts) ==
    /\ subs[c] # ts
    /\ since' = [since EXCEPT ![c] =
                   [t \in Topics |-> IF t \in ts \ subs[c] THEN Taken ELSE @[t]]]
    /\ subs' = [subs EXCEPT ![c] = ts]
    /\ UNCHANGED <<line, delivery, state, inbox>>

\* The process ends, at any point, and starts again without connections.
Restart ==
    /\ accepted' = <<>> /\ queue' = <<>>
    /\ sending' = 0 /\ pending' = {}
    /\ closed' = FALSE /\ running' = TRUE
    /\ subs' = [c \in Clients |-> {}]
    /\ since' = [c \in Clients |-> [t \in Topics |-> 0]]
    /\ inbox' = [c \in Clients |-> <<>>]

Deliver == Take \/ Delivered \/ \E c \in Clients : Hand(c)

PublisherNext ==
    \/ \E t \in Topics, b \in Bodies : Accept(t, b)
    \/ Deliver \/ Stop \/ Return \/ Restart
    \/ \E c \in Clients, ts \in SUBSET Topics : Subscribe(c, ts)

PublisherSpec == PublisherInit /\ [][PublisherNext]_publisherVars

-----------------------------------------------------------------------------
(* Properties *)

Message == [topic : Topics, body : Bodies]

PublisherTypeOK ==
    /\ accepted \in Seq(Message)
    /\ queue \in Seq(Nat \ {0})
    /\ Len(queue) \in 0..QueueSize
    /\ sending \in Nat /\ pending \subseteq Clients
    /\ closed \in BOOLEAN /\ running \in BOOLEAN
    /\ subs \in [Clients -> SUBSET Topics]
    /\ since \in [Clients -> [Topics -> Nat]]
    /\ inbox \in [Clients -> Seq(Nat \ {0})]

\* No client is sent messages out of the order in which they were accepted, and
\* none twice, however producers, deliveries and subscriptions interleave
\* (PublishJSON, run, deliver).
EveryInboxIsInOrder ==
    \A c \in Clients : \A i, j \in 1..Len(inbox[c]) :
        i < j => inbox[c][i] < inbox[c][j]

\* Client c still waits for message i.
Awaits(c, i) == sending = i /\ c \in pending

Got(c, i) == \E j \in 1..Len(inbox[c]) : inbox[c][j] = i

\* A client that has held a subscription since before a message came off the
\* queue was sent it or is about to be: between acceptance and delivery nothing
\* is lost, the refusals of a full queue excepted (deliver).
SubscribersMissNothing ==
    \A c \in Clients : \A t \in subs[c] : \A i \in since[c][t] + 1 .. Taken :
        Topic(i) = t => Got(c, i) \/ Awaits(c, i)

\* Inductive part: the queue holds the messages from Taken on, the goroutine
\* hands out the last one it took, and nobody was sent a later one.
LineInv ==
    /\ Len(queue) =< Len(accepted)
    /\ \A i \in 1..Len(queue) : queue[i] = Taken + i
    /\ sending # 0 => sending = Taken
    /\ sending = 0 => pending = {}

InboxInv ==
    \A c \in Clients : \A i \in 1..Len(inbox[c]) :
        /\ inbox[c][i] =< Taken
        /\ sending # 0 /\ c \in pending => inbox[c][i] < sending

SinceInv == \A c \in Clients, t \in Topics : since[c][t] =< Taken

PublisherInv ==
    /\ PublisherTypeOK /\ LineInv /\ InboxInv /\ SinceInv
    /\ EveryInboxIsInOrder /\ SubscribersMissNothing
=============================================================================
