-------------------------- MODULE ZkillFeed_proofs --------------------------
(***************************************************************************)
(* Proofs about the realtime publisher and the zKillboard worker, for      *)
(* every number of clients and topics, every feed and every size of the    *)
(* queue and of the list of recent killmails.                              *)
(*                                                                         *)
(* The publisher first, as it stands alone.  PublisherInv is inductive:    *)
(* LineInv says which messages the queue holds: those accepted last, in    *)
(* order, so that Taken is the last one that came off.  InboxInv bounds    *)
(* what a client was sent by that message, strictly for the clients the    *)
(* goroutine has still to come to; with it, handing the message over keeps *)
(* every inbox in order.                                                   *)
(*                                                                         *)
(* Worker and noise reach the publisher through its own actions only, so   *)
(* its lemmas are cited for the composition.  FeedInv is the worker's part *)
(* of the inductive invariant: WorkerInv places it in the                  *)
(* feed, RecentInv ties every attempt to publish to its place in the list  *)
(* of recent killmails, OrderInv ties the accepted reports to the number   *)
(* being read.                                                             *)
(***************************************************************************)
EXTENDS ZkillFeed, TLAPS

USE RealtimePublisherAssumption

LEMMA InitialPublisher == PublisherInit => PublisherInv
<1> SUFFICES ASSUME PublisherInit PROVE PublisherInv
  OBVIOUS
<1> USE DEF PublisherInit
<1>1. PublisherTypeOK
  <2>1. /\ sending \in Nat /\ pending \subseteq Clients
        /\ closed \in BOOLEAN /\ running \in BOOLEAN
    OBVIOUS
  <2>2. subs \in [Clients -> SUBSET Topics]
    OBVIOUS
  <2>3. [t \in Topics |-> 0] \in [Topics -> Nat]
    OBVIOUS
  <2>4. since \in [Clients -> [Topics -> Nat]]
    BY <2>3
  <2>5. <<>> \in Seq(Nat \ {0})
    OBVIOUS
  <2>6. inbox \in [Clients -> Seq(Nat \ {0})]
    BY <2>5
  <2>7. accepted \in Seq(Message) /\ queue \in Seq(Nat \ {0}) /\ Len(queue) \in 0..QueueSize
    OBVIOUS
  <2> QED
    BY <2>1, <2>2, <2>4, <2>6, <2>7 DEF PublisherTypeOK
<1>2. LineInv /\ InboxInv /\ SinceInv
  BY DEF LineInv, InboxInv, SinceInv, Taken
<1>3. EveryInboxIsInOrder /\ SubscribersMissNothing
  BY DEF EveryInboxIsInOrder, SubscribersMissNothing, Taken
<1> QED
  BY <1>1, <1>2, <1>3 DEF PublisherInv

LEMMA RestartedPublisher == Restart => PublisherInv'
<1> SUFFICES ASSUME Restart PROVE PublisherInv'
  OBVIOUS
<1> USE DEF Restart
<1>1. PublisherTypeOK'
  <2>1. /\ sending' \in Nat /\ pending' \subseteq Clients
        /\ closed' \in BOOLEAN /\ running' \in BOOLEAN
    OBVIOUS
  <2>2. subs' \in [Clients -> SUBSET Topics]
    OBVIOUS
  <2>3. [t \in Topics |-> 0] \in [Topics -> Nat]
    OBVIOUS
  <2>4. since' \in [Clients -> [Topics -> Nat]]
    BY <2>3
  <2>5. <<>> \in Seq(Nat \ {0})
    OBVIOUS
  <2>6. inbox' \in [Clients -> Seq(Nat \ {0})]
    BY <2>5
  <2>7. accepted' \in Seq(Message) /\ queue' \in Seq(Nat \ {0}) /\ Len(queue') \in 0..QueueSize
    OBVIOUS
  <2> QED
    BY <2>1, <2>2, <2>4, <2>6, <2>7 DEF PublisherTypeOK
<1>2. LineInv' /\ InboxInv' /\ SinceInv'
  BY DEF LineInv, InboxInv, SinceInv, Taken
<1>3. EveryInboxIsInOrder' /\ SubscribersMissNothing'
  BY DEF EveryInboxIsInOrder, SubscribersMissNothing, Taken
<1> QED
  BY <1>1, <1>2, <1>3 DEF PublisherInv

-----------------------------------------------------------------------------
(* A message is accepted: it waits behind the others, nothing else moves. *)

LEMMA AcceptKeeps ==
    ASSUME PublisherInv, NEW t \in Topics, NEW b \in Bodies, Accept(t, b)
    PROVE  PublisherInv'
<1> DEFINE m == [topic |-> t, body |-> b]
<1>1. /\ accepted \in Seq(Message) /\ queue \in Seq(Nat \ {0})
      /\ m \in Message /\ Len(accepted) \in Nat /\ Len(queue) \in Nat
  BY DEF PublisherInv, PublisherTypeOK, Message
<1>2. /\ accepted' = Append(accepted, m)
      /\ queue' = Append(queue, Len(accepted) + 1)
      /\ Len(queue) < QueueSize
      /\ UNCHANGED <<sending, pending, closed, running, subs, since, inbox>>
  BY <1>1 DEF Accept, Refused, delivery, state, clients, PublisherInv, PublisherTypeOK
<1> HIDE DEF m
<1>3. /\ accepted' \in Seq(Message) /\ Len(accepted') = Len(accepted) + 1
      /\ \A i \in 1..Len(accepted) : accepted'[i] = accepted[i]
  BY <1>1, <1>2
<1>4. /\ queue' \in Seq(Nat \ {0}) /\ Len(queue') = Len(queue) + 1
      /\ \A i \in 1..Len(queue) : queue'[i] = queue[i]
      /\ queue'[Len(queue) + 1] = Len(accepted) + 1
  BY <1>1, <1>2
<1>5. Taken' = Taken /\ Taken \in Int
  BY <1>1, <1>3, <1>4 DEF Taken
<1>6. PublisherTypeOK'
  BY <1>2, <1>3, <1>4 DEF PublisherInv, PublisherTypeOK
<1>7. LineInv'
  <2>1. Len(queue') =< Len(accepted')
    BY <1>1, <1>3, <1>4 DEF PublisherInv, LineInv
  <2>2. ASSUME NEW i \in 1..Len(queue') PROVE queue'[i] = Taken' + i
    <3>1. Taken' + (Len(queue) + 1) = Len(accepted) + 1
      BY <1>1, <1>5 DEF Taken
    <3>2. CASE i = Len(queue) + 1
      BY <3>1, <3>2, <1>4
    <3>3. CASE i # Len(queue) + 1
      <4>1. i \in 1..Len(queue)
        BY <3>3, <1>1, <1>4
      <4> QED BY <4>1, <1>4, <1>5 DEF PublisherInv, LineInv
    <3> QED BY <3>2, <3>3
  <2> QED
    BY <2>1, <2>2, <1>2, <1>5 DEF PublisherInv, LineInv
<1>8. InboxInv' /\ SinceInv' /\ EveryInboxIsInOrder'
  BY <1>2, <1>5 DEF PublisherInv, InboxInv, SinceInv, EveryInboxIsInOrder
<1>9. SubscribersMissNothing'
  <2> SUFFICES ASSUME NEW c \in Clients, NEW u \in subs[c],
                      NEW i \in since[c][u] + 1 .. Taken, Topic(i)' = u
               PROVE  Got(c, i) \/ Awaits(c, i)
    BY <1>2, <1>5 DEF SubscribersMissNothing, Got, Awaits
  <2>1. i \in 1..Len(accepted)
    <3>1. since[c][u] \in Nat
      BY DEF PublisherInv, PublisherTypeOK
    <3> QED BY <3>1, <1>1 DEF PublisherInv, LineInv, Taken
  <2>2. Topic(i) = u
    BY <2>1, <1>3 DEF Topic
  <2> QED
    BY <2>2 DEF PublisherInv, SubscribersMissNothing
<1> QED
  BY <1>6, <1>7, <1>8, <1>9 DEF PublisherInv

-----------------------------------------------------------------------------
(* The goroutine. *)

LEMMA TakeKeeps == PublisherInv /\ Take => PublisherInv'
<1> SUFFICES ASSUME PublisherInv, Take PROVE PublisherInv'
  OBVIOUS
<1>1. /\ accepted \in Seq(Message) /\ queue \in Seq(Nat \ {0}) /\ queue # <<>>
      /\ sending = 0
      /\ sending' = Head(queue) /\ queue' = Tail(queue)
      /\ pending' \subseteq Clients
      /\ \A c \in Clients : Topic(Head(queue)) \in subs[c] => c \in pending'
      /\ UNCHANGED <<accepted, closed, running, subs, since, inbox>>
  BY DEF Take, state, clients, PublisherInv, PublisherTypeOK
<1>2. /\ queue' \in Seq(Nat \ {0}) /\ Len(queue') = Len(queue) - 1 /\ Len(queue) >= 1
      /\ \A i \in 1..Len(queue') : queue'[i] = queue[i + 1]
  BY <1>1
<1>3. Taken \in Nat /\ Taken' = Taken + 1 /\ sending' = Taken + 1
  BY <1>1, <1>2 DEF Taken, PublisherInv, LineInv
<1>4. PublisherTypeOK'
  BY <1>1, <1>2, <1>3 DEF PublisherInv, PublisherTypeOK
<1>5. LineInv'
  BY <1>1, <1>2, <1>3 DEF PublisherInv, LineInv
<1>6. InboxInv'
  <2> SUFFICES ASSUME NEW c \in Clients, NEW i \in 1..Len(inbox[c])
               PROVE  inbox[c][i] \in Nat /\ inbox[c][i] =< Taken
    BY <1>1, <1>3 DEF InboxInv
  <2>1. inbox[c] \in Seq(Nat \ {0})
    BY DEF PublisherInv, PublisherTypeOK
  <2> QED BY <2>1 DEF PublisherInv, InboxInv
<1>7. SinceInv'
  BY <1>1, <1>3 DEF PublisherInv, PublisherTypeOK, SinceInv
<1>8. EveryInboxIsInOrder'
  BY <1>1 DEF PublisherInv, EveryInboxIsInOrder
<1>9. SubscribersMissNothing'
  <2> SUFFICES ASSUME NEW c \in Clients, NEW u \in subs[c],
                      NEW i \in since[c][u] + 1 .. Taken + 1, Topic(i) = u
               PROVE  Got(c, i) \/ Awaits(c, i)'
    BY <1>1, <1>3 DEF SubscribersMissNothing, Got, Topic
  <2>0. since[c][u] \in Nat
    BY DEF PublisherInv, PublisherTypeOK
  <2>1. CASE i = Taken + 1
    BY <2>1, <1>1, <1>3 DEF Awaits
  <2>2. CASE i # Taken + 1
    <3>1. i \in since[c][u] + 1 .. Taken
      BY <2>0, <2>2, <1>3
    <3>2. ~Awaits(c, i)
      BY <3>1, <2>0, <1>1 DEF Awaits
    <3> QED
      BY <3>1, <3>2 DEF PublisherInv, SubscribersMissNothing
  <2> QED BY <2>1, <2>2
<1> QED
  BY <1>4, <1>5, <1>6, <1>7, <1>8, <1>9 DEF PublisherInv

LEMMA HandKeeps ==
    ASSUME PublisherInv, NEW d \in Clients, Hand(d)
    PROVE  PublisherInv'
<1>1. /\ sending # 0 /\ sending = Taken /\ sending \in Nat
      /\ d \in pending /\ pending' = pending \ {d}
      /\ UNCHANGED <<accepted, queue, sending, closed, running, subs, since>>
  BY DEF Hand, line, state, PublisherInv, PublisherTypeOK, LineInv
<1>2. Taken' = Taken /\ inbox \in [Clients -> Seq(Nat \ {0})]
  BY <1>1 DEF Taken, PublisherInv, PublisherTypeOK
<1>3. /\ inbox' \in [Clients -> Seq(Nat \ {0})]
      /\ \A c \in Clients \ {d} : inbox'[c] = inbox[c]
  BY <1>1, <1>2 DEF Hand
<1>4. \/ Topic(sending) \in subs[d] /\ inbox'[d] = Append(inbox[d], sending)
      \/ Topic(sending) \notin subs[d] /\ inbox'[d] = inbox[d]
  BY <1>2 DEF Hand
<1>5. /\ Len(inbox[d]) \in Nat /\ Len(inbox'[d]) \in Nat
      /\ Len(inbox[d]) =< Len(inbox'[d])
      /\ \A i \in 1..Len(inbox[d]) : inbox'[d][i] = inbox[d][i]
      /\ \A i \in 1..Len(inbox'[d]) :
            i \in 1..Len(inbox[d]) \/ (i = Len(inbox[d]) + 1 /\ inbox'[d][i] = sending)
  <2>1. inbox[d] \in Seq(Nat \ {0}) /\ Len(inbox[d]) \in Nat
    BY <1>2
  <2>2. CASE inbox'[d] = inbox[d]
    BY <2>1, <2>2
  <2>3. CASE inbox'[d] = Append(inbox[d], sending)
    <3>1. /\ Len(inbox'[d]) = Len(inbox[d]) + 1
          /\ \A i \in 1..Len(inbox[d]) : inbox'[d][i] = inbox[d][i]
          /\ inbox'[d][Len(inbox[d]) + 1] = sending
      BY <2>1, <2>3, <1>1
    <3> QED BY <2>1, <3>1
  <2> QED BY <2>2, <2>3, <1>4
<1>6. \A i \in 1..Len(inbox[d]) : inbox[d][i] < sending
  BY <1>1 DEF PublisherInv, InboxInv
<1>7. PublisherTypeOK'
  BY <1>1, <1>3 DEF PublisherInv, PublisherTypeOK
<1>8. LineInv'
  BY <1>1, <1>2 DEF PublisherInv, LineInv
<1>9. InboxInv'
  <2> SUFFICES ASSUME NEW c \in Clients, NEW i \in 1..Len(inbox'[c])
               PROVE  /\ inbox'[c][i] =< Taken
                      /\ c \in pending' => inbox'[c][i] < sending
    BY <1>1, <1>2 DEF InboxInv
  <2>1. CASE c = d
    <3>1. CASE i \in 1..Len(inbox[d])
      <4>1. inbox[d] \in Seq(Nat \ {0})
        BY <1>2
      <4>2. inbox[d][i] \in Nat /\ inbox[d][i] < sending
        BY <4>1, <3>1, <1>6
      <4> QED BY <4>2, <3>1, <2>1, <1>1, <1>5
    <3>2. CASE inbox'[d][i] = sending
      BY <3>2, <2>1, <1>1
    <3> QED BY <3>1, <3>2, <2>1, <1>5
  <2>2. CASE c # d
    BY <2>2, <1>1, <1>3 DEF PublisherInv, InboxInv
  <2> QED BY <2>1, <2>2
<1>10. SinceInv'
  BY <1>1, <1>2 DEF PublisherInv, SinceInv
<1>11. EveryInboxIsInOrder'
  <2> SUFFICES ASSUME NEW c \in Clients, NEW i \in 1..Len(inbox'[c]),
                      NEW j \in 1..Len(inbox'[c]), i < j
               PROVE  inbox'[c][i] < inbox'[c][j]
    BY DEF EveryInboxIsInOrder
  <2>1. CASE c = d
    <3>1. i \in 1..Len(inbox[d])
      BY <2>1, <1>5
    <3> QED BY <3>1, <2>1, <1>5, <1>6 DEF PublisherInv, EveryInboxIsInOrder
  <2>2. CASE c # d
    BY <2>2, <1>3 DEF PublisherInv, EveryInboxIsInOrder
  <2> QED BY <2>1, <2>2
<1>12. SubscribersMissNothing'
  <2> SUFFICES ASSUME NEW c \in Clients, NEW u \in subs[c],
                      NEW i \in since[c][u] + 1 .. Taken, Topic(i) = u
               PROVE  Got(c, i)' \/ Awaits(c, i)'
    BY <1>1, <1>2 DEF SubscribersMissNothing, Topic
  <2>1. Got(c, i) \/ Awaits(c, i)
    BY DEF PublisherInv, SubscribersMissNothing
  <2>2. CASE c # d
    BY <2>1, <2>2, <1>1, <1>3 DEF Got, Awaits
  <2>3. CASE c = d /\ Got(c, i)
    <3>1. PICK j \in 1..Len(inbox[d]) : inbox[d][j] = i
      BY <2>3 DEF Got
    <3>2. j \in 1..Len(inbox'[d]) /\ inbox'[d][j] = i
      BY <3>1, <1>5
    <3> QED BY <3>2, <2>3 DEF Got
  <2>4. CASE c = d /\ Awaits(c, i)
    <3>1. sending = i /\ inbox'[d] = Append(inbox[d], sending)
      BY <2>4, <1>4 DEF Awaits
    <3>2. inbox[d] \in Seq(Nat \ {0})
      BY <1>2
    <3>3. /\ Len(inbox[d]) + 1 \in 1..Len(inbox'[d])
          /\ inbox'[d][Len(inbox[d]) + 1] = i
      BY <3>1, <3>2, <1>1
    <3> QED BY <3>3, <2>4 DEF Got
  <2> QED BY <2>1, <2>2, <2>3, <2>4
<1> QED
  BY <1>7, <1>8, <1>9, <1>10, <1>11, <1>12 DEF PublisherInv

LEMMA DeliveredKeeps == PublisherInv /\ Delivered => PublisherInv'
<1> SUFFICES ASSUME PublisherInv, Delivered PROVE PublisherInv'
  OBVIOUS
<1>1. /\ pending = {} /\ sending' = 0
      /\ UNCHANGED <<accepted, queue, pending, closed, running, subs, since, inbox>>
  BY DEF Delivered, line, state, clients
<1>2. PublisherTypeOK' /\ LineInv' /\ InboxInv' /\ SinceInv' /\ EveryInboxIsInOrder'
  BY <1>1 DEF PublisherInv, PublisherTypeOK, LineInv, InboxInv, SinceInv,
              EveryInboxIsInOrder, Taken
<1>3. SubscribersMissNothing'
  BY <1>1 DEF PublisherInv, SubscribersMissNothing, Got, Awaits, Topic, Taken
<1> QED
  BY <1>2, <1>3 DEF PublisherInv

-----------------------------------------------------------------------------
(* The end of the publisher, and the subscriptions. *)

LEMMA StopKeeps == PublisherInv /\ (Stop \/ Return) => PublisherInv'
<1> SUFFICES ASSUME PublisherInv, Stop \/ Return PROVE PublisherInv'
  OBVIOUS
<1>1. /\ closed' \in BOOLEAN /\ running' \in BOOLEAN
      /\ UNCHANGED <<accepted, queue, sending, pending, subs, since, inbox>>
  BY DEF Stop, Return, line, delivery, clients, PublisherInv, PublisherTypeOK
<1>2. PublisherTypeOK' /\ LineInv' /\ InboxInv' /\ SinceInv' /\ EveryInboxIsInOrder'
  BY <1>1 DEF PublisherInv, PublisherTypeOK, LineInv, InboxInv, SinceInv,
              EveryInboxIsInOrder, Taken
<1>3. SubscribersMissNothing'
  BY <1>1 DEF PublisherInv, SubscribersMissNothing, Got, Awaits, Topic, Taken
<1> QED
  BY <1>2, <1>3 DEF PublisherInv

LEMMA SubscribeKeeps ==
    ASSUME PublisherInv, NEW d \in Clients, NEW ts \in SUBSET Topics, Subscribe(d, ts)
    PROVE  PublisherInv'
<1>1. UNCHANGED <<accepted, queue, sending, pending, closed, running, inbox>>
  BY DEF Subscribe, line, delivery, state
<1>2. Taken' = Taken /\ Taken \in Nat
  BY <1>1 DEF Taken, PublisherInv, PublisherTypeOK, LineInv
<1>3. subs' = [subs EXCEPT ![d] = ts] /\ subs' \in [Clients -> SUBSET Topics]
  BY DEF Subscribe, PublisherInv, PublisherTypeOK
<1>4. /\ since' \in [Clients -> [Topics -> Nat]]
      /\ \A c \in Clients, t \in Topics :
            since'[c][t] = since[c][t] \/ (c = d /\ t \in ts \ subs[d] /\ since'[c][t] = Taken)
      /\ \A t \in ts \ subs[d] : since'[d][t] = Taken
  <2> DEFINE f == [t \in Topics |-> IF t \in ts \ subs[d] THEN Taken ELSE since[d][t]]
  <2>1. since \in [Clients -> [Topics -> Nat]]
    BY DEF PublisherInv, PublisherTypeOK
  <2>2. since' = [since EXCEPT ![d] = f]
    BY DEF Subscribe
  <2>3. f \in [Topics -> Nat]
    BY <2>1, <1>2
  <2>4. \A t \in Topics : f[t] = IF t \in ts \ subs[d] THEN Taken ELSE since[d][t]
    OBVIOUS
  <2> HIDE DEF f
  <2>5. since'[d] = f /\ \A c \in Clients \ {d} : since'[c] = since[c]
    BY <2>1, <2>2
  <2>6. since' \in [Clients -> [Topics -> Nat]]
    BY <2>1, <2>2, <2>3
  <2> QED BY <2>4, <2>5, <2>6
<1>5. PublisherTypeOK'
  BY <1>1, <1>3, <1>4 DEF PublisherInv, PublisherTypeOK
<1>6. LineInv' /\ InboxInv' /\ EveryInboxIsInOrder'
  BY <1>1, <1>2 DEF PublisherInv, LineInv, InboxInv, EveryInboxIsInOrder
<1>7. SinceInv'
  BY <1>2, <1>4 DEF PublisherInv, SinceInv
<1>8. SubscribersMissNothing'
  <2> SUFFICES ASSUME NEW c \in Clients, NEW u \in subs'[c],
                      NEW i \in since'[c][u] + 1 .. Taken, Topic(i) = u
               PROVE  Got(c, i) \/ Awaits(c, i)
    BY <1>1, <1>2 DEF SubscribersMissNothing, Got, Awaits, Topic
  <2>1. u \in Topics
    BY <1>3
  <2>2. since'[c][u] # Taken
    <3>1. since'[c][u] \in Nat
      BY <2>1, <1>4
    <3> QED BY <3>1, <1>2
  <2>3. since'[c][u] = since[c][u]
    BY <2>1, <2>2, <1>4
  <2>4. u \in subs[c]
    BY <2>2, <1>3, <1>4 DEF PublisherInv, PublisherTypeOK
  <2> QED
    BY <2>3, <2>4 DEF PublisherInv, SubscribersMissNothing
<1> QED
  BY <1>5, <1>6, <1>7, <1>8 DEF PublisherInv

LEMMA PublisherStepKeeps ==
    PublisherInv /\ [PublisherNext]_publisherVars => PublisherInv'
<1> SUFFICES ASSUME PublisherInv, [PublisherNext]_publisherVars PROVE PublisherInv'
  OBVIOUS
<1>1. CASE \E t \in Topics, b \in Bodies : Accept(t, b)
  BY <1>1, AcceptKeeps
<1>2. CASE Deliver
  BY <1>2, TakeKeeps, HandKeeps, DeliveredKeeps DEF Deliver
<1>3. CASE Stop \/ Return
  BY <1>3, StopKeeps
<1>4. CASE Restart
  BY <1>4, RestartedPublisher
<1>5. CASE \E c \in Clients, ts \in SUBSET Topics : Subscribe(c, ts)
  BY <1>5, SubscribeKeeps
<1>6. CASE UNCHANGED publisherVars
  <2>1. UNCHANGED <<accepted, queue, sending, pending, closed, running, subs, since, inbox>>
    BY <1>6 DEF publisherVars, line, delivery, state, clients
  <2>2. PublisherTypeOK' /\ LineInv' /\ InboxInv' /\ SinceInv' /\ EveryInboxIsInOrder'
    BY <2>1 DEF PublisherInv, PublisherTypeOK, LineInv, InboxInv, SinceInv,
                EveryInboxIsInOrder, Taken
  <2>3. SubscribersMissNothing'
    BY <2>1 DEF PublisherInv, SubscribersMissNothing, Got, Awaits, Topic, Taken
  <2> QED BY <2>2, <2>3 DEF PublisherInv
<1> QED
  BY <1>1, <1>2, <1>3, <1>4, <1>5, <1>6 DEF PublisherNext

\* The publisher keeps its invariant in every execution (realtime/topics.go).
THEOREM PublisherInvariant == PublisherSpec => []PublisherInv
<1>1. PublisherInit => PublisherInv
  BY InitialPublisher
<1>2. PublisherInv /\ [PublisherNext]_publisherVars => PublisherInv'
  BY PublisherStepKeeps
<1> QED
  BY <1>1, <1>2, PTL DEF PublisherSpec

\* For any number of clients and topics, any queue and any interleaving, each
\* client is sent messages in the order of their acceptance and none twice (run,
\* deliver).
THEOREM InboxesAreInOrder == PublisherSpec => []EveryInboxIsInOrder
<1>1. PublisherInv => EveryInboxIsInOrder
  BY DEF PublisherInv
<1> QED
  BY <1>1, PublisherInvariant, PTL

\* What the queue took reaches every client subscribed since before it came off
\* the queue (deliver).
THEOREM NothingIsMissed == PublisherSpec => []SubscribersMissNothing
<1>1. PublisherInv => SubscribersMissNothing
  BY DEF PublisherInv
<1> QED
  BY <1>1, PublisherInvariant, PTL

-----------------------------------------------------------------------------
(* The worker beside the publisher. *)

LEMMA FeedConstants ==
    /\ MaxSequence \in Nat \ {0} /\ MaxFetchPerTick \in Nat \ {0}
    /\ RecentSize \in Nat \ {0} /\ RegionTopic \in Topics
    /\ Numbers = 1..MaxSequence /\ Bodies = 0..MaxSequence
  BY ZkillFeedAssumption DEF Numbers

LEMMA AcceptedBodies ==
    PublisherInv => \A i \in Ids : accepted[i].body \in Int
<1> SUFFICES ASSUME PublisherInv, NEW i \in Ids PROVE accepted[i].body \in Int
  OBVIOUS
<1>1. accepted \in Seq(Message)
  BY DEF PublisherInv, PublisherTypeOK
<1>2. accepted[i] \in Message
  BY <1>1 DEF Ids
<1> QED
  BY <1>2, FeedConstants DEF Message

-----------------------------------------------------------------------------
(* Every step is one of the publisher, or none of it: by the way the       *)
(* actions are written, which lets the lemmas above be cited.              *)

LEMMA StepIsOfPublisher ==
    FeedTypeOK /\ WorkerInv /\ [Next]_vars => [PublisherNext]_publisherVars
<1> SUFFICES ASSUME FeedTypeOK, WorkerInv, [Next]_vars
             PROVE  [PublisherNext]_publisherVars
  OBVIOUS
<1>1. CASE Publish
  <2>1. next \in Bodies /\ RegionTopic \in Topics
    BY <1>1, FeedConstants DEF Publish, FeedTypeOK, WorkerInv
  <2> QED
    BY <1>1, <2>1 DEF Publish, PublisherNext
<1>2. CASE Noise
  BY <1>2, FeedConstants DEF Noise, PublisherNext
<1>3. CASE ProcessRestart
  BY <1>3 DEF ProcessRestart, PublisherNext
<1>4. CASE PublisherStep
  <2>1. CASE \E c \in Clients, ts \in SUBSET {RegionTopic} : Subscribe(c, ts)
    BY <2>1, FeedConstants DEF PublisherNext
  <2> QED
    BY <2>1, <1>4 DEF PublisherStep, PublisherNext
<1>5. CASE Step /\ ~Publish
  BY <1>5 DEF Step, Round, Bootstrap, BootstrapFails, FetchOK, FetchStops, Handle, SaveOK, SaveFails
<1>6. CASE Listed \/ (\E k \in Reportable : GrowsOld(k)) \/ Terminate
  BY <1>6 DEF Listed, GrowsOld, Terminate
<1>7. CASE UNCHANGED vars
  BY <1>7 DEF vars
<1> QED
  BY <1>1, <1>2, <1>3, <1>4, <1>5, <1>6, <1>7 DEF Next

-----------------------------------------------------------------------------
(* Steps that move the worker and change nothing it remembers. *)

LEMMA Moves ==
    ASSUME FeedInv,
           UNCHANGED <<feed, head, age, next, recent, start, judged, adds, attempts,
                       checkpoint, cancelled, noise, restarts, accepted>>,
           pc' \in {"wait", "bootstrap", "fetch", "handle", "save", "done"},
           pc' = "bootstrap" => next = 0,
           processed' \in 0..MaxFetchPerTick,
           pc' = "fetch" => next >= 1,
           pc' \in {"handle", "save"} =>
               next >= 1 /\ next =< head /\ processed' < MaxFetchPerTick,
           pc' = "handle" => IsKill(next),
           pc' = "save" /\ IsKill(next) => feed[next] \in judged
    PROVE  FeedInv'
<1>1. FeedTypeOK'
  BY DEF FeedInv, FeedTypeOK
<1>2. WorkerInv'
  BY DEF FeedInv, WorkerInv, IsKill, Elements
<1>3. RecentInv'
  BY DEF FeedInv, RecentInv, Remembered
<1>4. OrderInv'
  BY DEF FeedInv, OrderInv, OfRegion, Ids, Topic, Elements
<1>5. NoNumberIsPassedOver' /\ RepeatsAreFarApart'
  BY DEF FeedInv, NoNumberIsPassedOver, RepeatsAreFarApart, IsKill
<1> QED
  BY <1>1, <1>2, <1>3, <1>4, <1>5 DEF FeedInv

LEMMA MovesKeep ==
    ASSUME FeedInv, Round \/ BootstrapFails \/ FetchOK \/ FetchStops \/ SaveFails
    PROVE  FeedInv'
<1>1. /\ UNCHANGED <<feed, head, age, next, recent, start, judged, adds, attempts,
                     checkpoint, cancelled, noise, restarts, accepted>>
      /\ pc' \in {"wait", "bootstrap", "fetch", "handle", "save", "done"}
  BY DEF Round, BootstrapFails, FetchOK, FetchStops, SaveFails, Goto, zkill, bounds,
         publisherVars, line
<1>2. processed' \in 0..MaxFetchPerTick
  BY FeedConstants DEF Round, BootstrapFails, FetchOK, FetchStops, SaveFails, Goto, FeedInv, FeedTypeOK
<1>3. next \in 0..MaxSequence + 1 /\ processed \in 0..MaxFetchPerTick
  BY DEF FeedInv, FeedTypeOK
<1>4. (pc' = "fetch" => next >= 1) /\ (pc' = "bootstrap" => next = 0)
  BY <1>3, FeedConstants DEF Round, BootstrapFails, FetchOK, FetchStops, SaveFails, Goto
<1>5. pc' \in {"handle", "save"} => FetchOK
  BY DEF Round, BootstrapFails, FetchOK, FetchStops, SaveFails, Goto
<1>6. pc' \in {"handle", "save"} =>
        next >= 1 /\ next =< head /\ processed' < MaxFetchPerTick
  BY <1>5 DEF FetchOK, Goto, FeedInv, WorkerInv
<1>7. pc' = "handle" => IsKill(next)
  BY <1>5 DEF FetchOK, Goto
<1>8. ~(pc' = "save" /\ IsKill(next))
  BY <1>5 DEF FetchOK, Goto
<1> QED
  BY <1>1, <1>2, <1>4, <1>6, <1>7, <1>8, Moves

-----------------------------------------------------------------------------
(* The worker takes up a number, and leaves it. *)

LEMMA BootstrapKeeps == IInv /\ Bootstrap => FeedInv'
<1> SUFFICES ASSUME IInv, Bootstrap PROVE FeedInv'
  OBVIOUS
<1>1. /\ pc = "bootstrap"
      /\ next' = head /\ start' = head /\ pc' = "fetch" /\ processed' = 0
      /\ UNCHANGED <<feed, head, age, recent, judged, adds, attempts,
                     checkpoint, cancelled, noise, restarts, accepted>>
  BY DEF Bootstrap, zkill, bounds, publisherVars, line
<1>2. next = 0 /\ head \in 1..MaxSequence
  BY <1>1, FeedConstants DEF IInv, FeedInv, FeedTypeOK, WorkerInv
<1>3. FeedTypeOK'
  BY <1>1, <1>2, FeedConstants DEF IInv, FeedInv, FeedTypeOK
<1>4. WorkerInv'
  BY <1>1, <1>2 DEF IInv, FeedInv, WorkerInv, IsKill, Elements
<1>5. RecentInv'
  BY <1>1 DEF IInv, FeedInv, RecentInv, Remembered
<1>6. OrderInv'
  <2>1. \A i \in Ids : ~OfRegion(i)
    BY <1>2, AcceptedBodies DEF IInv, FeedInv, OrderInv
  <2> QED
    BY <1>1, <2>1 DEF OrderInv, OfRegion, Ids, Topic
<1>7. NoNumberIsPassedOver' /\ RepeatsAreFarApart'
  BY <1>1, <1>2 DEF IInv, FeedInv, NoNumberIsPassedOver, RepeatsAreFarApart
<1> QED
  BY <1>3, <1>4, <1>5, <1>6, <1>7 DEF FeedInv

LEMMA SaveKeeps == IInv /\ SaveOK => FeedInv'
<1> SUFFICES ASSUME IInv, SaveOK PROVE FeedInv'
  OBVIOUS
<1>1. /\ pc = "save" /\ pc' = "fetch" /\ checkpoint' = next /\ next' = next + 1
      /\ processed' = processed + 1
      /\ UNCHANGED <<feed, head, age, recent, start, judged, adds, attempts,
                     cancelled, noise, restarts, accepted>>
  BY DEF SaveOK, zkill, bounds, publisherVars, line
<1>2. /\ next \in 1..MaxSequence /\ next =< head /\ head \in 1..MaxSequence
      /\ processed \in 0..MaxFetchPerTick /\ processed < MaxFetchPerTick
      /\ start \in 0..MaxSequence /\ start =< next
  BY <1>1, FeedConstants DEF IInv, FeedInv, FeedTypeOK, WorkerInv
<1>3. FeedTypeOK'
  BY <1>1, <1>2, FeedConstants DEF IInv, FeedInv, FeedTypeOK
<1>4. WorkerInv'
  BY <1>1, <1>2 DEF IInv, FeedInv, WorkerInv, IsKill, Elements
<1>5. RecentInv'
  BY <1>1 DEF IInv, FeedInv, RecentInv, Remembered
<1>6. OrderInv'
  <2> SUFFICES ASSUME NEW i \in Ids, OfRegion(i)
               PROVE  /\ accepted[i].body >= 1 /\ accepted[i].body =< next + 1
                      /\ accepted[i].body # next + 1
    BY <1>1, <1>2 DEF IInv, FeedInv, OrderInv, OfRegion, Ids, Topic, Elements
  <2>1. accepted[i].body >= 1 /\ accepted[i].body =< next /\ accepted[i].body \in Int
    BY AcceptedBodies DEF IInv, FeedInv, OrderInv
  <2> QED
    BY <2>1, <1>2
<1>7. NoNumberIsPassedOver'
  <2> SUFFICES ASSUME NEW s \in start..next, s > 0, IsKill(s)
               PROVE  feed[s] \in judged
    BY <1>1, <1>2 DEF NoNumberIsPassedOver, IsKill
  <2>1. CASE s = next
    BY <2>1, <1>1 DEF IInv, FeedInv, WorkerInv
  <2>2. CASE s # next
    BY <2>2, <1>2 DEF IInv, FeedInv, NoNumberIsPassedOver
  <2> QED BY <2>1, <2>2
<1>8. RepeatsAreFarApart'
  BY <1>1 DEF IInv, FeedInv, RepeatsAreFarApart
<1> QED
  BY <1>3, <1>4, <1>5, <1>6, <1>7, <1>8 DEF FeedInv

-----------------------------------------------------------------------------
(* handleEvent. *)

\* The list after an addition: k is last, the others moved to the front by what
\* was dropped.
LEMMA AddFacts ==
    ASSUME FeedTypeOK, NEW k \in Kills, Add(k)
    PROVE  /\ recent' \in Seq(Kills) /\ Len(recent') \in 1..RecentSize
           /\ recent'[Len(recent')] = k
           /\ Elements(recent') \subseteq Elements(recent) \cup {k}
           /\ k \in Elements(recent')
           /\ \A d \in Nat : d < Len(recent) /\ d + 1 < RecentSize =>
                 /\ d + 1 < Len(recent')
                 /\ recent'[Len(recent') - (d + 1)] = recent[Len(recent) - d]
<1> DEFINE all == Append(recent, k)
<1>1. recent \in Seq(Kills) /\ Len(recent) \in 0..RecentSize /\ RecentSize \in Nat \ {0}
  BY FeedConstants DEF FeedTypeOK
<1>2. /\ all \in Seq(Kills) /\ Len(all) = Len(recent) + 1 /\ all[Len(recent) + 1] = k
      /\ \A i \in 1..Len(recent) : all[i] = recent[i]
  BY <1>1
<1>3. recent' = IF Len(all) =< RecentSize THEN all ELSE Tail(all)
  BY DEF Add
<1> HIDE DEF all
<1>4. CASE Len(all) =< RecentSize
  <2>1. recent' = all
    BY <1>3, <1>4
  <2>2. \A i \in 1..Len(recent') : recent'[i] \in Elements(recent) \cup {k}
    BY <1>1, <1>2, <2>1 DEF Elements
  <2>3. k \in Elements(recent')
    BY <1>1, <1>2, <2>1 DEF Elements
  <2> QED
    BY <1>1, <1>2, <1>4, <2>1, <2>2, <2>3 DEF Elements
<1>5. CASE ~(Len(all) =< RecentSize)
  <2>1. recent' = Tail(all)
    BY <1>3, <1>5
  <2>2. Len(all) = RecentSize + 1 /\ all # <<>>
    BY <1>1, <1>2, <1>5
  <2>3. /\ recent' \in Seq(Kills) /\ Len(recent') = RecentSize
        /\ \A i \in 1..RecentSize : recent'[i] = all[i + 1]
    BY <1>1, <1>2, <2>1, <2>2
  <2>4. ASSUME NEW i \in 1..Len(recent') PROVE recent'[i] \in Elements(recent) \cup {k}
    <3>1. recent'[i] = all[i + 1] /\ Len(recent) = RecentSize
      BY <1>1, <1>2, <2>2, <2>3
    <3>2. CASE i = Len(recent)
      BY <3>1, <3>2, <1>2
    <3>3. CASE i # Len(recent)
      <4>1. i + 1 \in 1..Len(recent)
        BY <3>1, <3>3, <1>1, <2>3
      <4> QED BY <4>1, <3>1, <1>2 DEF Elements
    <3> QED BY <3>2, <3>3
  <2>5. k \in Elements(recent')
    BY <1>1, <1>2, <2>2, <2>3 DEF Elements
  <2>6. Elements(recent') \subseteq Elements(recent) \cup {k}
    BY <2>4 DEF Elements
  <2>7. recent'[Len(recent')] = k /\ Len(recent') \in 1..RecentSize
    BY <1>1, <1>2, <2>2, <2>3
  <2>8. ASSUME NEW d \in Nat, d < Len(recent), d + 1 < RecentSize
        PROVE  d + 1 < Len(recent') /\ recent'[Len(recent') - (d + 1)] = recent[Len(recent) - d]
    <3>1. /\ Len(recent) = RecentSize /\ Len(recent') - (d + 1) \in 1..RecentSize
          /\ Len(recent') - (d + 1) + 1 = Len(recent) - d
          /\ Len(recent) - d \in 1..Len(recent)
      BY <2>8, <1>1, <1>2, <2>2, <2>3
    <3> QED BY <3>1, <2>8, <2>3, <1>1, <1>2
  <2> QED
    BY <2>3, <2>5, <2>6, <2>7, <2>8
<1> QED
  BY <1>4, <1>5

LEMMA HandleKeeps == IInv /\ Handle => FeedInv'
<1> SUFFICES ASSUME IInv, Handle PROVE FeedInv'
  OBVIOUS
<1> DEFINE k == feed[next]
<1>1. /\ pc = "handle" /\ k \in Kills /\ next \in 1..MaxSequence
      /\ next =< head /\ processed < MaxFetchPerTick
  BY FeedConstants DEF Handle, IInv, FeedInv, FeedTypeOK, WorkerInv, IsKill
<1>2. CASE k \in Elements(recent)
  <2>1. /\ UNCHANGED <<feed, head, age, next, processed, recent, start, judged, adds,
                       attempts, checkpoint, cancelled, noise, restarts, accepted>>
        /\ pc' = "save"
    BY <1>2 DEF Handle, Goto, zkill, bounds, publisherVars, line
  <2>2. k \in judged /\ processed' \in 0..MaxFetchPerTick
    BY <1>2, <2>1 DEF IInv, FeedInv, FeedTypeOK, WorkerInv
  <2> QED
    BY <1>1, <2>1, <2>2, Moves DEF IInv
<1>3. CASE k \notin Elements(recent)
  <2>1. /\ Add(k) /\ adds' = adds + 1 /\ judged' = judged \cup {k}
        /\ pc' \in {"publish", "save"}
        /\ UNCHANGED <<feed, head, age, next, processed, start, attempts,
                       checkpoint, cancelled, noise, restarts, accepted>>
    BY <1>3 DEF Handle, zkill, bounds, publisherVars, line
  <2>2. /\ recent' \in Seq(Kills) /\ Len(recent') \in 1..RecentSize
        /\ recent'[Len(recent')] = k
        /\ Elements(recent') \subseteq Elements(recent) \cup {k}
        /\ k \in Elements(recent')
        /\ \A d \in Nat : d < Len(recent) /\ d + 1 < RecentSize =>
              /\ d + 1 < Len(recent')
              /\ recent'[Len(recent') - (d + 1)] = recent[Len(recent) - d]
    BY <1>1, <2>1, AddFacts DEF IInv, FeedInv
  <2> HIDE DEF k
  <2>3. FeedTypeOK'
    BY <1>1, <2>1, <2>2, FeedConstants DEF IInv, FeedInv, FeedTypeOK
  <2>4. WorkerInv'
    BY <1>1, <2>1, <2>2 DEF k, IInv, FeedInv, WorkerInv, IsKill, Elements
  <2>5. ASSUME NEW i \in 1..Len(attempts)
        PROVE  /\ attempts[i].at =< adds + 1
               /\ Remembered(attempts[i])'
               /\ feed[attempts[i].number] = k => adds + 1 > attempts[i].at + RecentSize
    <3> DEFINE ago == adds - attempts[i].at
    <3>1. attempts \in Seq(Attempt) /\ adds \in Nat /\ recent \in Seq(Kills)
      BY DEF IInv, FeedInv, FeedTypeOK
    <3>2. attempts[i] \in Attempt
      BY <3>1
    <3>3. attempts[i].at \in Nat /\ attempts[i].at =< adds /\ Remembered(attempts[i])
      BY <3>2 DEF Attempt, IInv, FeedInv, RecentInv
    <3>4. ago \in Nat /\ adds' - attempts'[i].at = ago + 1
      BY <2>1, <3>1, <3>3
    <3>5. ago < RecentSize =>
            ago < Len(recent) /\ recent[Len(recent) - ago] = feed[attempts[i].number]
      BY <3>3 DEF Remembered
    <3> HIDE DEF ago
    <3>6. Remembered(attempts[i])'
      <4> SUFFICES ASSUME ago + 1 < RecentSize
                   PROVE  /\ ago + 1 < Len(recent')
                          /\ recent'[Len(recent') - (ago + 1)] = feed[attempts[i].number]
        BY <2>1, <3>4 DEF Remembered
      <4>1. ago < RecentSize
        BY <3>4, FeedConstants
      <4> QED BY <4>1, <3>4, <3>5, <2>2
    <3>7. ASSUME feed[attempts[i].number] = k PROVE ago >= RecentSize
      <4>1. SUFFICES ASSUME ago < RecentSize PROVE FALSE
        BY <3>4, FeedConstants
      <4>2. Len(recent) - ago \in 1..Len(recent) /\ recent[Len(recent) - ago] = k
        BY <4>1, <3>1, <3>4, <3>5, <3>7
      <4> QED BY <4>2, <1>3 DEF Elements
    <3>8. feed[attempts[i].number] = k => adds + 1 > attempts[i].at + RecentSize
      BY <3>7, <3>1, <3>3, <3>4, FeedConstants DEF ago
    <3> QED
      BY <3>1, <3>3, <3>6, <3>8
  <2>6. RecentInv'
    BY <2>1, <2>2, <2>5 DEF RecentInv, k
  <2>7. OrderInv'
    <3>1. ASSUME NEW i \in Ids, OfRegion(i) PROVE accepted[i].body # next
      BY <3>1, <1>3 DEF IInv, FeedInv, OrderInv, k
    <3> QED
      BY <2>1, <3>1 DEF IInv, FeedInv, OrderInv, OfRegion, Ids, Topic
  <2>8. NoNumberIsPassedOver' /\ RepeatsAreFarApart'
    BY <2>1 DEF IInv, FeedInv, NoNumberIsPassedOver, RepeatsAreFarApart, IsKill
  <2> QED
    BY <2>3, <2>4, <2>6, <2>7, <2>8 DEF FeedInv
<1> QED
  BY <1>2, <1>3

LEMMA PublishKeeps == IInv /\ Publish => FeedInv'
<1> SUFFICES ASSUME IInv, Publish PROVE FeedInv'
  OBVIOUS
<1> DEFINE a == [number |-> next, at |-> adds]
<1>1. /\ pc = "publish" /\ pc' \in {"save", "wait"} /\ attempts' = Append(attempts, a)
      /\ UNCHANGED <<feed, head, age, next, processed, recent, start, judged, adds,
                     checkpoint, cancelled, noise, restarts>>
      /\ \/ accepted' = Append(accepted, [topic |-> RegionTopic, body |-> next])
         \/ accepted' = accepted
  BY DEF Publish, zkill, bounds, publisherVars, line, Accept
<1>2. /\ next \in 1..MaxSequence /\ next =< head /\ processed < MaxFetchPerTick
      /\ adds \in Nat /\ attempts \in Seq(Attempt) /\ recent \in Seq(Kills)
      /\ IsKill(next) /\ feed[next] \in judged
      /\ recent # <<>> /\ recent[Len(recent)] = feed[next]
  BY <1>1, FeedConstants DEF IInv, FeedInv, FeedTypeOK, WorkerInv, RecentInv
<1>3. a \in Attempt /\ a.number = next /\ a.at = adds
  BY <1>2, FeedConstants DEF Attempt
<1>4. Len(recent) \in Nat \ {0} /\ feed[next] \in Elements(recent)
  <2>1. Len(recent) \in 1..Len(recent) /\ Len(recent) \in Nat \ {0}
    BY <1>2
  <2> QED BY <2>1, <1>2 DEF Elements
<1> HIDE DEF a
<1>5. /\ attempts' \in Seq(Attempt) /\ Len(attempts) \in Nat
      /\ Len(attempts') = Len(attempts) + 1
      /\ \A i \in 1..Len(attempts) : attempts'[i] = attempts[i]
      /\ attempts'[Len(attempts) + 1] = a
  BY <1>1, <1>2, <1>3
<1>6. \A i \in 1..Len(attempts') : i \in 1..Len(attempts) \/ i = Len(attempts) + 1
  BY <1>5
<1>7. FeedTypeOK'
  BY <1>1, <1>5 DEF IInv, FeedInv, FeedTypeOK
<1>8. WorkerInv'
  BY <1>1, <1>2 DEF IInv, FeedInv, WorkerInv, IsKill, Elements
<1>9. RecentInv'
  <2>1. ASSUME NEW i \in 1..Len(attempts) PROVE attempts[i].at =< adds /\ Remembered(attempts[i])
    BY DEF IInv, FeedInv, RecentInv
  <2>2. a.at =< adds /\ Remembered(a)
    BY <1>2, <1>3, <1>4 DEF Remembered
  <2>3. ASSUME NEW i \in 1..Len(attempts')
        PROVE  attempts'[i].at =< adds' /\ Remembered(attempts[i])'
    BY <1>1, <1>5, <1>6, <2>1, <2>2 DEF Remembered
  <2> QED
    BY <1>1, <2>3 DEF RecentInv
<1>10. OrderInv'
  <2>1. CASE accepted' = accepted
    BY <1>1, <2>1 DEF IInv, FeedInv, OrderInv, OfRegion, Ids, Topic
  <2>2. CASE accepted' = Append(accepted, [topic |-> RegionTopic, body |-> next])
    <3>1. accepted \in Seq(Message) /\ Len(accepted) \in Nat
      BY DEF IInv, PublisherInv, PublisherTypeOK
    <3>2. /\ Len(accepted') = Len(accepted) + 1
          /\ \A i \in Ids : accepted'[i] = accepted[i]
          /\ accepted'[Len(accepted) + 1].body = next
      BY <2>2, <3>1 DEF Ids
    <3>3. \A i \in Ids' : i \in Ids \/ i = Len(accepted) + 1
      BY <3>1, <3>2 DEF Ids
    <3>4. ASSUME NEW i \in Ids, OfRegion(i)' 
          PROVE  /\ OfRegion(i) /\ accepted'[i].body = accepted[i].body
                 /\ accepted[i].body >= 1 /\ accepted[i].body < next
      <4>1. OfRegion(i) /\ accepted'[i].body = accepted[i].body
        BY <3>2, <3>4 DEF OfRegion, Topic
      <4>2. accepted[i].body >= 1 /\ accepted[i].body =< next /\ accepted[i].body # next
        BY <4>1, <1>1 DEF IInv, FeedInv, OrderInv
      <4> QED BY <4>1, <4>2, <1>2, AcceptedBodies DEF IInv
    <3>5. ASSUME NEW i \in Ids', OfRegion(i)'
          PROVE  /\ accepted'[i].body >= 1 /\ accepted'[i].body =< next'
                 /\ accepted'[i].body = next' =>
                        pc' # "publish" /\ feed'[next'] \in Elements(recent')
      <4>1. CASE i \in Ids
        BY <4>1, <3>4, <3>5, <1>1, <1>2, AcceptedBodies DEF IInv
      <4>2. CASE i = Len(accepted) + 1
        BY <4>2, <3>2, <1>1, <1>2, <1>4 DEF Elements
      <4> QED BY <4>1, <4>2, <3>3
    <3>6. ASSUME NEW i \in Ids', NEW j \in Ids', i < j, OfRegion(i)', OfRegion(j)'
          PROVE  accepted'[i].body < accepted'[j].body
      <4>1. i \in Ids
        BY <3>1, <3>2, <3>6 DEF Ids
      <4>2. CASE j \in Ids
        BY <4>1, <4>2, <3>4, <3>6 DEF IInv, FeedInv, OrderInv
      <4>3. CASE j = Len(accepted) + 1
        BY <4>1, <4>3, <3>2, <3>4, <3>6
      <4> QED BY <4>2, <4>3, <3>3
    <3> QED
      BY <3>5, <3>6 DEF OrderInv
  <2> QED BY <1>1, <2>1, <2>2
<1>11. NoNumberIsPassedOver'
  BY <1>1 DEF IInv, FeedInv, NoNumberIsPassedOver, IsKill
<1>12. RepeatsAreFarApart'
  <2> SUFFICES ASSUME NEW i \in 1..Len(attempts'), NEW j \in 1..Len(attempts'), i < j,
                      feed[attempts'[i].number] = feed[attempts'[j].number]
               PROVE  attempts'[j].at > attempts'[i].at + RecentSize
    BY <1>1 DEF RepeatsAreFarApart
  <2>1. i \in 1..Len(attempts)
    BY <1>5
  <2>2. CASE j \in 1..Len(attempts)
    BY <2>1, <2>2, <1>5 DEF IInv, FeedInv, RepeatsAreFarApart
  <2>3. CASE j = Len(attempts) + 1
    BY <2>1, <2>3, <1>1, <1>3, <1>5 DEF IInv, FeedInv, RecentInv
  <2> QED BY <2>2, <2>3, <1>6
<1> QED
  BY <1>7, <1>8, <1>9, <1>10, <1>11, <1>12 DEF FeedInv

-----------------------------------------------------------------------------
(* What goes on around the worker. *)

LEMMA AroundKeeps ==
    ASSUME FeedInv, Listed \/ (\E k \in Reportable : GrowsOld(k)) \/ Terminate
    PROVE  FeedInv'
<1>1. /\ UNCHANGED <<feed, pc, next, processed, recent, start, judged, adds, attempts,
                     checkpoint, noise, restarts, accepted>>
      /\ head' \in {head, head + 1} /\ cancelled' \in BOOLEAN
  BY DEF Listed, GrowsOld, Terminate, zkill, worker, bounds, publisherVars, line,
         FeedInv, FeedTypeOK
<1>2. head' \in Numbers /\ head' \in Int /\ head \in Int /\ head' >= head
  BY <1>1, FeedConstants DEF Listed, GrowsOld, Terminate, zkill, FeedInv, FeedTypeOK
<1>3. age' \in [Reportable -> {"future", "fresh", "old"}]
  <2>1. age \in [Reportable -> {"future", "fresh", "old"}]
    BY DEF FeedInv, FeedTypeOK
  <2>2. CASE \E k \in Reportable : GrowsOld(k)
    BY <2>1, <2>2 DEF GrowsOld
  <2>3. CASE Listed \/ Terminate
    BY <2>1, <2>3 DEF Listed, Terminate, zkill
  <2> QED BY <2>2, <2>3
<1>4. FeedTypeOK'
  BY <1>1, <1>2, <1>3 DEF FeedInv, FeedTypeOK
<1>5. WorkerInv'
  <2>1. next \in Int /\ checkpoint \in Int
    BY FeedConstants DEF FeedInv, FeedTypeOK
  <2>2. next =< head + 1 /\ checkpoint =< head
    BY DEF FeedInv, WorkerInv
  <2>3. head' \in Int /\ head \in Int /\ head' >= head
    BY <1>2
  <2>4. next =< head' + 1
    <3>1. head' = head \/ head' = head + 1
      BY <1>1
    <3>2. CASE head' = head
      BY <3>2, <2>2
    <3>3. CASE head' = head + 1
      BY <3>3, <2>1, <2>2, <2>3
    <3> QED BY <3>1, <3>2, <3>3
  <2>5. checkpoint =< head'
    BY <2>1, <2>2, <2>3
  <2>6. next =< head => next =< head'
    BY <2>1, <2>3
  <2> QED
    BY <1>1, <2>4, <2>5, <2>6 DEF FeedInv, WorkerInv, IsKill, Elements
<1>6. RecentInv' /\ OrderInv'
  BY <1>1 DEF FeedInv, RecentInv, Remembered, OrderInv, OfRegion, Ids, Topic, Elements
<1>7. NoNumberIsPassedOver' /\ RepeatsAreFarApart'
  BY <1>1 DEF FeedInv, NoNumberIsPassedOver, RepeatsAreFarApart, IsKill
<1> QED
  BY <1>4, <1>5, <1>6, <1>7 DEF FeedInv

LEMMA PublisherSideKeeps ==
    ASSUME FeedInv, PublisherStep \/ UNCHANGED vars
    PROVE  FeedInv'
<1>1. /\ UNCHANGED <<feed, head, age, pc, next, processed, recent, start, judged, adds,
                     attempts, checkpoint, cancelled, noise, restarts, accepted>>
  BY DEF PublisherStep, Deliver, Take, Hand, Delivered, Return, Stop, Subscribe,
         vars, zkill, worker, bounds, publisherVars, line
<1>2. FeedTypeOK' /\ WorkerInv'
  BY <1>1 DEF FeedInv, FeedTypeOK, WorkerInv, IsKill, Elements
<1>3. RecentInv' /\ OrderInv'
  BY <1>1 DEF FeedInv, RecentInv, Remembered, OrderInv, OfRegion, Ids, Topic, Elements
<1>4. NoNumberIsPassedOver' /\ RepeatsAreFarApart'
  BY <1>1 DEF FeedInv, NoNumberIsPassedOver, RepeatsAreFarApart, IsKill
<1> QED
  BY <1>2, <1>3, <1>4 DEF FeedInv

LEMMA NoiseKeeps == IInv /\ Noise => FeedInv'
<1> SUFFICES ASSUME IInv, Noise PROVE FeedInv'
  OBVIOUS
<1>1. PICK t \in Topics \ {RegionTopic} : Accept(t, 0)
  BY DEF Noise
<1>2. /\ UNCHANGED <<feed, head, age, pc, next, processed, recent, start, judged, adds,
                     attempts, checkpoint, cancelled, restarts>>
      /\ noise + restarts < MaxDisturbances /\ noise' = noise + 1
      /\ accepted' = Append(accepted, [topic |-> t, body |-> 0])
  BY <1>1 DEF Noise, Accept, zkill, worker
<1>3. accepted \in Seq(Message) /\ Len(accepted) \in Nat
  BY DEF IInv, PublisherInv, PublisherTypeOK
<1>4. /\ Len(accepted') = Len(accepted) + 1
      /\ \A i \in Ids : accepted'[i] = accepted[i]
      /\ accepted'[Len(accepted) + 1].topic = t
  BY <1>2, <1>3 DEF Ids
<1>5. \A i \in Ids' : OfRegion(i)' =>
         i \in Ids /\ OfRegion(i) /\ accepted'[i] = accepted[i]
  <2>1. ASSUME NEW i \in Ids' PROVE i \in Ids \/ i = Len(accepted) + 1
    BY <1>3, <1>4 DEF Ids
  <2> QED
    BY <2>1, <1>1, <1>4 DEF OfRegion, Topic
<1>6. FeedTypeOK'
  BY <1>2, ZkillFeedAssumption DEF IInv, FeedInv, FeedTypeOK
<1>7. WorkerInv' /\ RecentInv'
  BY <1>2 DEF IInv, FeedInv, WorkerInv, IsKill, Elements, RecentInv, Remembered
<1>8. OrderInv'
  <2>1. ASSUME NEW i \in Ids', OfRegion(i)'
        PROVE  /\ accepted'[i].body >= 1 /\ accepted'[i].body =< next'
               /\ accepted'[i].body = next' =>
                      pc' # "publish" /\ feed'[next'] \in Elements(recent')
    BY <2>1, <1>2, <1>5 DEF IInv, FeedInv, OrderInv, Elements
  <2>2. ASSUME NEW i \in Ids', NEW j \in Ids', i < j, OfRegion(i)', OfRegion(j)'
        PROVE  accepted'[i].body < accepted'[j].body
    BY <2>2, <1>5 DEF IInv, FeedInv, OrderInv
  <2> QED
    BY <2>1, <2>2 DEF OrderInv
<1>9. NoNumberIsPassedOver' /\ RepeatsAreFarApart'
  BY <1>2 DEF IInv, FeedInv, NoNumberIsPassedOver, RepeatsAreFarApart, IsKill
<1> QED
  BY <1>6, <1>7, <1>8, <1>9 DEF FeedInv

LEMMA RestartKeeps == FeedInv /\ ProcessRestart => FeedInv'
<1> SUFFICES ASSUME FeedInv, ProcessRestart PROVE FeedInv'
  OBVIOUS
<1>1. /\ UNCHANGED <<feed, head, age, checkpoint, noise>>
      /\ noise + restarts < MaxDisturbances /\ restarts' = restarts + 1 /\ cancelled' = FALSE
      /\ pc' = "wait" /\ next' = 0 /\ processed' = 0 /\ recent' = <<>>
      /\ start' = 0 /\ judged' = {} /\ adds' = 0 /\ attempts' = <<>>
      /\ accepted' = <<>>
  BY DEF ProcessRestart, zkill, Restart
<1>2. /\ recent' \in Seq(Kills) /\ Len(recent') \in 0..RecentSize
      /\ attempts' \in Seq(Attempt)
  BY <1>1, FeedConstants
<1>3. FeedTypeOK'
  <2>1. /\ feed' \in Feeds /\ head' \in Numbers /\ checkpoint' \in 0..MaxSequence
        /\ age' \in [Reportable -> {"future", "fresh", "old"}] /\ noise' \in 0..MaxDisturbances
    BY <1>1 DEF FeedInv, FeedTypeOK
  <2>2. restarts' \in 0..MaxDisturbances
    BY <1>1, ZkillFeedAssumption DEF FeedInv, FeedTypeOK
  <2>3. next' \in 0..MaxSequence + 1 /\ processed' \in 0..MaxFetchPerTick /\ start' \in 0..MaxSequence
    BY <1>1, FeedConstants
  <2> QED
    BY <1>1, <1>2, <2>1, <2>2, <2>3 DEF FeedTypeOK
<1>4. WorkerInv'
  BY <1>1, FeedConstants DEF FeedInv, FeedTypeOK, WorkerInv, Elements
<1>5. RecentInv' /\ OrderInv'
  BY <1>1 DEF RecentInv, OrderInv, Ids
<1>6. NoNumberIsPassedOver' /\ RepeatsAreFarApart'
  BY <1>1 DEF NoNumberIsPassedOver, RepeatsAreFarApart
<1> QED
  BY <1>3, <1>4, <1>5, <1>6 DEF FeedInv

-----------------------------------------------------------------------------
(* The invariant. *)

LEMMA InitialFeed == Init => IInv
<1> SUFFICES ASSUME Init PROVE IInv
  OBVIOUS
<1>1. /\ feed \in Feeds /\ head = 1 /\ checkpoint = 0 /\ cancelled = FALSE
      /\ noise = 0 /\ restarts = 0
      /\ pc = "wait" /\ next = 0 /\ processed = 0 /\ recent = <<>>
      /\ start = 0 /\ judged = {} /\ adds = 0 /\ attempts = <<>> /\ accepted = <<>>
  BY DEF Init, WorkerInit, PublisherInit
<1>2. age \in [Reportable -> {"future", "fresh", "old"}]
  BY DEF Init
<1>3. /\ recent \in Seq(Kills) /\ Len(recent) \in 0..RecentSize
      /\ attempts \in Seq(Attempt)
  BY <1>1, FeedConstants
<1>4. FeedTypeOK
  <2>1. /\ head \in Numbers /\ checkpoint \in 0..MaxSequence /\ start \in 0..MaxSequence
        /\ next \in 0..MaxSequence + 1 /\ processed \in 0..MaxFetchPerTick
    BY <1>1, FeedConstants
  <2>2. noise \in 0..MaxDisturbances /\ restarts \in 0..MaxDisturbances
    BY <1>1, ZkillFeedAssumption
  <2> QED
    BY <1>1, <1>2, <1>3, <2>1, <2>2 DEF FeedTypeOK
<1>5. WorkerInv
  BY <1>1 DEF WorkerInv, Elements
<1>6. RecentInv /\ OrderInv
  BY <1>1 DEF RecentInv, OrderInv, Ids
<1>7. NoNumberIsPassedOver /\ RepeatsAreFarApart
  BY <1>1 DEF NoNumberIsPassedOver, RepeatsAreFarApart
<1>8. PublisherInv
  BY InitialPublisher DEF Init
<1> QED
  BY <1>4, <1>5, <1>6, <1>7, <1>8 DEF IInv, FeedInv

LEMMA StepKeeps == IInv /\ [Next]_vars => IInv'
<1> SUFFICES ASSUME IInv, [Next]_vars PROVE IInv'
  OBVIOUS
<1>1. PublisherInv'
  BY StepIsOfPublisher, PublisherStepKeeps DEF IInv, FeedInv
<1>2. FeedInv
  BY DEF IInv
<1>3. CASE Round \/ BootstrapFails \/ FetchOK \/ FetchStops \/ SaveFails
  BY <1>1, <1>2, <1>3, MovesKeep DEF IInv
<1>4. CASE Bootstrap
  BY <1>1, <1>4, BootstrapKeeps DEF IInv
<1>5. CASE Handle
  BY <1>1, <1>5, HandleKeeps DEF IInv
<1>6. CASE Publish
  BY <1>1, <1>6, PublishKeeps DEF IInv
<1>7. CASE SaveOK
  BY <1>1, <1>7, SaveKeeps DEF IInv
<1>8. CASE Listed \/ (\E k \in Reportable : GrowsOld(k)) \/ Terminate
  BY <1>1, <1>2, <1>8, AroundKeeps DEF IInv
<1>9. CASE PublisherStep \/ UNCHANGED vars
  BY <1>1, <1>2, <1>9, PublisherSideKeeps DEF IInv
<1>10. CASE Noise
  BY <1>1, <1>10, NoiseKeeps DEF IInv
<1>11. CASE ProcessRestart
  BY <1>1, <1>2, <1>11, RestartKeeps DEF IInv
<1> QED
  BY <1>3, <1>4, <1>5, <1>6, <1>7, <1>8, <1>9, <1>10, <1>11 DEF Next, Step

\* The worker and the publisher keep their invariant in every execution.
THEOREM FeedInvariant == Spec => []IInv
<1>1. Init => IInv
  BY InitialFeed
<1>2. IInv /\ [Next]_vars => IInv'
  BY StepKeeps
<1> QED
  BY <1>1, <1>2, PTL DEF Spec

\* For every feed and every size of queue and list, the variables keep their
\* types: the worker never runs past the tick's limit or the listed numbers.
THEOREM FeedTypeCorrect == Spec => []TypeOK
<1>1. IInv => TypeOK
  BY DEF IInv, FeedInv, TypeOK, PublisherInv
<1> QED
  BY <1>1, FeedInvariant, PTL

\* For every feed no killmail between the first number of a process and the one it
\* reads goes without being looked at (FeedIngestor.Run).
THEOREM NothingIsPassedOver == Spec => []NoNumberIsPassedOver
<1>1. IInv => NoNumberIsPassedOver
  BY DEF IInv, FeedInv
<1> QED
  BY <1>1, FeedInvariant, PTL

\* For every size of the list, two attempts to publish one killmail have at least
\* that many other killmails between them (killmailLRU).
THEOREM RepeatsStayFarApart == Spec => []RepeatsAreFarApart
<1>1. IInv => RepeatsAreFarApart
  BY DEF IInv, FeedInv
<1> QED
  BY <1>1, FeedInvariant, PTL

\* For every number of clients, each one sees the killmails in the order of the
\* feed: the accepted reports are in that order, and every inbox in theirs.
THEOREM FeedOrderIsKept == Spec => []ClientsSeeFeedOrder
<1>1. IInv => ClientsSeeFeedOrder
  <2> SUFFICES ASSUME IInv, NEW c \in Clients,
                      NEW i \in 1..Len(inbox[c]), NEW j \in 1..Len(inbox[c]), i < j,
                      OfRegion(inbox[c][i]), OfRegion(inbox[c][j])
               PROVE  accepted[inbox[c][i]].body < accepted[inbox[c][j]].body
    BY DEF ClientsSeeFeedOrder, OfRegion
  <2>1. inbox[c][i] < inbox[c][j]
    BY DEF IInv, PublisherInv, EveryInboxIsInOrder
  <2>2. /\ inbox[c] \in Seq(Nat \ {0}) /\ Len(accepted) \in Nat /\ Len(queue) \in Nat
    BY DEF IInv, PublisherInv, PublisherTypeOK
  <2>3. \A n \in 1..Len(inbox[c]) : inbox[c][n] \in Nat \ {0} /\ inbox[c][n] =< Taken
    BY <2>2 DEF IInv, PublisherInv, InboxInv
  <2>4. Taken \in Int /\ Taken =< Len(accepted)
    BY <2>2 DEF Taken
  <2>5. inbox[c][i] \in Ids /\ inbox[c][j] \in Ids
    BY <2>2, <2>3, <2>4 DEF Ids
  <2> QED
    BY <2>1, <2>5 DEF IInv, FeedInv, OrderInv
<1> QED
  BY <1>1, FeedInvariant, PTL

\* The stored checkpoint only moves forward, in every execution and across every
\* restart (saveCheckpoint, bootstrapSequence).
THEOREM CheckpointOnlyAdvances == Spec => CheckpointNeverGoesBack
<1>1. IInv /\ [Next]_vars => [checkpoint' >= checkpoint]_vars
  <2> SUFFICES ASSUME IInv, Next, checkpoint' # checkpoint PROVE checkpoint' >= checkpoint
    BY DEF IInv, FeedInv, FeedTypeOK
  <2>1. SaveOK
    BY DEF Next, Step, Round, Bootstrap, BootstrapFails, FetchOK, FetchStops, Handle, Publish,
           SaveFails, Listed, GrowsOld, Terminate, Noise, ProcessRestart, PublisherStep
  <2> QED
    BY <2>1 DEF SaveOK, IInv, FeedInv, WorkerInv, FeedTypeOK
<1> QED
  BY <1>1, FeedInvariant, PTL DEF Spec, CheckpointNeverGoesBack
=============================================================================
