--------------------------- MODULE OrgCache_proofs ---------------------------
(***************************************************************************)
(* What the runs of OrgCache check, for any callers, organisations, waits, *)
(* life times and numbers of operations, changes and faults.  The calls    *)
(* come first: the waits that answers ask for are kept, and affiliations   *)
(* are recent.  Then the operations on the table: what is marked as closed *)
(* is gone, and is offered again only by those who began before the mark   *)
(* or failed to read it, or by the discovery of jumpbridges.               *)
(***************************************************************************)
EXTENDS OrgCache, TLAPS

CInv == ClientTypes /\ WaitsInv /\ RecentInv

\* A call that is sent had waited as long as it had read.
Punctual ==
  \A s \in Callers : CallAt(s, "wait") /\ CallAt(s, "sent")' => calls[s].until <= now

-----------------------------------------------------------------------------
(* Calls.                                                                  *)

LEMMA ConstantTypes ==
    /\ None \notin Callers /\ Flight \in Nat /\ Ttl \in Nat /\ MaxHold \in Nat
    /\ MaxFaults \in Nat /\ MaxMoves \in Nat /\ MaxTime \in Nat /\ Flight <= Ttl
PROOF
  BY ClientAssumption

\* A call of the table of calls.
LEMMA CallOf ==
    ASSUME ClientTypes, NEW s \in Callers, calls[s] # None
    PROVE  calls[s] \in Calls
PROOF
  BY DEF ClientTypes

\* The call of a caller that asks, that asks again or that has its answer.
LEMMA NewCall ==
    ASSUME NEW k \in Clients, NEW w \in Asking \cup AskedOnce \cup {"affiliation"},
           NEW b \in BOOLEAN
    PROVE  /\ Call(k, w, b) \in Calls
           /\ Call(k, w, b).at = "look" /\ Call(k, w, b).what = w
           /\ Call(k, w, b).client = k /\ Call(k, w, b).said = None
           /\ Call(k, w, b).again = b
PROOF
<1>1. Call(k, w, b) \in Calls
    BY DEF Call, Calls, Retries
<1>2. QED
    BY <1>1 DEF Call

LEMMA AgainCall ==
    ASSUME NEW c \in Calls, NEW m \in 0..Retries
    PROVE  /\ Again(c, m) \in Calls
           /\ Again(c, m).at = "look" /\ Again(c, m).what = c.what
           /\ Again(c, m).client = c.client /\ Again(c, m).said = None
PROOF
<1> DEFINE d == Call(c.client, c.what, c.again)
<1>1. /\ d \in Calls /\ d.at = "look" /\ d.what = c.what /\ d.client = c.client
      /\ d.said = None
    BY NewCall DEF Calls
<1> HIDE DEF d
<1>2. Again(c, m) = [d EXCEPT !.tries = m]
    BY DEF Again, d
<1>3. [d EXCEPT !.tries = m] \in Calls
    BY <1>1 DEF Calls
<1>4. QED
    BY <1>1, <1>2, <1>3 DEF Calls

LEMMA ReplyCall ==
    ASSUME NEW c \in Calls, NEW a \in Answers \cup {None}
    PROVE  /\ Reply(c, a) \in Calls
           /\ Reply(c, a).at = "done" /\ Reply(c, a).what = c.what
           /\ Reply(c, a).client = c.client /\ Reply(c, a).said = a
PROOF
<1> DEFINE d == Again(c, 0)
<1>1. /\ d \in Calls /\ d.at = "look" /\ d.what = c.what /\ d.client = c.client
    BY AgainCall DEF Retries
<1> HIDE DEF d
<1>2. Reply(c, a) = [d EXCEPT !.at = "done", !.said = a]
    BY DEF Reply, d
<1>3. [d EXCEPT !.at = "done", !.said = a] \in Calls
    BY <1>1 DEF Calls
<1>4. QED
    BY <1>1, <1>2, <1>3 DEF Calls

\* One caller's call becomes another, or nothing.
LEMMA OneCall ==
    ASSUME CInv, NEW s \in Callers, NEW n \in Calls \cup {None},
           calls' = [calls EXCEPT ![s] = n], faults' \in Nat,
           UNCHANGED <<now, throttleVars, affiliationVars>>,
           n # None /\ n.at = "wait" /\ n.still /\ n.client \notin unheard
             => told[n.client] <= n.until,
           n # None /\ n.at = "sent" => InFlight(n) /\ calls[s].until <= now
    PROVE  CInv' /\ Punctual
PROOF
<1>1. /\ calls' \in [Callers -> Calls \cup {None}]
      /\ \A t \in Callers : IF t = s THEN calls'[t] = n ELSE calls'[t] = calls[t]
    BY DEF CInv, ClientTypes
<1>2. ClientTypes'
    BY <1>1 DEF CInv, ClientTypes, throttleVars, affiliationVars
<1>3. WaitsInv'
    BY <1>1 DEF CInv, WaitsInv, CallAt, throttleVars
<1>4. \A t \in Callers : CallAt(t, "sent")' => InFlight(calls'[t])
    BY <1>1 DEF CallAt, CInv, RecentInv
<1>5. ASSUME NEW t \in Callers, CallAt(t, "sent")' PROVE InFlight(calls[t])'
  <2>1. InFlight(calls'[t])
    BY <1>4, <1>5
  <2>2. QED
    BY <2>1 DEF InFlight, LeftAfter, affiliationVars
<1>6. RecentInv'
    BY <1>5 DEF CInv, RecentInv, affiliationVars
<1>7. Punctual
    BY <1>1 DEF Punctual, CallAt
<1>8. QED
    BY <1>2, <1>3, <1>6, <1>7 DEF CInv

\* Steps that leave the calls as they are.
LEMMA SameCalls ==
    ASSUME CInv, faults' \in Nat, UNCHANGED <<now, calls, throttleVars, affiliationVars>>
    PROVE  CInv' /\ Punctual
PROOF
<1>1. ClientTypes' /\ WaitsInv'
    BY DEF CInv, ClientTypes, WaitsInv, CallAt, throttleVars, affiliationVars
<1>2. RecentInv'
    BY DEF CInv, RecentInv, CallAt, InFlight, LeftAfter, affiliationVars
<1>3. Punctual
    BY DEF Punctual, CallAt
<1>4. QED
    BY <1>1, <1>2, <1>3 DEF CInv

LEMMA Asked_ ==
    ASSUME CInv, NEW s \in Callers, NEW k \in Clients,
           NEW w \in Asking \cup AskedOnce \cup {"affiliation"}, NEW b \in BOOLEAN,
           Enter(s, k, w, b), faults' \in Nat, UNCHANGED <<now, throttleVars, affiliationVars>>
    PROVE  CInv' /\ Punctual
PROOF
<1>1. Call(k, w, b) \in Calls /\ Call(k, w, b).at = "look"
    BY NewCall
<1>2. QED
    BY <1>1, OneCall DEF Enter

LEMMA Left_ ==
    ASSUME CInv, NEW s \in Callers, Leave(s),
           faults' \in Nat, UNCHANGED <<now, throttleVars, affiliationVars>>
    PROVE  CInv' /\ Punctual
PROOF
  BY OneCall DEF Leave

\* A call that looks at the throttle waits as long as its client was told.
LEMMA LookKept ==
    ASSUME CInv, NEW s \in Callers, LookAtThrottle(s)
    PROVE  CInv' /\ Punctual
PROOF
<1> DEFINE n == [calls[s] EXCEPT !.at = "wait", !.still = TRUE,
                                 !.until = Seen(calls[s].client)]
<1>1. calls[s] # None /\ calls[s] \in Calls
    BY CallOf DEF LookAtThrottle, CallAt, CInv
<1>2. calls[s].client \in Clients
    BY <1>1 DEF Calls
<1>3. Seen(calls[s].client) = till[calls[s].client] /\ till[calls[s].client] \in Nat
    BY <1>2 DEF Seen, CInv, ClientTypes
<1>4. n \in Calls
    BY <1>1, <1>3 DEF Calls
<1>5. n.at = "wait" /\ n.client = calls[s].client /\ n.until = till[calls[s].client]
    BY <1>1, <1>3 DEF Calls
<1>6. calls' = [calls EXCEPT ![s] = n]
    BY <1>1 DEF LookAtThrottle
<1> HIDE DEF n
<1>7. n.client \notin unheard => told[n.client] <= n.until
    BY <1>2, <1>5 DEF CInv, WaitsInv
<1>8. faults' \in Nat /\ UNCHANGED <<now, throttleVars, affiliationVars>>
    BY DEF LookAtThrottle, CInv, ClientTypes
<1>9. QED
    BY <1>4, <1>5, <1>6, <1>7, <1>8, OneCall

LEMMA GiveUpKept ==
    ASSUME CInv, NEW s \in Callers, GiveUp(s)
    PROVE  CInv' /\ Punctual
PROOF
<1>1. calls[s] # None /\ calls[s] \in Calls
    BY CallOf DEF GiveUp, CallAt, CInv
<1>2. Reply(calls[s], "failed") \in Calls /\ Reply(calls[s], "failed").at = "done"
    BY <1>1, ReplyCall DEF Answers
<1>3. calls' = [calls EXCEPT ![s] = Reply(calls[s], "failed")]
    BY <1>1 DEF GiveUp, CInv, ClientTypes
<1>4. faults' \in Nat /\ UNCHANGED <<now, throttleVars, affiliationVars>>
    BY DEF GiveUp, CInv, ClientTypes
<1>5. QED
    BY <1>2, <1>3, <1>4, OneCall

\* A call that is sent carries the affiliation as it is.
LEMMA SendKept ==
    ASSUME CInv, NEW s \in Callers, NEW Says, Says \subseteq Answers, SendWith(s, Says),
           calls[s] # None /\ calls[s].what = "affiliation" =>
             Says \subseteq {IF entry # None /\ entry.value = moves THEN "same" ELSE "ok"}
    PROVE  CInv' /\ Punctual
PROOF
<1>1. calls[s] # None /\ calls[s] \in Calls /\ calls[s].until <= now
    BY CallOf DEF SendWith, CallAt, CInv, ClientTypes, Calls
<1>2. PICK said \in Says \cup {"busy", "lost"}, hold \in 0..MaxHold :
        /\ faults' = IF said \in {"busy", "lost"} \/ hold > 0 THEN faults + 1 ELSE faults
        /\ calls' = [calls EXCEPT ![s] =
             [Again(@, @.tries) EXCEPT !.at = "sent", !.sent = now, !.said = said,
                !.hold = hold, !.value = IF calls[s].what = "affiliation" THEN moves ELSE 0]]
    BY DEF SendWith
<1> DEFINE d == Again(calls[s], calls[s].tries)
           v == IF calls[s].what = "affiliation" THEN moves ELSE 0
           n == [d EXCEPT !.at = "sent", !.sent = now, !.said = said, !.hold = hold,
                          !.value = v]
<1>3. d \in Calls /\ d.what = calls[s].what
    BY <1>1, AgainCall DEF Calls
<1>4. said \in Answers /\ hold \in Nat /\ now \in Nat /\ moves \in Nat /\ v \in Nat
    BY ConstantTypes DEF CInv, ClientTypes, Answers
<1> HIDE DEF d, v
<1>5. n \in Calls
    BY <1>3, <1>4 DEF Calls
<1>6. /\ n.at = "sent" /\ n.sent = now /\ n.said = said /\ n.value = v
      /\ n.what = calls[s].what
    BY <1>3 DEF Calls
<1>7. calls' = [calls EXCEPT ![s] = n]
    BY <1>1, <1>2 DEF d, v
<1> HIDE DEF n
<1>8. InFlight(n)
  <2>1. n.sent <= now /\ now <= n.sent + Flight
    BY <1>4, <1>6, ConstantTypes
  <2>2. n.what = "affiliation" => n.value = moves
    BY <1>6 DEF v
  <2>3. n.what = "affiliation" /\ n.said = "same" => entry # None /\ entry.value = moves
    BY <1>1, <1>2, <1>6
  <2>4. QED
    BY <1>4, <2>1, <2>2, <2>3 DEF InFlight, LeftAfter
<1>9. faults' \in Nat /\ UNCHANGED <<now, throttleVars, affiliationVars>>
    BY <1>2 DEF SendWith, CInv, ClientTypes
<1>10. QED
    BY <1>1, <1>5, <1>6, <1>7, <1>8, <1>9, OneCall

\* What an answer asks for.
LEMMA AskedTime ==
    ASSUME ClientTypes, NEW c \in Calls
    PROVE  Asked(c) \in Nat /\ c.client \in Clients /\ Later(till[c.client], Asked(c)) \in Nat
PROOF
<1>1. c.hold \in Nat /\ c.client \in Clients
    BY DEF Calls
<1>2. till[c.client] \in Nat /\ now \in Nat
    BY <1>1 DEF ClientTypes
<1>3. QED
    BY <1>1, <1>2 DEF Asked, Later

\* The throttle after an answer, and what is known of it.
LEMMA Heard_ ==
    ASSUME ClientTypes, NEW c \in Calls, Hear(c)
    PROVE  /\ till' \in [Clients -> Nat] /\ told' \in [Clients -> Nat]
           /\ unheard' \subseteq Clients
           /\ \A k \in Clients : k # c.client =>
                /\ till'[k] = till[k] /\ told'[k] = told[k]
                /\ k \in unheard' <=> k \in unheard
           /\ Asked(c) <= told[c.client] =>
                told'[c.client] = told[c.client] /\ unheard' = unheard
           /\ told[c.client] <= told'[c.client] /\ till[c.client] <= till'[c.client]
           /\ Asked(c) > told[c.client] => told'[c.client] = Asked(c)
           /\ c.client \notin unheard' /\ Asked(c) > told[c.client] =>
                till'[c.client] >= Asked(c)
PROOF
<1>1. Asked(c) \in Nat /\ c.client \in Clients
    BY AskedTime
<1>2. till \in [Clients -> Nat] /\ told \in [Clients -> Nat] /\ unheard \subseteq Clients
    BY DEF ClientTypes
<1> DEFINE k == c.client
           h == Heard(c)
           a == Asked(c)
           l == Later(told[k], a)
<1>3. h \in Nat /\ till[k] <= h /\ (Listens(c) => a <= h)
    BY <1>1, <1>2 DEF Heard, Later
<1>4. l \in Nat /\ told[k] <= l /\ (a > told[k] => l = a) /\ (a <= told[k] => l = told[k])
    BY <1>1, <1>2 DEF Later
<1>5. till' = [till EXCEPT ![k] = h] /\ told' = [told EXCEPT ![k] = l]
    BY <1>2 DEF Hear
<1>6. unheard' = IF a <= told[k] THEN unheard
                 ELSE IF Listens(c) THEN unheard \ {k} ELSE unheard \cup {k}
    BY DEF Hear
<1>7. k \in Clients /\ a \in Nat /\ told[k] \in Nat
    BY <1>1, <1>2
<1>8. a <= told[k] \/ a > told[k]
    BY <1>7
<1> HIDE DEF h, l, a, k
<1>9. /\ till' \in [Clients -> Nat] /\ told' \in [Clients -> Nat]
      /\ unheard' \subseteq Clients
    BY <1>2, <1>3, <1>4, <1>5, <1>6, <1>7
<1>10. \A j \in Clients : j # k =>
         /\ till'[j] = till[j] /\ told'[j] = told[j]
         /\ j \in unheard' <=> j \in unheard
    BY <1>2, <1>5, <1>6
<1>11. till'[k] = h /\ told'[k] = l
    BY <1>2, <1>5, <1>7
<1>12. a > told[k] => ~(a <= told[k])
    BY <1>7
<1>13. a > told[k] /\ k \notin unheard' => Listens(c)
    BY <1>6, <1>12
<1>14. a > told[k] /\ k \notin unheard' => till'[k] >= a
    BY <1>3, <1>7, <1>11, <1>13
<1>15. a <= told[k] => told'[k] = told[k] /\ unheard' = unheard
    BY <1>4, <1>6, <1>11
<1>16. QED
    BY <1>3, <1>4, <1>9, <1>10, <1>11, <1>14, <1>15 DEF k, a

\* An answer comes to one caller; those that wait for the same client with
\* what they read before are late.
LEMMA HearKept ==
    ASSUME CInv, NEW s \in Callers, NEW n \in Calls \cup {None}, CallAt(s, "sent"),
           Hear(calls[s]), calls' = [Warned(calls[s]) EXCEPT ![s] = n],
           n # None => n.at \in {"look", "done"},
           UNCHANGED <<now, faults, moves, leftAt>>, entry' \in Entries \cup {None}
    PROVE  /\ ClientTypes' /\ WaitsInv' /\ Punctual
           /\ \A t \in Callers :
                CallAt(t, "sent")' => CallAt(t, "sent") /\ calls'[t] = calls[t]
           /\ \A t \in Callers : t # s /\ (calls[t] = None \/ calls[t].at # "wait") =>
                calls'[t] = calls[t]
           /\ \A t \in Callers : t # s /\ calls[t] # None =>
                calls'[t] # None /\ calls'[t].what = calls[t].what
                /\ calls'[t].said = calls[t].said
PROOF
<1> DEFINE c == calls[s]
           Warn(t) == /\ calls[t] # None /\ calls[t].at = "wait"
                      /\ calls[t].client = c.client /\ Asked(c) > told[c.client]
<1>1. c \in Calls
    BY CallOf DEF CInv, CallAt
<1>2. /\ calls' \in [Callers -> Calls \cup {None}]
      /\ calls'[s] = n
      /\ \A t \in Callers : t # s =>
           /\ ~Warn(t) => calls'[t] = calls[t]
           /\ Warn(t) => calls'[t] = [calls[t] EXCEPT !.still = FALSE]
  <2>1. \A t \in Callers : calls[t] # None => calls[t] \in Calls
    BY CallOf DEF CInv
  <2>2. \A d \in Calls : [d EXCEPT !.still = FALSE] \in Calls
    BY DEF Calls
  <2>3. Warned(c) \in [Callers -> Calls \cup {None}]
    BY <2>1, <2>2 DEF Warned
  <2>4. QED
    BY <2>3 DEF Warned
<1>3. \A t \in Callers : t # s /\ calls[t] # None =>
        /\ calls'[t] # None /\ calls'[t].at = calls[t].at
        /\ calls'[t].what = calls[t].what /\ calls'[t].said = calls[t].said
        /\ calls'[t].client = calls[t].client /\ calls'[t].until = calls[t].until
        /\ calls[t].at # "wait" => calls'[t] = calls[t]
        /\ calls'[t].still => calls[t].still /\ ~Warn(t)
  <2> SUFFICES ASSUME NEW t \in Callers, t # s, calls[t] # None
               PROVE /\ calls'[t] # None /\ calls'[t].at = calls[t].at
                     /\ calls'[t].what = calls[t].what /\ calls'[t].said = calls[t].said
                     /\ calls'[t].client = calls[t].client /\ calls'[t].until = calls[t].until
                     /\ calls[t].at # "wait" => calls'[t] = calls[t]
                     /\ calls'[t].still => calls[t].still /\ ~Warn(t)
    OBVIOUS
  <2>1. CASE ~Warn(t)
    BY <1>2, <2>1
  <2>2. CASE Warn(t)
    <3>1. calls[t] \in Calls
      BY CallOf DEF CInv
    <3>2. calls'[t] = [calls[t] EXCEPT !.still = FALSE]
      BY <1>2, <2>2
    <3>3. calls'[t] \in Calls /\ calls'[t].at = "wait" /\ calls'[t].still = FALSE
          /\ calls'[t].client = calls[t].client /\ calls'[t].until = calls[t].until
          /\ calls'[t].what = calls[t].what /\ calls'[t].said = calls[t].said
      <4>1. \A d \in Calls :
              LET e == [d EXCEPT !.still = FALSE] IN
              /\ e \in Calls /\ e.at = d.at /\ e.still = FALSE /\ e.client = d.client
              /\ e.until = d.until /\ e.what = d.what /\ e.said = d.said
        BY DEF Calls
      <4>2. calls[t].at = "wait"
        BY <2>2
      <4>3. QED
        BY <3>1, <3>2, <4>1, <4>2
    <3>4. calls'[t] # None
      BY <3>3, NoneIsNothing
    <3>5. QED
      BY <2>2, <3>3, <3>4
  <2>3. QED
    BY <2>1, <2>2
<1>4. ClientTypes'
    BY <1>1, <1>2, Heard_ DEF CInv, ClientTypes
<1>5. WaitsInv'
  <2>1. ASSUME NEW k \in Clients, k \notin unheard' PROVE told'[k] <= till'[k]
    <3>1. CASE k # c.client
      BY <1>1, <2>1, <3>1, Heard_ DEF CInv, WaitsInv
    <3>2. CASE k = c.client /\ Asked(c) > told[k]
      <4>1. told'[k] = Asked(c) /\ till'[k] >= Asked(c) /\ Asked(c) \in Nat
        BY <1>1, <2>1, <3>2, Heard_, AskedTime DEF CInv
      <4>2. till'[k] \in Nat
        BY <1>4 DEF ClientTypes
      <4>3. QED
        BY <4>1, <4>2
    <3>3. CASE k = c.client /\ Asked(c) <= told[k]
      <4>1. told'[k] = told[k] /\ k \notin unheard /\ till[k] <= till'[k]
        BY <1>1, <2>1, <3>3, Heard_ DEF CInv
      <4>2. told[k] \in Nat /\ till[k] \in Nat /\ till'[k] \in Nat
        BY <1>4 DEF CInv, ClientTypes
      <4>3. QED
        BY <4>1, <4>2 DEF CInv, WaitsInv
    <3>4. Asked(c) \in Nat /\ told[k] \in Nat
      BY <1>1, AskedTime DEF CInv, ClientTypes
    <3>5. QED
      BY <3>1, <3>2, <3>3, <3>4
  <2>2. ASSUME NEW t \in Callers, calls'[t] # None, calls'[t].at = "wait",
               calls'[t].still, calls'[t].client \notin unheard'
        PROVE  told'[calls'[t].client] <= calls'[t].until
    <3>1. t # s /\ calls[t] # None /\ calls[t].at = "wait"
      BY <1>2, <1>3, <2>2
    <3>2. /\ calls[t].still /\ ~Warn(t) /\ calls'[t].client = calls[t].client
          /\ calls'[t].until = calls[t].until
      BY <1>3, <2>2, <3>1
    <3>3. calls[t] \in Calls /\ calls[t].client \in Clients
      BY <3>1, CallOf DEF CInv, Calls
    <3>4. CASE calls[t].client # c.client
      <4>1. calls[t].client \notin unheard /\ told'[calls[t].client] = told[calls[t].client]
        BY <1>1, <2>2, <3>2, <3>3, <3>4, Heard_ DEF CInv
      <4>2. QED
        BY <3>1, <3>2, <4>1 DEF CInv, WaitsInv, CallAt
    <3>5. CASE calls[t].client = c.client
      <4>1. Asked(c) <= told[c.client]
        BY <1>1, <3>1, <3>2, <3>5, AskedTime DEF CInv, ClientTypes
      <4>2. calls[t].client \notin unheard /\ told'[calls[t].client] = told[calls[t].client]
        BY <1>1, <2>2, <3>2, <3>3, <3>5, <4>1, Heard_ DEF CInv
      <4>3. QED
        BY <3>1, <3>2, <4>2 DEF CInv, WaitsInv, CallAt
    <3>6. QED
      BY <3>4, <3>5
  <2>3. QED
    BY <2>1, <2>2 DEF WaitsInv, CallAt
<1>6. \A t \in Callers :
        CallAt(t, "sent")' => t # s /\ CallAt(t, "sent") /\ calls'[t] = calls[t]
  <2> SUFFICES ASSUME NEW t \in Callers, CallAt(t, "sent")'
               PROVE t # s /\ CallAt(t, "sent") /\ calls'[t] = calls[t]
    OBVIOUS
  <2>1. t # s
    BY <1>2 DEF CallAt
  <2>2. CASE calls[t] = None
    BY <1>2, <2>1, <2>2 DEF CallAt
  <2>3. CASE calls[t] # None
    BY <1>3, <2>1, <2>3 DEF CallAt
  <2>4. QED
    BY <2>1, <2>2, <2>3
<1>7. Punctual
  <2>1. \A t \in Callers : CallAt(t, "sent")' => CallAt(t, "sent")
    BY <1>6
  <2>2. QED
    BY <2>1 DEF Punctual, CallAt
<1>8. \A t \in Callers : t # s /\ (calls[t] = None \/ calls[t].at # "wait") =>
        calls'[t] = calls[t]
    BY <1>2
<1>9. QED
    BY <1>3, <1>4, <1>5, <1>6, <1>7, <1>8

\* The answer to a request that is not about an affiliation.
LEMMA ReceiveKept ==
    ASSUME CInv, NEW s \in Callers, Receive(s)
    PROVE  CInv' /\ Punctual
PROOF
<1> DEFINE c == calls[s]
           failed == c.said \in {"busy", "lost"}
           n == IF failed /\ c.again /\ c.tries < Retries THEN Again(c, c.tries + 1)
                ELSE Reply(c, IF failed THEN "failed" ELSE c.said)
<1>1. c \in Calls /\ CallAt(s, "sent")
    BY CallOf DEF CInv, CallAt, Receive
<1>2. c.tries \in 0..Retries /\ c.said \in Answers \cup {None}
    BY <1>1 DEF Calls
<1>3. n \in Calls /\ n.at \in {"look", "done"}
  <2>1. c.tries < Retries => c.tries + 1 \in 0..Retries
    BY <1>2 DEF Retries
  <2>2. (IF failed THEN "failed" ELSE c.said) \in Answers \cup {None}
    BY <1>2 DEF Answers
  <2>3. QED
    BY <1>1, <2>1, <2>2, AgainCall, ReplyCall
<1>4. Hear(calls[s]) /\ calls' = [Warned(calls[s]) EXCEPT ![s] = n]
    BY DEF Receive
<1> HIDE DEF n
<1>5. UNCHANGED <<now, faults, moves, leftAt, entry>>
    BY DEF Receive, affiliationVars
<1>6. entry' \in Entries \cup {None}
    BY <1>5 DEF CInv, ClientTypes
<1>7. /\ ClientTypes' /\ WaitsInv' /\ Punctual
      /\ \A t \in Callers :
           CallAt(t, "sent")' => CallAt(t, "sent") /\ calls'[t] = calls[t]
    BY <1>1, <1>3, <1>4, <1>5, <1>6, HearKept
<1>8. RecentInv'
    BY <1>5, <1>7 DEF CInv, RecentInv, InFlight, LeftAfter, CallAt
<1>9. QED
    BY <1>7, <1>8 DEF CInv

\* The answer to a request for the affiliation.  One that is new was true when
\* it was sent; one that says that nothing has changed speaks of an entry which
\* the character had left at most a flight before it was sent.
LEMMA AffiliationKept ==
    ASSUME CInv, NEW s \in Callers, ReceiveAffiliation(s)
    PROVE  CInv' /\ Punctual
PROOF
<1> DEFINE c == calls[s]
           failed == c.said \in {"busy", "lost"}
           n == IF failed /\ c.tries < Retries THEN Again(c, c.tries + 1) ELSE None
<1>1. c \in Calls /\ CallAt(s, "sent") /\ c.what = "affiliation"
    BY CallOf DEF CInv, CallAt, ReceiveAffiliation
<1>2. c.tries \in 0..Retries /\ c.sent \in Nat /\ c.value \in Nat
    BY <1>1 DEF Calls
<1>3. n \in Calls \cup {None} /\ (n # None => n.at \in {"look", "done"})
  <2>1. c.tries < Retries => c.tries + 1 \in 0..Retries
    BY <1>2 DEF Retries
  <2>2. QED
    BY <1>1, <2>1, AgainCall
<1>4. Hear(calls[s]) /\ calls' = [Warned(calls[s]) EXCEPT ![s] = n]
    BY DEF ReceiveAffiliation
<1> HIDE DEF n
<1>5. UNCHANGED <<now, faults, moves, leftAt>>
    BY DEF ReceiveAffiliation
<1>6. InFlight(c)
    BY <1>1 DEF CInv, RecentInv
<1>7. now \in Nat /\ moves \in Nat /\ \A v \in 0..(moves - 1) : leftAt[v + 1] \in Nat
  <2>1. now \in Nat /\ moves \in Nat /\ leftAt \in Seq(Nat) /\ Len(leftAt) = moves
    BY DEF CInv, ClientTypes
  <2>2. \A i \in 1..moves : leftAt[i] \in Nat
    BY <2>1
  <2>3. \A v \in 0..(moves - 1) : v + 1 \in 1..moves
    BY <2>1
  <2>4. QED
    BY <2>1, <2>2, <2>3
<1>8. CASE failed
  <2>1. entry' = entry /\ entry' \in Entries \cup {None}
    BY <1>8 DEF ReceiveAffiliation, CInv, ClientTypes
  <2>2. /\ ClientTypes' /\ WaitsInv' /\ Punctual
        /\ \A t \in Callers :
             CallAt(t, "sent")' => CallAt(t, "sent") /\ calls'[t] = calls[t]
    BY <1>1, <1>3, <1>4, <1>5, <2>1, HearKept
  <2>3. RecentInv'
    BY <1>5, <2>1, <2>2 DEF CInv, RecentInv, InFlight, LeftAfter, CallAt
  <2>4. QED
    BY <2>2, <2>3 DEF CInv
<1>9. CASE ~failed /\ c.said = "same"
  <2>1. entry # None /\ entry \in Entries
    BY <1>1, <1>6, <1>9 DEF InFlight, CInv, ClientTypes
  <2>2. entry' = [entry EXCEPT !.expires = c.sent + Ttl]
    BY <1>9 DEF ReceiveAffiliation, RefreshedExpiry
  <2>3. c.sent + Ttl \in Nat
    BY <1>2, ConstantTypes
  <2>4. entry' \in Entries /\ entry'.value = entry.value /\ entry'.expires = c.sent + Ttl
    BY <2>1, <2>2, <2>3 DEF Entries
  <2>5. /\ ClientTypes' /\ WaitsInv' /\ Punctual
        /\ \A t \in Callers :
             CallAt(t, "sent")' => CallAt(t, "sent") /\ calls'[t] = calls[t]
    BY <1>1, <1>3, <1>4, <1>5, <2>4, HearKept
  <2>6. entry'.value <= moves /\ entry'.expires <= now + Ttl
    BY <1>2, <1>6, <1>7, <2>1, <2>4, ConstantTypes DEF InFlight, CInv, RecentInv
  <2>7. entry'.value < moves => entry'.expires <= leftAt[entry'.value + 1] + Flight + Ttl
    <3> SUFFICES ASSUME entry'.value < moves
                 PROVE  entry'.expires <= leftAt[entry'.value + 1] + Flight + Ttl
      OBVIOUS
    <3>1. c.sent <= leftAt[entry.value + 1] + Flight
      BY <1>1, <1>6, <1>9, <2>4 DEF InFlight
    <3>2. leftAt[entry.value + 1] \in Nat
      BY <1>7, <2>1, <2>4 DEF Entries
    <3>3. QED
      BY <1>2, <2>4, <3>1, <3>2, ConstantTypes
  <2>8. entry' # None
    BY <2>4, NoneIsNothing
  <2>9. \A t \in Callers : CallAt(t, "sent")' => InFlight(calls[t])'
    BY <1>5, <2>1, <2>4, <2>5, <2>8 DEF CInv, RecentInv, InFlight, LeftAfter, CallAt
  <2>10. RecentInv'
    BY <1>5, <2>6, <2>7, <2>9 DEF RecentInv
  <2>11. QED
    BY <2>5, <2>10 DEF CInv
<1>10. CASE ~failed /\ c.said # "same"
  <2>1. entry' = [value |-> c.value, expires |-> c.sent + Ttl]
    BY <1>10 DEF ReceiveAffiliation
  <2>2. c.sent + Ttl \in Nat
    BY <1>2, ConstantTypes
  <2>3. entry' \in Entries /\ entry'.value = c.value /\ entry'.expires = c.sent + Ttl
    BY <1>2, <2>1, <2>2 DEF Entries
  <2>4. /\ ClientTypes' /\ WaitsInv' /\ Punctual
        /\ \A t \in Callers :
             CallAt(t, "sent")' => CallAt(t, "sent") /\ calls'[t] = calls[t]
    BY <1>1, <1>3, <1>4, <1>5, <2>3, HearKept
  <2>5. /\ c.value <= moves /\ c.sent <= now /\ now <= c.sent + Flight
        /\ c.value < moves => c.sent <= leftAt[c.value + 1]
    BY <1>1, <1>6, <1>10 DEF InFlight, LeftAfter
  <2>6. c.value < moves => leftAt[c.value + 1] \in Nat
    BY <1>2, <1>7
  <2>7. /\ entry'.value <= moves /\ entry'.expires <= now + Ttl
        /\ entry'.value < moves => entry'.expires <= leftAt[entry'.value + 1] + Flight + Ttl
    BY <1>2, <1>7, <2>3, <2>5, <2>6, ConstantTypes
  <2>8. entry' # None
    BY <2>3, NoneIsNothing
  <2>9. ASSUME NEW t \in Callers, CallAt(t, "sent")' PROVE InFlight(calls[t])'
    <3>1. calls'[t] = calls[t] /\ InFlight(calls[t]) /\ calls[t] \in Calls
      BY <2>4, <2>9, CallOf DEF CInv, RecentInv, CallAt
    <3>2. calls[t].sent \in Nat /\ calls[t].sent <= now
      BY <3>1 DEF Calls, InFlight
    <3>3. entry'.value < moves => calls[t].sent <= leftAt[entry'.value + 1] + Flight
      BY <1>2, <1>7, <2>3, <2>5, <2>6, <3>2, ConstantTypes
    <3>4. QED
      BY <1>5, <2>8, <3>1, <3>3 DEF InFlight, LeftAfter
  <2>10. RecentInv'
    BY <1>5, <2>7, <2>9 DEF RecentInv
  <2>11. QED
    BY <2>4, <2>10 DEF CInv
<1>11. QED
    BY <1>8, <1>9, <1>10

\* The character moves.
LEMMA MoveKept ==
    ASSUME CInv, Move
    PROVE  CInv' /\ Punctual
PROOF
<1>1. now \in Nat /\ moves \in Nat /\ leftAt \in Seq(Nat) /\ Len(leftAt) = moves
    BY DEF CInv, ClientTypes
<1>2. moves' = moves + 1 /\ leftAt' = Append(leftAt, now)
    BY DEF Move
<1>3. UNCHANGED <<now, calls, faults, throttleVars, entry>>
    BY DEF Move
<1>4. /\ leftAt' \in Seq(Nat) /\ Len(leftAt') = moves'
      /\ \A i \in 1..moves : leftAt'[i] = leftAt[i]
      /\ leftAt'[moves + 1] = now
    BY <1>1, <1>2
<1>5. ClientTypes' /\ WaitsInv' /\ Punctual
    BY <1>1, <1>2, <1>3, <1>4
    DEF CInv, ClientTypes, WaitsInv, Punctual, CallAt, throttleVars
<1>6. \A v \in Nat : v <= moves =>
        /\ v <= moves'
        /\ v < moves => leftAt'[v + 1] = leftAt[v + 1]
        /\ v < moves' /\ ~(v < moves) => leftAt'[v + 1] = now
  <2> SUFFICES ASSUME NEW v \in Nat, v <= moves
               PROVE /\ v <= moves'
                     /\ v < moves => leftAt'[v + 1] = leftAt[v + 1]
                     /\ v < moves' /\ ~(v < moves) => leftAt'[v + 1] = now
    OBVIOUS
  <2>1. v <= moves'
    BY <1>1, <1>2
  <2>2. v < moves => v + 1 \in 1..moves
    BY <1>1
  <2>3. ~(v < moves) => v = moves
    BY <1>1
  <2>4. QED
    BY <1>4, <2>1, <2>2, <2>3
<1>7. entry # None =>
        /\ entry.value \in Nat /\ entry.expires \in Nat /\ entry.value <= moves
        /\ entry.expires <= now + Ttl
        /\ entry.value < moves => entry.expires <= leftAt[entry.value + 1] + Flight + Ttl
    BY DEF CInv, ClientTypes, RecentInv, Entries
<1>8. ASSUME NEW t \in Callers, CallAt(t, "sent")' PROVE InFlight(calls[t])'
  <2>1. calls'[t] = calls[t] /\ InFlight(calls[t]) /\ calls[t] \in Calls
    BY <1>3, <1>8, CallOf DEF CInv, RecentInv, CallAt
  <2>2. calls[t].sent \in Nat /\ calls[t].value \in Nat /\ calls[t].sent <= now
    BY <2>1 DEF Calls, InFlight
  <2>3. LeftAfter(calls[t].value, calls[t].sent) =>
          LeftAfter(calls[t].value, calls[t].sent)'
    BY <1>3, <1>6, <2>1, <2>2 DEF LeftAfter
  <2>4. entry # None /\ (entry.value < moves =>
          calls[t].sent <= leftAt[entry.value + 1] + Flight) =>
          (entry.value < moves' => calls[t].sent <= leftAt'[entry.value + 1] + Flight)
    <3>1. entry # None /\ entry.value < moves' /\ ~(entry.value < moves) =>
            calls[t].sent <= leftAt'[entry.value + 1] + Flight
      <4>1. calls[t].sent <= now + Flight
        BY <1>1, <2>2, ConstantTypes
      <4>2. QED
        BY <1>6, <1>7, <4>1
    <3>2. QED
      BY <1>6, <1>7, <3>1
  <2>5. QED
    BY <1>3, <2>1, <2>3, <2>4 DEF InFlight
<1>9. entry # None =>
        /\ entry.value <= moves'
        /\ entry.value < moves' => entry.expires <= leftAt'[entry.value + 1] + Flight + Ttl
  <2>1. entry # None /\ entry.value < moves' /\ ~(entry.value < moves) =>
          entry.expires <= leftAt'[entry.value + 1] + Flight + Ttl
    <3>1. entry # None => entry.expires <= now + Flight + Ttl
      BY <1>1, <1>7, ConstantTypes
    <3>2. QED
      BY <1>6, <1>7, <3>1
  <2>2. QED
    BY <1>6, <1>7, <2>1
<1>10. RecentInv'
    BY <1>3, <1>7, <1>8, <1>9 DEF RecentInv
<1>11. QED
    BY <1>5, <1>10 DEF CInv

\* Time passes.
LEMMA TickKept ==
    ASSUME CInv, Tick
    PROVE  CInv' /\ Punctual
PROOF
<1>1. now \in Nat /\ now' = now + 1
    BY DEF Tick, CInv, ClientTypes
<1>2. UNCHANGED <<calls, faults, throttleVars, affiliationVars>>
    BY DEF Tick
<1>3. ClientTypes' /\ WaitsInv' /\ Punctual
    BY <1>1, <1>2 DEF CInv, ClientTypes, WaitsInv, Punctual, CallAt, throttleVars,
                      affiliationVars
<1>4. ASSUME NEW t \in Callers, CallAt(t, "sent")' PROVE InFlight(calls[t])'
  <2>1. calls'[t] = calls[t] /\ InFlight(calls[t]) /\ calls[t] \in Calls /\ CallAt(t, "sent")
    BY <1>2, <1>4, CallOf DEF CInv, RecentInv, CallAt
  <2>2. calls[t].sent \in Nat /\ calls[t].sent <= now /\ now < calls[t].sent + Flight
    BY <2>1 DEF Calls, InFlight, Tick
  <2>3. calls[t].sent <= now' /\ now' <= calls[t].sent + Flight
    BY <1>1, <2>2, ConstantTypes
  <2>4. QED
    BY <1>2, <2>1, <2>3 DEF InFlight, LeftAfter, affiliationVars
<1>5. entry # None => entry.expires <= now' + Ttl
    BY <1>1, ConstantTypes DEF CInv, RecentInv, ClientTypes, Entries
<1>6. RecentInv'
    BY <1>2, <1>4, <1>5 DEF CInv, RecentInv, affiliationVars
<1>7. QED
    BY <1>3, <1>6 DEF CInv

-----------------------------------------------------------------------------
(* Operations.                                                             *)

OInv == OrgTypes /\ OpsInv /\ AskedInv /\ OnlyTheGoneAreClosed

\* What has been found and is still to be asked about is as it was read.
Fresh(op, rows) ==
  /\ \A o \in op.todo \ op.unaware : Closed(rows[o]) => Closed(op.snap[o])
  /\ \A o \in Orgs \ op.unaware : InNews(op, o) => ~Closed(rows[o])
Good(op, f, rows) == Filled(op) /\ Apart(op) /\ MarksGone(op, f) /\ Informed(op, rows)

LEMMA OpOf ==
    ASSUME OInv, NEW s \in Callers, ops[s] # None
    PROVE  /\ ops[s] \in Ops /\ Good(ops[s], fate, table)
           /\ Filled(ops[s]) /\ Apart(ops[s]) /\ MarksGone(ops[s], fate)
           /\ Informed(ops[s], table) /\ Fresh(ops[s], table)
PROOF
<1>1. ops[s] \in Ops
    BY DEF OInv, OrgTypes
<1>2. Good(ops[s], fate, table)
    BY DEF OInv, OpsInv, Good
<1>3. Informed(ops[s], table) => Fresh(ops[s], table)
    BY DEF Informed, Fresh
<1>4. QED
    BY <1>1, <1>2, <1>3 DEF Good

LEMMA NoneIsNoOrg == None \notin Orgs /\ Corps \cap Alliances = {}
PROOF
  BY OrgAssumption DEF Orgs

\* An operation that does not wait for an answer has no call of its own.
LEMMA NotAsking ==
    ASSUME OInv, NEW s \in Callers, ops[s] = None \/ ops[s].at # "asked", NEW n
    PROVE  AsksFor(calls[s], n, fate)
PROOF
<1>1. ~(calls[s] # None /\ calls[s].what \in Asking)
    BY DEF OInv, AskedInv, AsksFor
<1>2. QED
    BY <1>1 DEF AsksFor

\* One caller's operation becomes another or ends, and no row is closed.
LEMMA OneOp ==
    ASSUME OInv, NEW s \in Callers, NEW n \in Ops \cup {None}, Goes(s, n),
           fate' = fate, begun' \in Nat, table' \in Tables,
           n # None => Good(n, fate, table'),
           \A o \in Orgs : table[o] # None => table'[o] # None,
           \A o \in Orgs : Closed(table'[o]) => Closed(table[o]),
           \A t \in Callers : t # s => calls'[t] = calls[t],
           AsksFor(calls'[s], n, fate)
    PROVE  OInv'
PROOF
<1>1. /\ ops' \in [Callers -> Ops \cup {None}]
      /\ \A t \in Callers : IF t = s THEN ops'[t] = n ELSE ops'[t] = ops[t]
    BY DEF Goes, OInv, OrgTypes
<1>2. OrgTypes'
    BY <1>1 DEF OInv, OrgTypes
<1>3. ASSUME NEW t \in Callers, ops'[t] # None PROVE Good(ops'[t], fate', table')
  <2>1. CASE t = s
    BY <1>1, <1>3, <2>1
  <2>2. CASE t # s
    <3>1. ops'[t] = ops[t] /\ ops[t] \in Ops /\ Good(ops[t], fate, table)
      BY <1>1, <1>3, <2>2, OpOf
    <3>2. ops[t].todo \subseteq Orgs
      BY <3>1 DEF Ops
    <3>a. ops[t].at = "save" => ops[t].org \in Orgs
      BY <3>1 DEF Good, Filled
    <3>3. Informed(ops[t], table')
      BY <3>1, <3>2, <3>a DEF Good, Informed
    <3>4. QED
      BY <3>1, <3>3 DEF Good
  <2>3. QED
    BY <2>1, <2>2
<1>4. OpsInv'
  <2>1. \A t \in Callers : ops'[t] # None =>
          /\ Filled(ops'[t]) /\ Apart(ops'[t])
          /\ MarksGone(ops'[t], fate') /\ Informed(ops'[t], table')
    BY <1>3 DEF Good
  <2>2. QED
    BY <2>1 DEF OpsInv
<1>5. AskedInv'
  <2>1. \A t \in Callers : AsksFor(calls'[t], ops'[t], fate')
    BY <1>1 DEF OInv, AskedInv
  <2>2. QED
    BY <2>1 DEF AskedInv
<1>6. OnlyTheGoneAreClosed'
    BY DEF OInv, OnlyTheGoneAreClosed
<1>7. QED
    BY <1>2, <1>4, <1>5, <1>6 DEF OInv

\* The same where the rows stay as they are.
LEMMA OpOnly ==
    ASSUME OInv, NEW s \in Callers, NEW n \in Ops \cup {None}, Goes(s, n),
           fate' = fate, begun' \in Nat, table' = table,
           n # None => Good(n, fate, table),
           \A t \in Callers : t # s => calls'[t] = calls[t],
           AsksFor(calls'[s], n, fate)
    PROVE  OInv'
PROOF
  BY OneOp DEF OInv, OrgTypes

\* An operation goes on: with the rest of what a search found, ...
LEMMA GoesOnGood ==
    ASSUME OInv, NEW s \in Callers, ops[s] # None, NEW rows, Fresh(ops[s], rows),
           ops[s].do = "search" => ops[s].phase \in {"alliances", "corporations"}
    PROVE  /\ GoesOn(s) \in Ops \cup {None}
           /\ GoesOn(s) # None =>
                /\ GoesOn(s).at = "next" /\ GoesOn(s).do = "search"
                /\ GoesOn(s).phase = ops[s].phase /\ GoesOn(s).todo = ops[s].todo
                /\ GoesOn(s).snap = ops[s].snap /\ GoesOn(s).news = ops[s].news
                /\ GoesOn(s).unaware = ops[s].unaware
                /\ Good(GoesOn(s), fate, rows)
PROOF
<1> DEFINE op == ops[s]
           n == GoesOn(s)
<1>1. op \in Ops /\ Filled(op) /\ Apart(op)
    BY OpOf
<1>2. CASE op.do # "search"
    BY <1>2 DEF GoesOn
<1>3. CASE op.do = "search"
  <2> DEFINE d == At(s, "next")
  <2>1. n = [d EXCEPT !.org = None, !.orig = None, !.write = "open"]
    BY <1>3 DEF GoesOn
  <2>2. /\ d \in Ops /\ d.at = "next" /\ d.do = op.do /\ d.phase = op.phase
        /\ d.todo = op.todo /\ d.snap = op.snap /\ d.news = op.news /\ d.unaware = op.unaware
    BY <1>1 DEF At, Ops
  <2> HIDE DEF d, n
  <2>3. n \in Ops
    BY <2>1, <2>2 DEF Ops
  <2>4. /\ n.at = "next" /\ n.do = op.do /\ n.phase = op.phase
        /\ n.todo = op.todo /\ n.snap = op.snap /\ n.news = op.news /\ n.unaware = op.unaware
    BY <2>1, <2>2 DEF Ops
  <2>5. op.phase \in {"alliances", "corporations"}
    BY <1>3
  <2>6. Filled(n)
    BY <1>1, <1>3, <2>4, <2>5 DEF Filled, InNews
  <2>7. Apart(n)
    BY <1>1, <2>4 DEF Apart, InNews
  <2>8. MarksGone(n, fate)
    BY <2>4 DEF MarksGone
  <2>9. Informed(n, rows)
    BY <2>4 DEF Informed, Fresh, InNews
  <2>10. QED
    BY <1>3, <2>3, <2>4, <2>6, <2>7, <2>8, <2>9 DEF n, Good
<1>4. QED
    BY <1>2, <1>3

\* ... to mark its organisation, which is gone, ...
LEMMA MarksGood ==
    ASSUME OInv, NEW s \in Callers, ops[s] # None, ops[s].at \in {"look", "asked"},
           ops[s].org \in Orgs, fate[ops[s].org] # "lives",
           ops[s].do = "search" => ops[s].phase \in {"alliances", "corporations"}
    PROVE  Marks(s) \in Ops /\ Good(Marks(s), fate, table) /\ Marks(s).at = "find"
PROOF
<1> DEFINE op == ops[s]
           n == Marks(s)
<1>1. op \in Ops /\ Filled(op) /\ Apart(op) /\ Fresh(op, table)
    BY OpOf
<1>2. n \in Ops
    BY <1>1 DEF Marks, Ops
<1>3. /\ n.at = "find" /\ n.write = "close" /\ n.do = op.do /\ n.phase = op.phase
      /\ n.org = op.org /\ n.todo = op.todo /\ n.snap = op.snap /\ n.news = op.news
      /\ n.unaware = op.unaware
    BY <1>1 DEF Marks, Ops
<1> HIDE DEF n
<1>4. Filled(n)
    BY <1>1, <1>3 DEF Filled, InNews
<1>5. Apart(n)
    BY <1>1, <1>3 DEF Apart, InNews
<1>6. MarksGone(n, fate) /\ Informed(n, table)
    BY <1>1, <1>3 DEF MarksGone, Informed, Fresh, InNews
<1>7. QED
    BY <1>2, <1>3, <1>4, <1>5, <1>6 DEF Good, n

\* ... or to write it as open, which it was when last seen.
LEMMA OpensGood ==
    ASSUME OInv, NEW s \in Callers, ops[s] # None, ops[s].at \in {"look", "asked"},
           ops[s].org \in Orgs,
           ops[s].do # "owner" /\ ops[s].org \notin ops[s].unaware => ~Closed(table[ops[s].org]),
           ops[s].do = "search" => ops[s].phase \in {"alliances", "corporations"},
           NEW p \in {ops[s].phase, "again"}, p # ops[s].phase => ops[s].do = "structure"
    PROVE  LET n == [Opens(s) EXCEPT !.phase = p] IN
           n \in Ops /\ Good(n, fate, table) /\ n.at = "find"
PROOF
<1> DEFINE op == ops[s]
           d == Opens(s)
           n == [d EXCEPT !.phase = p]
<1>1. op \in Ops /\ Filled(op) /\ Apart(op) /\ Fresh(op, table)
    BY OpOf
<1>2. /\ d \in Ops /\ d.at = "find" /\ d.write = "open" /\ d.do = op.do /\ d.phase = op.phase
      /\ d.org = op.org /\ d.todo = op.todo /\ d.snap = op.snap /\ d.news = op.news
      /\ d.unaware = op.unaware
    BY <1>1 DEF Opens, Ops
<1> HIDE DEF d
<1>3. p \in {"none", "again", "alliances", "corporations"}
    BY <1>1 DEF Ops
<1>4. n \in Ops
    BY <1>2, <1>3 DEF Ops
<1>5. /\ n.at = "find" /\ n.write = "open" /\ n.do = op.do /\ n.phase = p
      /\ n.org = op.org /\ n.todo = op.todo /\ n.snap = op.snap /\ n.news = op.news
      /\ n.unaware = op.unaware
    BY <1>2 DEF Ops
<1> HIDE DEF n
<1>6. Filled(n)
  <2>1. CASE p = op.phase
    BY <1>1, <1>5, <2>1 DEF Filled, InNews
  <2>2. CASE p = "again" /\ op.do = "structure"
    BY <1>1, <1>5, <2>2 DEF Filled, InNews
  <2>3. QED
    BY <2>1, <2>2
<1>7. Apart(n)
    BY <1>1, <1>5 DEF Apart, InNews
<1>8. MarksGone(n, fate) /\ Informed(n, table)
    BY <1>1, <1>5 DEF MarksGone, Informed, Fresh, InNews
<1>9. QED
    BY <1>4, <1>5, <1>6, <1>7, <1>8 DEF Good, n, d

\* An operation that goes on remembers what it failed to read.
LEMMA Unawares ==
    ASSUME NEW n \in Ops, NEW f, NEW rows, Good(n, f, rows), NEW hidden \in SUBSET Orgs
    PROVE  LET m == [n EXCEPT !.unaware = @ \cup hidden] IN m \in Ops /\ Good(m, f, rows)
PROOF
<1> DEFINE all == n.unaware \cup hidden
           m == [n EXCEPT !.unaware = all]
<1>1. all \in SUBSET Orgs /\ n.unaware \subseteq all
    BY DEF Ops
<1> HIDE DEF all
<1>2. m \in Ops
    BY <1>1 DEF Ops
<1>3. /\ m.at = n.at /\ m.do = n.do /\ m.phase = n.phase /\ m.org = n.org /\ m.todo = n.todo
      /\ m.snap = n.snap /\ m.news = n.news /\ m.write = n.write /\ m.orig = n.orig
      /\ m.unaware = all
    BY DEF Ops
<1>4. m = [n EXCEPT !.unaware = @ \cup hidden]
    BY DEF all
<1> HIDE DEF m
<1>5. Filled(m) /\ Apart(m) /\ MarksGone(m, f)
    BY <1>3 DEF Good, Filled, Apart, MarksGone, InNews
<1>6. Informed(m, rows)
    BY <1>1, <1>3 DEF Good, Informed, InNews
<1>7. QED
    BY <1>2, <1>4, <1>5, <1>6 DEF Good

\* What an operation does to the calls, while the database may fail.
Bears == faults' \in Nat /\ UNCHANGED <<now, throttleVars, affiliationVars>>
Silent(s) == Bears /\ UNCHANGED calls
AsksOf(s) == Bears /\ \E k \in Clients, w \in Asking : Enter(s, k, w, TRUE)
LeavesOf(s) == Bears /\ Leave(s)
Speaks(s) == Silent(s) \/ AsksOf(s) \/ LeavesOf(s)

LEMMA FaultBears ==
    ASSUME CInv, NEW b \in BOOLEAN, Fault(b) PROVE Bears
PROOF
<1>1. faults \in Nat /\ faults' \in {faults, faults + 1}
    BY DEF CInv, ClientTypes, Fault
<1>2. QED
    BY <1>1 DEF Bears, Fault

LEMMA SpeaksKept ==
    ASSUME CInv, NEW s \in Callers, Speaks(s)
    PROVE  CInv' /\ Punctual /\ \A t \in Callers : t # s => calls'[t] = calls[t]
PROOF
<1>1. CASE Silent(s)
    BY <1>1, SameCalls DEF Silent, Bears
<1>2. CASE AsksOf(s)
  <2>1. PICK k \in Clients, w \in Asking : Enter(s, k, w, TRUE)
    BY <1>2 DEF AsksOf
  <2>2. CInv' /\ Punctual
    BY <1>2, <2>1, Asked_ DEF AsksOf, Bears
  <2>3. QED
    BY <2>1, <2>2 DEF Enter, CInv, ClientTypes
<1>3. CASE LeavesOf(s)
  <2>1. Leave(s) /\ CInv' /\ Punctual
    BY <1>3, Left_ DEF LeavesOf, Bears
  <2>2. QED
    BY <2>1 DEF Leave, CInv, ClientTypes
<1>4. QED
    BY <1>1, <1>2, <1>3 DEF Speaks

LEMMA Questions ==
    ASSUME CInv, NEW s, NEW k \in Clients, NEW w \in Asking, Asks(s, k, w) PROVE Speaks(s)
PROOF
  BY DEF Speaks, AsksOf, Asks, Bears, CInv, ClientTypes

LEMMA Silence ==
    ASSUME CInv, NEW s, UNCHANGED clientVars PROVE Speaks(s)
PROOF
  BY DEF Speaks, Silent, clientVars, Bears, CInv, ClientTypes

LEMMA Listening ==
    ASSUME CInv, NEW s, Hears(s) PROVE Speaks(s)
PROOF
  BY DEF Speaks, LeavesOf, Hears, Bears, CInv, ClientTypes

\* Every step of a worker but a send is silent, a question, an answer or a save.
LEMMA WorkersSpeak ==
    ASSUME CInv, NEW s \in Callers, WorkerStep(s)
    PROVE  Speaks(s) \/ SendForOp(s) \/ SaveRow(s)
PROOF
<1> USE DEF Quiet, Clients, Asking
<1>1. ASSUME NEW o \in Orgs, BeginLookup(s, o) \/ BeginStructure(s, o) \/ BeginOwner(s, o)
      PROVE  Speaks(s)
    BY <1>1, Questions, Silence DEF BeginLookup, BeginStructure, BeginOwner
<1>2. BeginSearch(s) => Speaks(s)
    BY Questions DEF BeginSearch
<1>3. FindRow(s) \/ ToParent(s) \/ UpsertCorporations(s) => Speaks(s)
    BY Silence DEF FindRow, ToParent, UpsertCorporations
<1>4. LookUp(s) => Speaks(s)
  <2>1. ASSUME LookUp(s) PROVE Speaks(s)
    <3>1. PICK b \in BOOLEAN, w \in Asking :
            Fault(b) /\ (UNCHANGED calls \/ Enter(s, "public", w, TRUE))
      BY <2>1 DEF LookUp
    <3>2. Bears
      BY <3>1, FaultBears
    <3>3. QED
      BY <3>1, <3>2 DEF Speaks, Silent, AsksOf
  <2>2. QED
    BY <2>1
<1>5. AnswerToLookup(s) \/ MembersOfMatch(s) \/ ProfileOfMatch(s) => Speaks(s)
    BY Listening DEF AnswerToLookup, MembersOfMatch, ProfileOfMatch
<1>6. NextAlliance(s) => Speaks(s)
  <2>1. NextAlliance(s) => \/ UNCHANGED clientVars
                           \/ Asks(s, "public", "members") \/ Asks(s, "public", "details")
    BY DEF NextAlliance
  <2>2. QED
    BY <2>1, Questions, Silence
<1>7. DetailsOfMatch(s) => Speaks(s)
  <2>1. DetailsOfMatch(s) => Asks(s, "public", "members") \/ Hears(s)
    BY DEF DetailsOfMatch
  <2>2. QED
    BY <2>1, Questions, Listening
<1>8. NextCorporation(s) => Speaks(s)
  <2>1. NextCorporation(s) => UNCHANGED clientVars \/ Asks(s, "public", "profile")
    BY DEF NextCorporation
  <2>2. QED
    BY <2>1, Questions, Silence
<1>9. SearchAnswered(s) => Speaks(s)
  <2>1. ASSUME SearchAnswered(s) PROVE Speaks(s)
    <3>1. PICK b \in BOOLEAN : Fault(b)
      BY <2>1 DEF SearchAnswered
    <3>2. Leave(s)
      BY <2>1 DEF SearchAnswered
    <3>3. QED
      BY <3>1, <3>2, FaultBears DEF Speaks, LeavesOf
  <2>2. QED
    BY <2>1
<1>10. UpsertAlliances(s) => Speaks(s)
  <2>1. ASSUME UpsertAlliances(s) PROVE Speaks(s)
    <3>1. PICK b \in BOOLEAN : Fault(b)
      BY <2>1 DEF UpsertAlliances
    <3>2. QED
      BY <2>1, <3>1, FaultBears DEF Speaks, Silent, UpsertAlliances
  <2>2. QED
    BY <2>1
<1>11. QED
    BY <1>1, <1>2, <1>3, <1>4, <1>5, <1>6, <1>7, <1>8, <1>9, <1>10 DEF WorkerStep

LEMMA AnswersOf ==
    ASSUME OInv, NEW s \in Callers, calls[s] # None, calls[s].what \in Asking
    PROVE  /\ AnswerOf(s) \in {"ok", "notfound", "empty"}
           /\ calls[s].what # "search" /\ AnswerOf(s) \in {"notfound", "empty"} =>
                fate[ops[s].org] # "lives"
PROOF
<1>1. calls[s].what # "search" => ops[s].org \in Orgs
    BY DEF OInv, AskedInv, AsksFor
<1>2. \A o \in Orgs : fate[o] \in {"lives", "notfound", "empty"}
    BY DEF OInv, OrgTypes
<1>3. QED
    BY <1>1, <1>2 DEF AnswerOf

\* Every step keeps what is known of the calls.
LEMMA CallsKept ==
    ASSUME CInv, OInv, [Next]_vars
    PROVE  CInv' /\ Punctual
PROOF
<1>1. ASSUME NEW s \in Callers, WorkerStep(s) PROVE CInv' /\ Punctual
  <2>1. CASE Speaks(s)
    BY <2>1, SpeaksKept
  <2>2. CASE SendForOp(s)
    <3>1. calls[s] # None /\ calls[s].what \in Asking /\ SendWith(s, {AnswerOf(s)})
      BY <2>2 DEF SendForOp, CallAt
    <3>2. {AnswerOf(s)} \subseteq Answers
      BY <3>1, AnswersOf DEF Answers
    <3>3. calls[s].what # "affiliation"
      BY <3>1 DEF Asking
    <3>4. QED
      BY <3>1, <3>2, <3>3, SendKept
  <2>3. CASE SaveRow(s)
    <3>1. UNCHANGED <<now, calls, throttleVars, affiliationVars>> /\ faults' \in Nat
      BY <2>3 DEF SaveRow, Quiet, clientVars, CInv, ClientTypes
    <3>2. QED
      BY <3>1, SameCalls
  <2>4. QED
    BY <1>1, <2>1, <2>2, <2>3, WorkersSpeak
<1>2. ASSUME NEW s \in Callers, CallStep(s) PROVE CInv' /\ Punctual
  <2>1. CASE LookAtThrottle(s)
    BY <2>1, LookKept
  <2>2. CASE GiveUp(s)
    BY <2>2, GiveUpKept
  <2>3. CASE Receive(s)
    BY <2>3, ReceiveKept
  <2>4. CASE SendAffiliation(s)
    <3>1. PICK Says :
            /\ Says = {IF entry # None /\ entry.value = moves THEN "same" ELSE "ok"}
            /\ SendWith(s, Says)
      BY <2>4 DEF SendAffiliation
    <3>2. Says \subseteq Answers
      BY <3>1 DEF Answers
    <3>3. QED
      BY <3>1, <3>2, SendKept
  <2>5. CASE ReceiveAffiliation(s)
    BY <2>5, AffiliationKept
  <2>6. CASE SendDirect(s)
    <3>1. calls[s].what # "affiliation" /\ SendWith(s, {"ok"})
      BY <2>6 DEF SendDirect, AskedOnce
    <3>2. QED
      BY <3>1, SendKept DEF Answers
  <2>7. CASE RequestEnds(s)
    BY <2>7, Left_ DEF RequestEnds, CInv, ClientTypes
  <2>8. CASE AskAffiliation(s)
    BY <2>8, Asked_ DEF AskAffiliation, Clients, CInv, ClientTypes
  <2>9. CASE AskDirect(s)
    <3>1. PICK w \in AskedOnce : Enter(s, "direct", w, FALSE)
      BY <2>9 DEF AskDirect
    <3>2. QED
      BY <2>9, <3>1, Asked_ DEF AskDirect, Clients, CInv, ClientTypes
  <2>10. QED
    BY <1>2, <2>1, <2>2, <2>3, <2>4, <2>5, <2>6, <2>7, <2>8, <2>9 DEF CallStep
<1>3. ASSUME NEW o \in Orgs, Disband(o) PROVE CInv' /\ Punctual
  <2>1. UNCHANGED <<now, calls, throttleVars, affiliationVars>> /\ faults' \in Nat
    BY <1>3 DEF Disband, clientVars, CInv, ClientTypes
  <2>2. QED
    BY <2>1, SameCalls
<1>4. Move \/ Tick => CInv' /\ Punctual
    BY MoveKept, TickKept
<1>5. ASSUME UNCHANGED vars PROVE CInv' /\ Punctual
  <2>1. UNCHANGED <<now, calls, throttleVars, affiliationVars>> /\ faults' \in Nat
    BY <1>5 DEF vars, clientVars, CInv, ClientTypes
  <2>2. QED
    BY <2>1, SameCalls
<1>6. QED
    BY <1>1, <1>2, <1>3, <1>4, <1>5 DEF Next

\* The call an operation enters, and the one it leaves.
LEMMA EntersAbout ==
    ASSUME OInv, CInv, NEW s \in Callers, NEW k \in Clients, NEW w \in Asking,
           Enter(s, k, w, TRUE),
           NEW n, n # None, n.at = "asked", w = "search" <=> n.do = "search" /\ n.phase = "none",
           w # "search" => n.org \in Orgs, w = "profile" => n.org \in Corps
    PROVE  AsksFor(calls'[s], n, fate)
PROOF
<1>1. calls'[s] = Call(k, w, TRUE)
    BY DEF Enter, CInv, ClientTypes
<1>2. calls'[s].what = w /\ calls'[s].said = None
    BY <1>1 DEF Call
<1>3. None \notin {"notfound", "empty"}
    BY NoneIsNothing DEF Answers
<1>4. QED
    BY <1>2, <1>3 DEF AsksFor

LEMMA AsksAbout ==
    ASSUME OInv, CInv, NEW s \in Callers, NEW k \in Clients, NEW w \in Asking, Asks(s, k, w),
           NEW n, n # None, n.at = "asked", w = "search" <=> n.do = "search" /\ n.phase = "none",
           w # "search" => n.org \in Orgs, w = "profile" => n.org \in Corps
    PROVE  AsksFor(calls'[s], n, fate)
PROOF
  BY EntersAbout DEF Asks

LEMMA AsksNoMore ==
    ASSUME CInv, NEW s \in Callers, Leave(s), NEW n
    PROVE  AsksFor(calls'[s], n, fate)
PROOF
  BY DEF Leave, CInv, ClientTypes, AsksFor

LEMMA BegunIsANumber ==
    ASSUME OInv, begun' = begun PROVE begun' \in Nat
PROOF
  BY DEF OInv, OrgTypes

\* An operation begins.
LEMMA NewOp ==
    ASSUME NEW d \in {"lookup", "structure", "owner", "search"}, NEW a \in {"look", "asked"},
           NEW o \in Orgs \cup {None}, o = None <=> d = "search",
           d \in {"owner", "search"} <=> a = "asked"
    PROVE  /\ Op(d, a, o) \in Ops /\ Good(Op(d, a, o), fate, table)
           /\ Op(d, a, o).at = a /\ Op(d, a, o).do = d /\ Op(d, a, o).phase = "none"
           /\ Op(d, a, o).org = o
PROOF
<1> DEFINE n == Op(d, a, o)
<1>1. n \in Ops
    BY DEF Op, Ops
<1>2. /\ n.at = a /\ n.do = d /\ n.phase = "none" /\ n.org = o /\ n.todo = {} /\ n.news = {}
      /\ n.unaware = {} /\ n.write = "open"
    BY DEF Op
<1> HIDE DEF n
<1>3. o = None \/ o \in Orgs
    OBVIOUS
<1>4. Filled(n)
    BY <1>2, <1>3, NoneIsNoOrg DEF Filled, InNews
<1>5. Apart(n)
    BY <1>2 DEF Apart, InNews
<1>6. MarksGone(n, fate)
    BY <1>2 DEF MarksGone
<1>7. Informed(n, table)
    BY <1>2, <1>3, NoneIsNoOrg DEF Informed, InNews
<1>8. QED
    BY <1>1, <1>2, <1>4, <1>5, <1>6, <1>7 DEF n, Good

LEMMA BeginKept ==
    ASSUME OInv, CInv, NEW s \in Callers,
           BeginSearch(s) \/ \E o \in Orgs :
             BeginLookup(s, o) \/ BeginStructure(s, o) \/ BeginOwner(s, o)
    PROVE  OInv'
PROOF
<1>1. /\ ops[s] = None /\ table' = table /\ fate' = fate /\ begun' \in Nat
    BY DEF BeginSearch, BeginLookup, BeginStructure, BeginOwner, Begin, OInv, OrgTypes
<1>2. ASSUME NEW o \in Orgs, BeginLookup(s, o) \/ BeginStructure(s, o) PROVE OInv'
  <2>1. PICK d \in {"lookup", "structure"} : Goes(s, Op(d, "look", o))
    BY <1>2 DEF BeginLookup, BeginStructure, Begin
  <2>2. calls' = calls
    BY <1>2 DEF BeginLookup, BeginStructure, Quiet, clientVars
  <2>3. Op(d, "look", o) \in Ops /\ Good(Op(d, "look", o), fate, table)
    BY NewOp, NoneIsNoOrg
  <2>4. AsksFor(calls'[s], Op(d, "look", o), fate)
    BY <1>1, <2>2, NotAsking
  <2>5. QED
    BY <1>1, <2>1, <2>2, <2>3, <2>4, OpOnly
<1>3. ASSUME NEW o \in Orgs, BeginOwner(s, o) PROVE OInv'
  <2> DEFINE n == Op("owner", "asked", o)
  <2>1. Goes(s, n) /\ Asks(s, "public", "profile")
    BY <1>3 DEF BeginOwner, Begin
  <2>2. n \in Ops /\ Good(n, fate, table) /\ n.at = "asked" /\ n.do = "owner" /\ n.org = o
    BY NewOp, NoneIsNoOrg
  <2>a. o \in Corps
    BY <1>3 DEF BeginOwner
  <2> HIDE DEF n
  <2>3. n # None
    BY <2>2, NoneIsNothing
  <2>4. AsksFor(calls'[s], n, fate)
    BY <2>1, <2>2, <2>3, <2>a, AsksAbout DEF Clients, Asking
  <2>5. \A t \in Callers : t # s => calls'[t] = calls[t]
    BY <2>1, SpeaksKept, Questions DEF Clients, Asking
  <2>6. QED
    BY <1>1, <2>1, <2>2, <2>4, <2>5, OpOnly
<1>4. ASSUME BeginSearch(s) PROVE OInv'
  <2> DEFINE n == Op("search", "asked", None)
  <2>1. Goes(s, n) /\ Asks(s, "direct", "search")
    BY <1>4 DEF BeginSearch, Begin
  <2>2. n \in Ops /\ Good(n, fate, table) /\ n.at = "asked" /\ n.do = "search"
        /\ n.phase = "none"
    BY NewOp
  <2> HIDE DEF n
  <2>3. n # None
    BY <2>2, NoneIsNothing
  <2>4. AsksFor(calls'[s], n, fate)
    BY <2>1, <2>2, <2>3, AsksAbout DEF Clients, Asking
  <2>5. \A t \in Callers : t # s => calls'[t] = calls[t]
    BY <2>1, SpeaksKept, Questions DEF Clients, Asking
  <2>6. QED
    BY <1>1, <2>1, <2>2, <2>4, <2>5, OpOnly
<1>5. QED
    BY <1>2, <1>3, <1>4

LEMMA FindKept ==
    ASSUME OInv, CInv, NEW s \in Callers, FindRow(s)
    PROVE  OInv'
PROOF
<1> DEFINE op == ops[s]
           row == table[op.org]
           n == [op EXCEPT !.at = "save", !.orig = row]
<1>1. op # None /\ op.at = "find"
    BY DEF FindRow, OpAt
<1>2. op \in Ops /\ Filled(op) /\ Apart(op) /\ MarksGone(op, fate) /\ Informed(op, table)
    BY <1>1, OpOf
<1>3. op.org \in Orgs
    BY <1>1, <1>2 DEF Filled
<1>4. row \in Rows \cup {None}
    BY <1>3 DEF OInv, OrgTypes, Tables
<1>5. Goes(s, n) /\ UNCHANGED <<table, fate, begun>> /\ calls' = calls
    BY DEF FindRow, Quiet, clientVars
<1>6. row = table[op.org]
    OBVIOUS
<1> HIDE DEF row
<1>7. n \in Ops
    BY <1>2, <1>4 DEF Ops
<1>8. /\ n.at = "save" /\ n.orig = row /\ n.write = op.write /\ n.do = op.do
      /\ n.phase = op.phase /\ n.org = op.org /\ n.todo = op.todo /\ n.snap = op.snap
      /\ n.news = op.news /\ n.unaware = op.unaware
    BY <1>2 DEF Ops
<1> HIDE DEF n
<1>9. Filled(n)
    BY <1>1, <1>2, <1>8 DEF Filled, InNews
<1>10. Apart(n)
    BY <1>1, <1>2, <1>8 DEF Apart, InNews
<1>11. MarksGone(n, fate)
    BY <1>1, <1>2, <1>8 DEF MarksGone
<1>12. Informed(n, table)
    BY <1>1, <1>2, <1>6, <1>8 DEF Informed, InNews
<1>13. AsksFor(calls'[s], n, fate)
    BY <1>1, <1>5, NotAsking
<1>14. QED
    BY <1>5, <1>7, <1>9, <1>10, <1>11, <1>12, <1>13, OpOnly, BegunIsANumber DEF Good

\* The organisation that a step goes to: the one in hand, or nothing.
LEMMA MovesTo ==
    ASSUME OInv, NEW s \in Callers, ops[s] # None, NEW a \in {"asked", "parent", "look"},
           NEW o \in Orgs, o \notin ops[s].todo, ~InNews(ops[s], o),
           ops[s].at \in {"look", "asked", "parent"},
           ops[s].do = "search" => ops[s].phase \in {"alliances", "corporations"},
           ops[s].phase # "alliances",
           a = "asked" /\ ops[s].do # "owner" /\ o \notin ops[s].unaware => ~Closed(table[o])
    PROVE  LET n == [At(s, a) EXCEPT !.org = o] IN
           /\ n \in Ops /\ Good(n, fate, table) /\ n.at = a /\ n.org = o
           /\ n.do = ops[s].do /\ n.phase = ops[s].phase
PROOF
<1> DEFINE op == ops[s]
           d == At(s, a)
           n == [d EXCEPT !.org = o]
<1>1. op \in Ops /\ Filled(op) /\ Apart(op) /\ Fresh(op, table)
    BY OpOf
<1>2. /\ d \in Ops /\ d.at = a /\ d.do = op.do /\ d.phase = op.phase
      /\ d.todo = op.todo /\ d.snap = op.snap /\ d.news = op.news
      /\ d.unaware = op.unaware
    BY <1>1 DEF At, Ops
<1> HIDE DEF d
<1>3. n \in Ops
    BY <1>2 DEF Ops
<1>4. /\ n.at = a /\ n.do = op.do /\ n.phase = op.phase /\ n.org = o
      /\ n.todo = op.todo /\ n.snap = op.snap /\ n.news = op.news
      /\ n.unaware = op.unaware
    BY <1>2 DEF Ops
<1> HIDE DEF n
<1>5. Filled(n)
    BY <1>1, <1>4 DEF Filled, InNews
<1>6. Apart(n)
    BY <1>1, <1>4 DEF Apart, InNews
<1>7. MarksGone(n, fate)
    BY <1>4 DEF MarksGone
<1>8. Informed(n, table)
    BY <1>1, <1>4 DEF Informed, Fresh, InNews
<1>9. QED
    BY <1>3, <1>4, <1>5, <1>6, <1>7, <1>8 DEF Good, n, d

LEMMA StaysAt ==
    ASSUME OInv, NEW s \in Callers, ops[s] # None, NEW a
    PROVE  [At(s, a) EXCEPT !.org = ops[s].org] = At(s, a)
PROOF
<1>1. ops[s] \in Ops
    BY OpOf
<1>2. QED
    BY <1>1 DEF At, Ops

\* A row that was misread is open, or the row itself; who misread it knows.
LEMMA Misreads ==
    ASSUME OInv, NEW o \in Orgs, NEW row \in {table[o]} \cup Misread(o)
    PROVE  LET hidden == Overlooked(table, [table EXCEPT ![o] = row]) IN
           /\ Closed(row) => Closed(table[o])
           /\ hidden \in SUBSET Orgs
           /\ ~Closed(row) /\ o \notin hidden => ~Closed(table[o])
PROOF
<1>1. table \in [Orgs -> Rows \cup {None}]
    BY DEF OInv, OrgTypes, Tables
<1>2. ~Closed(Unmarked(table[o]))
    BY <1>1 DEF Unmarked, Closed, Rows
<1>3. Closed(row) => Closed(table[o])
    BY <1>2 DEF Misread, Closed
<1>4. [table EXCEPT ![o] = row][o] = row
    BY <1>1
<1>5. QED
    BY <1>3, <1>4 DEF Overlooked

\* An operation that read its organisation goes on to ask about it, or to write it.
LEMMA LooksOn ==
    ASSUME OInv, NEW s \in Callers, ops[s] # None, ops[s].at = "look",
           NEW hidden \in SUBSET Orgs, ops[s].org \notin hidden => ~Closed(table[ops[s].org]),
           NEW d \in Ops, d.at = "asked" \/ (d.at = "find" /\ d.write = "open"),
           d.phase = ops[s].phase \/ (d.phase = "again" /\ ops[s].do = "structure"),
           d.do = ops[s].do, d.org = ops[s].org, d.todo = ops[s].todo, d.snap = ops[s].snap,
           d.news = ops[s].news, d.unaware = ops[s].unaware
    PROVE  LET n == [d EXCEPT !.unaware = @ \cup hidden] IN n \in Ops /\ Good(n, fate, table)
PROOF
<1> DEFINE op == ops[s]
           all == op.unaware \cup hidden
           n == [d EXCEPT !.unaware = all]
<1>1. op \in Ops /\ Filled(op) /\ Apart(op) /\ Fresh(op, table)
    BY OpOf
<1>2. all \in SUBSET Orgs /\ op.unaware \subseteq all /\ hidden \subseteq all
    BY <1>1 DEF Ops
<1>3. n = [d EXCEPT !.unaware = @ \cup hidden]
    OBVIOUS
<1> HIDE DEF all
<1>4. n \in Ops
    BY <1>2 DEF Ops
<1>5. /\ n.at = d.at /\ n.write = d.write /\ n.do = op.do /\ n.phase = d.phase
      /\ n.org = op.org /\ n.todo = op.todo /\ n.snap = op.snap /\ n.news = op.news
      /\ n.unaware = all
    BY DEF Ops
<1> HIDE DEF n
<1>6. Filled(n)
  <2>1. CASE d.phase = op.phase
    BY <1>1, <1>5, <2>1 DEF Filled, InNews
  <2>2. CASE d.phase = "again" /\ op.do = "structure"
    BY <1>1, <1>5, <2>2 DEF Filled, InNews
  <2>3. QED
    BY <2>1, <2>2
<1>7. Apart(n)
    BY <1>1, <1>5 DEF Apart, InNews
<1>8. MarksGone(n, fate)
    BY <1>5 DEF MarksGone
<1>9. Informed(n, table)
    BY <1>1, <1>2, <1>5 DEF Informed, Fresh, InNews
<1>10. QED
    BY <1>3, <1>4, <1>6, <1>7, <1>8, <1>9 DEF Good

\* The row that is looked up is closed, or named, or asked for.
LEMMA LookUpKept ==
    ASSUME OInv, CInv, NEW s \in Callers, LookUp(s)
    PROVE  OInv'
PROOF
<1> DEFINE op == ops[s]
           hidden(row) == Overlooked(table, [table EXCEPT ![op.org] = row])
           Told(m, row) == IF m = None THEN None
                           ELSE [m EXCEPT !.unaware = @ \cup hidden(row)]
           again == [Opens(s) EXCEPT !.phase = "again"]
<1>1. op # None /\ op.at = "look"
    BY DEF LookUp, OpAt
<1>2. op \in Ops /\ Filled(op) /\ Apart(op) /\ Fresh(op, table)
    BY <1>1, OpOf
<1>3. /\ op.org \in Orgs /\ op.org \notin op.todo /\ ~InNews(op, op.org)
      /\ op.phase # "alliances"
      /\ op.do = "search" => op.phase \in {"alliances", "corporations"}
    BY <1>1, <1>2 DEF Filled, Apart
<1>4. table' = table /\ fate' = fate /\ begun' \in Nat
    BY BegunIsANumber DEF LookUp
<1>5. PICK row \in {table[op.org]} \cup Misread(op.org) :
        /\ Fault(row # table[op.org])
        /\ IF Skipped(row)
           THEN calls' = calls
                /\ Goes(s, Told(IF op.do = "search" THEN Marks(s) ELSE GoesOn(s), row))
           ELSE IF Named(row)
           THEN /\ calls' = calls
                /\ Goes(s, Told(IF op.do # "structure" THEN GoesOn(s)
                                ELSE IF op.org \in Corps THEN At(s, "parent") ELSE again, row))
           ELSE /\ Enter(s, "public", IF op.org \in Corps THEN "profile" ELSE "details", TRUE)
                /\ Goes(s, Told(At(s, "asked"), row))
    BY DEF LookUp
<1>6. Bears
  <2>1. (row # table[op.org]) \in BOOLEAN
    OBVIOUS
  <2>2. QED
    BY <1>5, <2>1, FaultBears
<1>7. /\ Closed(row) => Closed(table[op.org])
      /\ hidden(row) \in SUBSET Orgs
      /\ ~Closed(row) /\ op.org \notin hidden(row) => ~Closed(table[op.org])
    BY <1>3, Misreads
<1> HIDE DEF hidden
<1>8. ASSUME NEW m \in Ops \cup {None}, m # None => Good(m, fate, table), calls' = calls,
             Goes(s, Told(m, row))
      PROVE  OInv'
  <2>1. /\ Told(m, row) \in Ops \cup {None}
        /\ Told(m, row) # None => Good(Told(m, row), fate, table)
    BY <1>7, <1>8, Unawares
  <2>2. AsksFor(calls'[s], Told(m, row), fate)
    BY <1>1, <1>8, NotAsking
  <2> HIDE DEF Told
  <2>3. QED
    BY <1>4, <1>8, <2>1, <2>2, OpOnly
<1>9. GoesOn(s) \in Ops \cup {None} /\ (GoesOn(s) # None => Good(GoesOn(s), fate, table))
    BY <1>1, <1>2, <1>3, GoesOnGood
<1>10. CASE Skipped(row)
  <2>1. fate[op.org] # "lives"
    BY <1>3, <1>7, <1>10 DEF Skipped, OInv, OnlyTheGoneAreClosed
  <2>2. Marks(s) \in Ops /\ Good(Marks(s), fate, table)
    BY <1>1, <1>3, <2>1, MarksGood
  <2> DEFINE m == IF op.do = "search" THEN Marks(s) ELSE GoesOn(s)
  <2>3. m \in Ops \cup {None} /\ (m # None => Good(m, fate, table))
    BY <1>9, <2>2
  <2>4. calls' = calls /\ Goes(s, Told(m, row))
    BY <1>5, <1>10
  <2> HIDE DEF m, Told
  <2>5. QED
    BY <1>8, <2>3, <2>4
<1>11. CASE ~Skipped(row) /\ Named(row)
  <2> DEFINE m == IF op.do # "structure" THEN GoesOn(s)
                  ELSE IF op.org \in Corps THEN At(s, "parent") ELSE again
  <2>1. calls' = calls /\ Goes(s, Told(m, row))
    BY <1>5, <1>11
  <2>2. CASE op.do # "structure"
    <3>1. m = GoesOn(s)
      BY <2>2
    <3> HIDE DEF m, Told
    <3>2. QED
      BY <1>8, <1>9, <2>1, <3>1
  <2>3. CASE op.do = "structure" /\ op.org \in Corps
    <3>1. At(s, "parent") \in Ops /\ Good(At(s, "parent"), fate, table)
      BY <1>1, <1>3, <2>3, MovesTo, StaysAt
    <3>2. m = At(s, "parent")
      BY <2>3
    <3> HIDE DEF m, Told
    <3>3. QED
      BY <1>8, <2>1, <3>1, <3>2
  <2>4. CASE op.do = "structure" /\ op.org \notin Corps
    <3> DEFINE n == [again EXCEPT !.unaware = @ \cup hidden(row)]
    <3>1. /\ again \in Ops /\ again.at = "find" /\ again.write = "open" /\ again.do = op.do
          /\ again.phase = "again" /\ again.org = op.org /\ again.todo = op.todo
          /\ again.snap = op.snap /\ again.news = op.news /\ again.unaware = op.unaware
      BY <1>2 DEF Opens, Ops
    <3>2. m = again /\ again # None
      BY <2>4, <3>1, NoneIsNothing
    <3>3. Goes(s, n)
      BY <2>1, <3>2
    <3> HIDE DEF again, m, Told
    <3>4. n \in Ops /\ Good(n, fate, table)
      BY <1>1, <1>7, <1>11, <2>4, <3>1, LooksOn DEF Skipped
    <3>5. AsksFor(calls'[s], n, fate)
      BY <1>1, <2>1, NotAsking
    <3> HIDE DEF n
    <3>6. QED
      BY <1>4, <2>1, <3>3, <3>4, <3>5, OpOnly
  <2>5. QED
    BY <2>2, <2>3, <2>4
<1>12. CASE ~Skipped(row) /\ ~Named(row)
  <2> DEFINE w == IF op.org \in Corps THEN "profile" ELSE "details"
             d == At(s, "asked")
             n == [d EXCEPT !.unaware = @ \cup hidden(row)]
  <2>1. Enter(s, "public", w, TRUE) /\ Goes(s, Told(d, row))
    BY <1>5, <1>12
  <2>2. /\ d \in Ops /\ d.at = "asked" /\ d.do = op.do
        /\ d.phase = op.phase /\ d.org = op.org /\ d.todo = op.todo
        /\ d.snap = op.snap /\ d.news = op.news /\ d.unaware = op.unaware
    BY <1>2 DEF At, Ops
  <2>3. Goes(s, n)
    BY <2>1, <2>2, NoneIsNothing
  <2>4. w \in Asking /\ w # "search" /\ (w = "profile" => op.org \in Corps)
    BY DEF Asking
  <2> HIDE DEF d, w, Told
  <2>5. n \in Ops /\ Good(n, fate, table)
    BY <1>1, <1>7, <1>12, <2>2, LooksOn DEF Skipped
  <2>6. n.at = "asked" /\ n.do = op.do /\ n.phase = op.phase /\ n.org = op.org
    BY <2>2 DEF Ops
  <2> HIDE DEF n
  <2>7. n # None
    BY <2>5, NoneIsNothing
  <2>8. AsksFor(calls'[s], n, fate)
    BY <1>3, <2>1, <2>4, <2>6, <2>7, EntersAbout DEF Clients
  <2>9. Speaks(s)
    BY <1>6, <2>1, <2>4 DEF Speaks, AsksOf, Clients
  <2>10. \A t \in Callers : t # s => calls'[t] = calls[t]
    BY <2>9, SpeaksKept
  <2>11. QED
    BY <1>4, <2>3, <2>5, <2>8, <2>10, OpOnly
<1>13. QED
    BY <1>10, <1>11, <1>12

\* What a caller that hears goes on with.
LEMMA LeavesAnd ==
    ASSUME OInv, CInv, NEW s \in Callers, LeavesOf(s), NEW n \in Ops \cup {None},
           n # None => Good(n, fate, table), Goes(s, n), UNCHANGED <<table, fate, begun>>
    PROVE  OInv'
PROOF
<1>1. \A t \in Callers : t # s => calls'[t] = calls[t]
    BY SpeaksKept DEF Speaks
<1>2. AsksFor(calls'[s], n, fate)
    BY AsksNoMore DEF LeavesOf
<1>3. QED
    BY <1>1, <1>2, OpOnly, BegunIsANumber

LEMMA HearsAnd ==
    ASSUME OInv, CInv, NEW s \in Callers, Hears(s), NEW n \in Ops \cup {None},
           n # None => Good(n, fate, table), Goes(s, n), UNCHANGED <<table, fate, begun>>
    PROVE  OInv'
PROOF
<1>1. LeavesOf(s)
    BY DEF Hears, LeavesOf, Bears, CInv, ClientTypes
<1>2. QED
    BY <1>1, LeavesAnd

\* What is asked about an organisation, and what is said of it.
LEMMA AskedAbout ==
    ASSUME OInv, NEW s \in Callers, calls[s] # None, calls[s].what \in Asking
    PROVE  /\ ops[s] # None /\ ops[s].at = "asked"
           /\ calls[s].what = "search" <=> ops[s].do = "search" /\ ops[s].phase = "none"
           /\ calls[s].what # "search" =>
                /\ ops[s].org \in Orgs /\ ops[s].org \notin ops[s].todo
                /\ ~InNews(ops[s], ops[s].org)
                /\ calls[s].said \in {"notfound", "empty"} => fate[ops[s].org] # "lives"
                /\ ops[s].do = "search" => ops[s].phase \in {"alliances", "corporations"}
           /\ calls[s].what = "profile" => ops[s].org \in Corps
           /\ ops[s].org \in Orgs /\ ops[s].do # "owner" /\ ops[s].org \notin ops[s].unaware =>
                ~Closed(table[ops[s].org])
PROOF
<1>1. AsksFor(calls[s], ops[s], fate)
    BY DEF OInv, AskedInv
<1>2. ops[s] # None /\ ops[s].at = "asked"
    BY <1>1 DEF AsksFor
<1>3. ops[s] \in Ops /\ Filled(ops[s]) /\ Apart(ops[s]) /\ Informed(ops[s], table)
    BY <1>2, OpOf
<1>4. ops[s].do = "search" /\ ops[s].phase # "none" =>
        ops[s].phase \in {"alliances", "corporations"}
    BY <1>3 DEF Filled, Ops
<1>5. QED
    BY <1>1, <1>2, <1>3, <1>4 DEF AsksFor, Apart, Informed

LEMMA AnswerKept ==
    ASSUME OInv, CInv, NEW s \in Callers, AnswerToLookup(s)
    PROVE  OInv'
PROOF
<1> DEFINE op == ops[s]
<1>1. op # None /\ op.at = "asked" /\ op.phase # "alliances" /\ calls[s] # None /\ Hears(s)
    BY DEF AnswerToLookup, OpAt, Hears, CallAt
<1>2. op \in Ops /\ Filled(op) /\ Apart(op) /\ Fresh(op, table) /\ Informed(op, table)
    BY <1>1, OpOf
<1>3. op.do = "search" => calls[s].what = "details"
    BY DEF AnswerToLookup
<1>4. /\ op.do = "search" => op.phase \in {"alliances", "corporations"}
      /\ op.do = "search" /\ calls[s].said = "notfound" => fate[op.org] # "lives"
  <2>1. CASE op.do = "search"
    BY <1>1, <1>3, <2>1, AskedAbout DEF Asking
  <2>2. CASE op.do # "search"
    BY <1>1, <1>2, <2>2 DEF Filled
  <2>3. QED
    BY <2>1, <2>2
<1>a. op.org \in Orgs
  <2>1. CASE op.do = "search"
    BY <1>1, <1>3, <2>1, AskedAbout DEF Asking
  <2>2. CASE op.do # "search"
    BY <1>1, <1>2, <2>2 DEF Filled
  <2>3. QED
    BY <2>1, <2>2
<1>5. op.do # "owner" /\ op.org \notin op.unaware => ~Closed(table[op.org])
    BY <1>1, <1>2, <1>a DEF Informed
<1>6. GoesOn(s) \in Ops \cup {None} /\ (GoesOn(s) # None => Good(GoesOn(s), fate, table))
    BY <1>1, <1>2, <1>4, <1>a, GoesOnGood
<1>7. Opens(s) \in Ops /\ Good(Opens(s), fate, table)
  <2> DEFINE n == [Opens(s) EXCEPT !.phase = op.phase]
  <2>1. n \in Ops /\ Good(n, fate, table)
    BY <1>1, <1>4, <1>5, <1>a, OpensGood
  <2>2. n = Opens(s)
    BY <1>2 DEF Opens, Ops
  <2>3. QED
    BY <2>1, <2>2
<1>8. op.do = "search" /\ calls[s].said = "notfound" =>
        Marks(s) \in Ops /\ Good(Marks(s), fate, table)
    BY <1>1, <1>4, <1>a, MarksGood
<1>9. UNCHANGED <<table, fate, begun>>
    BY DEF AnswerToLookup
<1>10. \/ Goes(s, Opens(s))
       \/ op.do = "search" /\ calls[s].said = "notfound" /\ Goes(s, Marks(s))
       \/ Goes(s, GoesOn(s))
    BY DEF AnswerToLookup
<1>11. QED
    BY <1>1, <1>6, <1>7, <1>8, <1>9, <1>10, HearsAnd

LEMMA ParentKept ==
    ASSUME OInv, CInv, NEW s \in Callers, ToParent(s)
    PROVE  OInv'
PROOF
<1> DEFINE op == ops[s]
<1>1. op # None /\ op.at = "parent"
    BY DEF ToParent, OpAt
<1>2. op \in Ops /\ Filled(op) /\ Fresh(op, table)
    BY <1>1, OpOf
<1>3. /\ op.phase # "alliances"
      /\ op.do = "search" => op.phase \in {"alliances", "corporations"}
    BY <1>1, <1>2 DEF Filled
<1>4. calls' = calls /\ UNCHANGED <<table, fate, begun>>
    BY DEF ToParent, Quiet, clientVars
<1>5. CASE Goes(s, GoesOn(s))
  <2>1. GoesOn(s) \in Ops \cup {None} /\ (GoesOn(s) # None => Good(GoesOn(s), fate, table))
    BY <1>1, <1>2, <1>3, GoesOnGood
  <2>2. AsksFor(calls'[s], GoesOn(s), fate)
    BY <1>1, <1>4, NotAsking
  <2>3. QED
    BY <1>4, <1>5, <2>1, <2>2, OpOnly, BegunIsANumber
<1>6. ASSUME NEW a \in Alliances, Goes(s, [At(s, "look") EXCEPT !.org = a]) PROVE OInv'
  <2> DEFINE n == [At(s, "look") EXCEPT !.org = a]
  <2>1. a \in Orgs /\ a \notin Corps
    BY NoneIsNoOrg DEF Orgs
  <2>2. a \notin op.todo /\ ~InNews(op, a)
    <3>1. op.phase \in {"none", "again", "corporations"}
      BY <1>2, <1>3 DEF Ops
    <3>2. QED
      BY <1>2, <2>1, <3>1 DEF Filled, InNews
  <2>3. n \in Ops /\ Good(n, fate, table)
    BY <1>1, <1>3, <2>1, <2>2, MovesTo
  <2>4. AsksFor(calls'[s], n, fate)
    BY <1>1, <1>4, NotAsking
  <2>5. QED
    BY <1>4, <1>6, <2>3, <2>4, OpOnly, BegunIsANumber
<1>7. QED
    BY <1>5, <1>6 DEF ToParent

\* What is kept of a search's organisations.
LEMMA NewsGrow ==
    ASSUME NEW op \in Ops, NEW n, NEW o \in Orgs, NEW b \in BOOLEAN,
           n.news = op.news \cup {<<o, b>>}
    PROVE  n.news \subseteq Orgs \X BOOLEAN
           /\ \A x : InNews(n, x) <=> InNews(op, x) \/ x = o
PROOF
<1>1. op.news \subseteq Orgs \X BOOLEAN
    BY DEF Ops
<1>2. QED
    BY <1>1 DEF InNews

\* A search's read of rows that lost some knows which closed ones it lost.
LEMMA Partly ==
    ASSUME NEW rows \in Tables, NEW missed \in SUBSET Orgs
    PROVE  /\ Without(missed, rows) \in Tables
           /\ Overlooked(rows, Without(missed, rows)) \in SUBSET Orgs
           /\ \A o \in Orgs \ Overlooked(rows, Without(missed, rows)) :
                Closed(rows[o]) => Closed(Without(missed, rows)[o])
PROOF
  BY DEF Without, Overlooked, Tables

LEMMA SearchKept ==
    ASSUME OInv, CInv, NEW s \in Callers, SearchAnswered(s)
    PROVE  OInv'
PROOF
<1> DEFINE op == ops[s]
<1>1. op # None /\ op.at = "asked" /\ calls[s] # None /\ calls[s].what = "search" /\ Leave(s)
    BY DEF SearchAnswered, OpAt, CallAt
<1>2. op \in Ops /\ Filled(op)
    BY <1>1, OpOf
<1>3. op.do = "search" /\ op.phase = "none"
    BY <1>1, AskedAbout DEF Asking
<1>4. op.todo = {} /\ op.news = {}
    BY <1>2, <1>3 DEF Filled
<1>5. UNCHANGED <<table, fate, begun>>
    BY DEF SearchAnswered
<1>6. ASSUME NEW found \in SUBSET Orgs, NEW missed \in SUBSET (found \cap Alliances),
             Fault(Without(missed, table) # table),
             Goes(s, [At(s, "next") EXCEPT !.phase = "alliances", !.found = found,
                        !.todo = found \cap Alliances, !.snap = Without(missed, table),
                        !.unaware = @ \cup Overlooked(table, Without(missed, table))])
      PROVE  OInv'
  <2> DEFINE d == At(s, "next")
             todo == found \cap Alliances
             read == Without(missed, table)
             all == op.unaware \cup Overlooked(table, read)
             n == [d EXCEPT !.phase = "alliances", !.found = found, !.todo = todo,
                            !.snap = read, !.unaware = all]
  <2>1. d \in Ops /\ d.at = "next" /\ d.do = "search" /\ d.news = {} /\ d.unaware = op.unaware
    BY <1>2, <1>3, <1>4 DEF At, Ops
  <2>2. /\ todo \in SUBSET Orgs /\ todo \subseteq Alliances
        /\ read \in Tables /\ Overlooked(table, read) \in SUBSET Orgs
        /\ \A o \in Orgs \ Overlooked(table, read) : Closed(table[o]) => Closed(read[o])
    BY Partly DEF OInv, OrgTypes
  <2>3. all \in SUBSET Orgs /\ Overlooked(table, read) \subseteq all
    BY <1>2, <2>2 DEF Ops
  <2>4. Goes(s, n)
    BY <1>6, <2>1
  <2>5. (read # table) \in BOOLEAN
    OBVIOUS
  <2>6. LeavesOf(s)
    BY <1>1, <1>6, <2>5, FaultBears DEF LeavesOf
  <2> HIDE DEF d, todo, read, all
  <2>7. n \in Ops
    BY <2>1, <2>2, <2>3 DEF Ops
  <2>8. /\ n.at = "next" /\ n.do = "search" /\ n.phase = "alliances" /\ n.todo = todo
        /\ n.snap = read /\ n.news = {} /\ n.unaware = all
    BY <2>1 DEF Ops
  <2> HIDE DEF n
  <2>9. Filled(n) /\ Apart(n) /\ MarksGone(n, fate)
    BY <2>2, <2>8 DEF Filled, Apart, MarksGone, InNews
  <2>10. Informed(n, table)
    BY <2>2, <2>3, <2>8 DEF Informed, InNews
  <2>11. QED
    BY <1>5, <2>4, <2>6, <2>7, <2>9, <2>10, LeavesAnd DEF Good
<1>7. CASE Goes(s, None) /\ Fault(FALSE)
    BY <1>1, <1>5, <1>7, LeavesAnd, FaultBears DEF LeavesOf
<1>8. QED
    BY <1>6, <1>7 DEF SearchAnswered

\* A search takes the next organisation from its list: what is closed is passed
\* over, ...
LEMMA TakesNext ==
    ASSUME OInv, NEW s \in Callers, ops[s] # None, ops[s].at = "next",
           NEW o \in ops[s].todo
    PROVE  LET op == [ops[s] EXCEPT !.todo = @ \ {o}, !.org = o] IN
           /\ op \in Ops /\ op.at = "next" /\ op.org = o /\ op.todo = ops[s].todo \ {o}
           /\ op.do = ops[s].do /\ op.phase = ops[s].phase /\ op.snap = ops[s].snap
           /\ op.news = ops[s].news /\ op.unaware = ops[s].unaware
           /\ o \in Orgs /\ ~InNews(ops[s], o) /\ ops[s].snap \in Tables
           /\ ops[s].do = "search" /\ ops[s].phase \in {"alliances", "corporations"}
           /\ o \notin ops[s].unaware /\ Closed(table[o]) => Closed(ops[s].snap[o])
PROOF
<1> DEFINE q == ops[s]
           op == [ops[s] EXCEPT !.todo = @ \ {o}, !.org = o]
           rest == q.todo \ {o}
<1>1. q \in Ops /\ Filled(q) /\ Apart(q) /\ Fresh(q, table)
    BY OpOf
<1>2. q.todo \subseteq Orgs /\ o \in Orgs /\ rest \in SUBSET Orgs
    BY <1>1 DEF Ops
<1>3. op = [q EXCEPT !.todo = rest, !.org = o]
    BY <1>1 DEF Ops
<1> HIDE DEF rest, op, q
<1>4. /\ op \in Ops /\ op.at = q.at /\ op.org = o /\ op.todo = rest
      /\ op.do = q.do /\ op.phase = q.phase /\ op.snap = q.snap
      /\ op.news = q.news /\ op.unaware = q.unaware
    BY <1>1, <1>2, <1>3 DEF Ops
<1>5. /\ q.do = "search" /\ q.phase \in {"alliances", "corporations"} /\ q.snap \in Tables
    BY <1>1 DEF Filled, q
<1>6. ~InNews(q, o)
    BY <1>1 DEF Apart, q
<1>7. o \notin q.unaware /\ Closed(table[o]) => Closed(q.snap[o])
    BY <1>1 DEF Fresh, q
<1>8. QED
    BY <1>2, <1>4, <1>5, <1>6, <1>7 DEF q, op, rest

\* ... what it knows is kept, ...
LEMMA StaysNext ==
    ASSUME OInv, NEW s \in Callers, ops[s] # None, ops[s].at = "next",
           NEW o \in ops[s].todo, NEW n \in Ops, n.at = "next",
           n.todo = ops[s].todo \ {o}, n.do = ops[s].do, n.phase = ops[s].phase,
           n.snap = ops[s].snap, n.unaware = ops[s].unaware,
           \/ n.news = ops[s].news
           \/ /\ n.news = ops[s].news \cup {<<o, TRUE>>}
              /\ ~Closed(ops[s].snap[o])
    PROVE  Good(n, fate, table)
PROOF
<1> DEFINE q == ops[s]
<1>1. q \in Ops /\ Filled(q) /\ Apart(q) /\ Fresh(q, table)
    BY OpOf
<1>2. /\ o \in Orgs /\ ~InNews(q, o) /\ q.phase \in {"alliances", "corporations"}
      /\ o \notin q.unaware /\ Closed(table[o]) => Closed(q.snap[o])
    BY TakesNext
<1>3. \A x : InNews(n, x) => InNews(q, x) \/ (x = o /\ ~Closed(q.snap[o]))
  <2>1. CASE n.news = q.news
    BY <2>1 DEF InNews
  <2>2. CASE n.news = q.news \cup {<<o, TRUE>>} /\ ~Closed(q.snap[o])
    BY <1>1, <1>2, <2>2, NewsGrow
  <2>3. QED
    BY <2>1, <2>2
<1>4. o \in q.todo
    OBVIOUS
<1> HIDE DEF q
<1>5. Filled(n)
  <2>1. q.phase = "alliances" => q.todo \subseteq Alliances
    BY <1>1 DEF Filled
  <2>2. q.phase = "corporations" => q.todo \subseteq Corps
    BY <1>1 DEF Filled
  <2>3. /\ n.phase = q.phase /\ n.todo \subseteq q.todo /\ n.snap = q.snap /\ n.do = q.do
    BY DEF q
  <2>4. QED
    BY <1>1, <1>2, <1>3, <1>4, <2>1, <2>2, <2>3 DEF Filled, q
<1>6. Apart(n)
    BY <1>1, <1>3 DEF Apart, q
<1>7. MarksGone(n, fate)
    BY DEF MarksGone
<1>8. Informed(n, table)
    BY <1>1, <1>2, <1>3 DEF Informed, Fresh, q
<1>9. QED
    BY <1>5, <1>6, <1>7, <1>8 DEF Good

\* ... and about what it does not know, it asks, or goes to the parent.
LEMMA TakesUp ==
    ASSUME OInv, NEW s \in Callers, ops[s] # None, ops[s].at = "next",
           NEW o \in ops[s].todo, ~Closed(ops[s].snap[o]), NEW n \in Ops,
           n.at = "asked" \/ (n.at = "parent" /\ n.phase = "corporations"),
           n.todo = ops[s].todo \ {o}, n.do = ops[s].do, n.phase = ops[s].phase,
           n.snap = ops[s].snap, n.unaware = ops[s].unaware, n.news = ops[s].news, n.org = o
    PROVE  Good(n, fate, table)
PROOF
<1> DEFINE q == ops[s]
<1>1. q \in Ops /\ Filled(q) /\ Apart(q) /\ Fresh(q, table)
    BY OpOf
<1>2. /\ o \in Orgs /\ ~InNews(q, o) /\ q.phase \in {"alliances", "corporations"}
      /\ o \notin q.unaware => ~Closed(table[o])
    BY TakesNext
<1>3. Filled(n)
    BY <1>1, <1>2 DEF Filled, InNews
<1>4. Apart(n)
    BY <1>1, <1>2 DEF Apart, InNews
<1>5. MarksGone(n, fate)
    BY DEF MarksGone
<1>6. Informed(n, table)
    BY <1>1, <1>2 DEF Informed, Fresh, InNews
<1>7. QED
    BY <1>3, <1>4, <1>5, <1>6 DEF Good

LEMMA NextKept ==
    ASSUME OInv, CInv, NEW s \in Callers, ops[s] # None, ops[s].at = "next",
           NEW o \in ops[s].todo, UNCHANGED <<table, fate, begun>>,
           LET op == [ops[s] EXCEPT !.todo = @ \ {o}, !.org = o]
               row == ops[s].snap[o] IN
           \/ Goes(s, [op EXCEPT !.org = None]) /\ Quiet
           \/ /\ ~Closed(row) /\ Quiet
              /\ Goes(s, [op EXCEPT !.org = None, !.news = News(s, o, TRUE)])
           \/ /\ ~Closed(row) /\ ops[s].phase = "corporations"
              /\ Goes(s, [op EXCEPT !.at = "parent"]) /\ Quiet
           \/ /\ ~Closed(row)
              /\ Goes(s, [op EXCEPT !.at = "asked"])
              /\ \E w \in Asking \ {"search"} :
                   (w = "profile" => o \in Corps) /\ Asks(s, "public", w)
    PROVE  OInv'
PROOF
<1> DEFINE op == [ops[s] EXCEPT !.todo = @ \ {o}, !.org = o]
           row == ops[s].snap[o]
<1>1. /\ op \in Ops /\ op.at = "next" /\ op.org = o /\ op.todo = ops[s].todo \ {o}
      /\ op.do = ops[s].do /\ op.phase = ops[s].phase /\ op.snap = ops[s].snap
      /\ op.news = ops[s].news /\ op.unaware = ops[s].unaware
      /\ o \in Orgs /\ op.phase \in {"alliances", "corporations"}
    BY TakesNext
<1>2. begun' \in Nat
    BY BegunIsANumber
<1>3. ASSUME NEW n \in Ops, Good(n, fate, table), Quiet, Goes(s, n) PROVE OInv'
  <2>1. calls' = calls
    BY <1>3 DEF Quiet, clientVars
  <2>2. AsksFor(calls'[s], n, fate)
    BY <2>1, NotAsking
  <2>3. QED
    BY <1>2, <1>3, <2>1, <2>2, OpOnly
<1>a. \/ Goes(s, [op EXCEPT !.org = None]) /\ Quiet
      \/ /\ ~Closed(row) /\ Quiet
         /\ Goes(s, [op EXCEPT !.org = None, !.news = News(s, o, TRUE)])
      \/ /\ ~Closed(row) /\ ops[s].phase = "corporations"
         /\ Goes(s, [op EXCEPT !.at = "parent"]) /\ Quiet
      \/ /\ ~Closed(row)
         /\ Goes(s, [op EXCEPT !.at = "asked"])
         /\ \E w \in Asking \ {"search"} :
                   (w = "profile" => o \in Corps) /\ Asks(s, "public", w)
    OBVIOUS
<1> HIDE DEF op
<1>4. CASE Goes(s, [op EXCEPT !.org = None]) /\ Quiet
  <2> DEFINE n == [op EXCEPT !.org = None]
  <2>1. n \in Ops
    BY <1>1 DEF Ops
  <2>2. /\ n.at = "next" /\ n.todo = op.todo /\ n.do = op.do /\ n.phase = op.phase
        /\ n.snap = op.snap /\ n.unaware = op.unaware /\ n.news = op.news
    BY <1>1 DEF Ops
  <2> HIDE DEF n
  <2>3. Good(n, fate, table)
    BY <1>1, <2>1, <2>2, StaysNext
  <2>4. QED
    BY <1>3, <1>4, <2>1, <2>3 DEF n
<1>5. CASE /\ ~Closed(row) /\ Quiet
           /\ Goes(s, [op EXCEPT !.org = None, !.news = News(s, o, TRUE)])
  <2> DEFINE news == News(s, o, TRUE)
             n == [op EXCEPT !.org = None, !.news = news]
  <2>1. news = ops[s].news \cup {<<o, TRUE>>}
    BY DEF News
  <2>2. news \in SUBSET (Orgs \X BOOLEAN)
    <3>1. op.news \in SUBSET (Orgs \X BOOLEAN)
      BY <1>1 DEF Ops
    <3>2. <<o, TRUE>> \in Orgs \X BOOLEAN
      BY <1>1
    <3>3. QED
      BY <1>1, <2>1, <3>1, <3>2
  <2> HIDE DEF news
  <2>3. n \in Ops
    BY <1>1, <2>2 DEF Ops
  <2>4. /\ n.at = "next" /\ n.todo = op.todo /\ n.do = op.do /\ n.phase = op.phase
        /\ n.snap = op.snap /\ n.unaware = op.unaware /\ n.news = news
    BY <1>1 DEF Ops
  <2> HIDE DEF n
  <2>5. Good(n, fate, table)
    BY <1>1, <1>5, <2>1, <2>3, <2>4, StaysNext
  <2>6. QED
    BY <1>3, <1>5, <2>3, <2>5 DEF n, news
<1>6. CASE /\ ~Closed(row) /\ ops[s].phase = "corporations"
           /\ Goes(s, [op EXCEPT !.at = "parent"]) /\ Quiet
  <2> DEFINE n == [op EXCEPT !.at = "parent"]
  <2>1. n \in Ops
    BY <1>1 DEF Ops
  <2>2. /\ n.at = "parent" /\ n.todo = op.todo /\ n.do = op.do /\ n.phase = op.phase
        /\ n.snap = op.snap /\ n.unaware = op.unaware /\ n.news = op.news /\ n.org = o
    BY <1>1 DEF Ops
  <2> HIDE DEF n
  <2>3. Good(n, fate, table)
    BY <1>1, <1>6, <2>1, <2>2, TakesUp
  <2>4. QED
    BY <1>3, <1>6, <2>1, <2>3 DEF n
<1>7. CASE /\ ~Closed(row)
           /\ Goes(s, [op EXCEPT !.at = "asked"])
           /\ \E w \in Asking \ {"search"} :
                   (w = "profile" => o \in Corps) /\ Asks(s, "public", w)
  <2> DEFINE n == [op EXCEPT !.at = "asked"]
  <2>1. n \in Ops
    BY <1>1 DEF Ops
  <2>2. /\ n.at = "asked" /\ n.todo = op.todo /\ n.do = op.do /\ n.phase = op.phase
        /\ n.snap = op.snap /\ n.unaware = op.unaware /\ n.news = op.news /\ n.org = o
    BY <1>1 DEF Ops
  <2>3. Goes(s, n)
    BY <1>7
  <2> HIDE DEF n
  <2>4. Good(n, fate, table) /\ n # None
    BY <1>1, <1>7, <2>1, <2>2, TakesUp, NoneIsNothing
  <2>5. PICK w \in Asking \ {"search"} :
          (w = "profile" => o \in Corps) /\ Asks(s, "public", w)
    BY <1>7
  <2>6. AsksFor(calls'[s], n, fate)
    BY <1>1, <2>2, <2>4, <2>5, AsksAbout DEF Clients
  <2>7. \A t \in Callers : t # s => calls'[t] = calls[t]
    BY <2>5, SpeaksKept, Questions DEF Clients
  <2>8. QED
    BY <1>2, <2>1, <2>3, <2>4, <2>6, <2>7, OpOnly
<1>8. QED
    BY <1>a, <1>4, <1>5, <1>6, <1>7

LEMMA NextAllianceKept ==
    ASSUME OInv, CInv, NEW s \in Callers, NextAlliance(s)
    PROVE  OInv'
PROOF
<1>1. /\ ops[s] # None /\ ops[s].at = "next" /\ ops[s].phase = "alliances"
      /\ UNCHANGED <<table, fate, begun>>
    BY DEF NextAlliance, OpAt
<1>2. PICK o \in ops[s].todo :
        LET row == ops[s].snap[o]
            op == [ops[s] EXCEPT !.todo = @ \ {o}, !.org = o] IN
        IF Skipped(row) THEN Goes(s, [op EXCEPT !.org = None]) /\ Quiet
        ELSE IF Named(row) /\ Counted(row)
        THEN Goes(s, [op EXCEPT !.org = None, !.news = News(s, o, TRUE)]) /\ Quiet
        ELSE /\ Goes(s, [op EXCEPT !.at = "asked"])
             /\ Asks(s, "public", IF Named(row) THEN "members" ELSE "details")
    BY DEF NextAlliance
<1> DEFINE w == IF Named(ops[s].snap[o]) THEN "members" ELSE "details"
<1>3. w \in Asking \ {"search"} /\ w # "profile"
    BY DEF Asking
<1>4. LET op == [ops[s] EXCEPT !.todo = @ \ {o}, !.org = o]
          row == ops[s].snap[o] IN
      \/ Goes(s, [op EXCEPT !.org = None]) /\ Quiet
      \/ /\ ~Closed(row) /\ Quiet
         /\ Goes(s, [op EXCEPT !.org = None, !.news = News(s, o, TRUE)])
      \/ /\ ~Closed(row) /\ Goes(s, [op EXCEPT !.at = "asked"]) /\ Asks(s, "public", w)
    BY <1>2 DEF Skipped
<1>5. QED
    BY <1>1, <1>3, <1>4, NextKept

LEMMA NextCorporationKept ==
    ASSUME OInv, CInv, NEW s \in Callers, NextCorporation(s)
    PROVE  OInv'
PROOF
<1>1. /\ ops[s] # None /\ ops[s].at = "next" /\ ops[s].phase = "corporations"
      /\ UNCHANGED <<table, fate, begun>>
    BY DEF NextCorporation, OpAt
<1>2. PICK o \in ops[s].todo :
        LET row == ops[s].snap[o]
            op == [ops[s] EXCEPT !.todo = @ \ {o}, !.org = o] IN
        IF Skipped(row) THEN Goes(s, [op EXCEPT !.org = None]) /\ Quiet
        ELSE IF Named(row) THEN Goes(s, [op EXCEPT !.at = "parent"]) /\ Quiet
        ELSE Goes(s, [op EXCEPT !.at = "asked"]) /\ Asks(s, "public", "profile")
    BY DEF NextCorporation
<1>3. "profile" \in Asking \ {"search"} /\ o \in Corps
  <2>1. Filled(ops[s])
    BY <1>1, OpOf
  <2>2. ops[s].todo \subseteq Corps
    BY <1>1, <2>1 DEF Filled
  <2>3. QED
    BY <2>2 DEF Asking
<1>4. LET op == [ops[s] EXCEPT !.todo = @ \ {o}, !.org = o]
          row == ops[s].snap[o] IN
      \/ Goes(s, [op EXCEPT !.org = None]) /\ Quiet
      \/ ~Closed(row) /\ Goes(s, [op EXCEPT !.at = "parent"]) /\ Quiet
      \/ /\ ~Closed(row) /\ Goes(s, [op EXCEPT !.at = "asked"])
         /\ Asks(s, "public", "profile")
    BY <1>2 DEF Skipped
<1>5. QED
    BY <1>1, <1>3, <1>4, NextKept

\* The answers about what a search found.
LEMMA MatchKept ==
    ASSUME OInv, CInv, NEW s \in Callers, calls[s] # None, calls[s].what \in Asking,
           calls[s].what # "search", ops[s].phase = "alliances" \/
             (ops[s].phase = "corporations" /\ calls[s].what = "profile"),
           Hears(s), UNCHANGED <<table, fate, begun>>,
           \/ calls[s].said \in {"notfound", "empty"} /\ Goes(s, Marks(s))
           \/ Goes(s, GoesOn(s))
           \/ \E b \in BOOLEAN :
                \/ /\ ops[s].phase = "alliances"
                   /\ Goes(s, [GoesOn(s) EXCEPT !.news = News(s, ops[s].org, b)])
                \/ /\ ops[s].phase = "corporations"
                   /\ Goes(s, [At(s, "parent") EXCEPT !.news = News(s, ops[s].org, b)])
    PROVE  OInv'
PROOF
<1> DEFINE op == ops[s]
<1>1. /\ op # None /\ op.at = "asked" /\ op.org \in Orgs
      /\ op.org \notin op.todo /\ ~InNews(op, op.org)
      /\ calls[s].said \in {"notfound", "empty"} => fate[op.org] # "lives"
      /\ op.do # "owner" /\ op.org \notin op.unaware => ~Closed(table[op.org])
      /\ op.phase = "corporations" => op.org \in Corps
    BY AskedAbout
<1>2. op \in Ops /\ Filled(op) /\ Apart(op) /\ Fresh(op, table)
    BY <1>1, OpOf
<1>3. op.do = "search"
    BY <1>2 DEF Filled
<1>4. CASE calls[s].said \in {"notfound", "empty"} /\ Goes(s, Marks(s))
  <2>1. Marks(s) \in Ops /\ Good(Marks(s), fate, table)
    BY <1>1, <1>4, MarksGood
  <2>2. QED
    BY <1>4, <2>1, HearsAnd
<1>5. /\ GoesOn(s) \in Ops \cup {None}
      /\ GoesOn(s) # None =>
           /\ GoesOn(s).at = "next" /\ GoesOn(s).do = "search"
           /\ GoesOn(s).phase = op.phase /\ GoesOn(s).todo = op.todo
           /\ GoesOn(s).snap = op.snap /\ GoesOn(s).news = op.news
           /\ GoesOn(s).unaware = op.unaware
           /\ Good(GoesOn(s), fate, table)
    BY <1>1, <1>2, GoesOnGood
<1>6. CASE Goes(s, GoesOn(s))
    BY <1>5, <1>6, HearsAnd
\* What is kept was not closed, and nothing else is to be done about it.
<1>7. ASSUME NEW b \in BOOLEAN, NEW d \in Ops, NEW n,
             \/ d.at = "next"
             \/ d.at = "parent" /\ op.phase = "corporations" /\ d.org \in Orgs,
             d.do = "search", d.phase = op.phase, d.todo = op.todo, d.snap = op.snap,
             d.news = op.news, d.unaware = op.unaware,
             n = [d EXCEPT !.news = News(s, op.org, b)], Goes(s, n)
      PROVE  OInv'
  <2> DEFINE news == News(s, op.org, b)
  <2>1. news = op.news \cup {<<op.org, b>>} /\ news \in SUBSET (Orgs \X BOOLEAN)
    BY <1>1, <1>2 DEF News, Ops
  <2>2. n = [d EXCEPT !.news = news]
    BY <1>7
  <2> HIDE DEF news
  <2>3. n \in Ops
    BY <1>7, <2>1, <2>2 DEF Ops
  <2>4. /\ n.at = d.at /\ n.do = "search" /\ n.phase = op.phase /\ n.todo = op.todo
        /\ n.snap = op.snap /\ n.unaware = op.unaware /\ n.news = news /\ n.org = d.org
    BY <1>7, <2>2 DEF Ops
  <2>5. \A x : InNews(n, x) <=> InNews(op, x) \/ x = op.org
    BY <1>1, <1>2, <2>1, <2>4, NewsGrow
  <2>6. /\ op.phase = "alliances" => op.org \in Alliances
        /\ op.phase = "corporations" => op.org \in Corps
    BY <1>1, <1>2 DEF Filled
  <2>7. Filled(n)
    BY <1>2, <1>7, <2>4, <2>5, <2>6 DEF Filled
  <2>8. Apart(n)
    BY <1>1, <1>2, <1>7, <2>4, <2>5 DEF Apart
  <2>9. MarksGone(n, fate)
    BY <1>7, <2>4 DEF MarksGone
  <2>10. Informed(n, table)
    BY <1>1, <1>2, <1>3, <1>7, <2>4, <2>5 DEF Informed, Fresh
  <2>11. QED
    BY <1>7, <2>3, <2>7, <2>8, <2>9, <2>10, HearsAnd DEF Good
<1>8. ASSUME NEW b \in BOOLEAN, Goes(s, [GoesOn(s) EXCEPT !.news = News(s, op.org, b)])
      PROVE  OInv'
  <2> DEFINE d == At(s, "next")
             n == [d EXCEPT !.org = None, !.orig = None, !.write = "open"]
  <2>1. GoesOn(s) = n
    BY <1>3 DEF GoesOn
  <2>2. d \in Ops
    BY <1>2 DEF At, Ops
  <2> HIDE DEF d
  <2>3. n \in Ops
    BY <2>2 DEF Ops
  <2>4. GoesOn(s) # None
    BY <2>1, <2>3, NoneIsNothing
  <2>5. QED
    BY <1>5, <1>7, <1>8, <2>4
<1>9. ASSUME NEW b \in BOOLEAN, op.phase = "corporations",
             Goes(s, [At(s, "parent") EXCEPT !.news = News(s, op.org, b)])
      PROVE  OInv'
  <2> DEFINE d == At(s, "parent")
  <2>1. /\ d \in Ops /\ d.at = "parent" /\ d.do = "search" /\ d.phase = op.phase
        /\ d.todo = op.todo /\ d.snap = op.snap /\ d.news = op.news /\ d.unaware = op.unaware
        /\ d.org = op.org
    BY <1>2, <1>3 DEF At, Ops
  <2>2. QED
    BY <1>1, <1>7, <1>9, <2>1
<1>10. QED
    BY <1>4, <1>6, <1>8, <1>9

LEMMA DetailsKept ==
    ASSUME OInv, CInv, NEW s \in Callers, DetailsOfMatch(s)
    PROVE  OInv'
PROOF
<1> DEFINE op == ops[s]
<1>1. /\ calls[s] # None /\ calls[s].what = "details" /\ calls[s].what \in Asking
      /\ op.phase = "alliances" /\ UNCHANGED <<table, fate, begun>>
    BY DEF DetailsOfMatch, CallAt, Asking
<1>2. CASE Asks(s, "public", "members") /\ UNCHANGED ops
  <2>1. op # None /\ op.at = "asked" /\ op.org \in Orgs
    BY <1>1, AskedAbout
  <2>2. op \in Ops /\ Good(op, fate, table)
    BY <2>1, OpOf
  <2>3. Goes(s, op)
    BY <1>2, <2>1 DEF Goes, OInv, OrgTypes
  <2>4. AsksFor(calls'[s], op, fate)
    BY <1>1, <1>2, <2>1, AsksAbout DEF Clients, Asking
  <2>5. \A t \in Callers : t # s => calls'[t] = calls[t]
    BY <1>2, SpeaksKept, Questions DEF Clients, Asking
  <2>6. QED
    BY <1>1, <2>2, <2>3, <2>4, <2>5, OpOnly, BegunIsANumber
<1>3. CASE Hears(s) /\ Goes(s, IF calls[s].said = "notfound" THEN Marks(s) ELSE GoesOn(s))
    BY <1>1, <1>3, MatchKept
<1>4. QED
    BY <1>2, <1>3 DEF DetailsOfMatch

LEMMA MembersKept ==
    ASSUME OInv, CInv, NEW s \in Callers, MembersOfMatch(s)
    PROVE  OInv'
PROOF
<1>1. /\ calls[s] # None /\ calls[s].what = "members" /\ calls[s].what \in Asking
      /\ ops[s].phase = "alliances" /\ Hears(s) /\ UNCHANGED <<table, fate, begun>>
    BY DEF MembersOfMatch, Hears, CallAt, Asking
<1> DEFINE b == calls[s].said = "ok"
<1>2. b \in BOOLEAN
    OBVIOUS
<1>3. Goes(s, IF calls[s].said = "notfound" THEN Marks(s)
              ELSE [GoesOn(s) EXCEPT !.news = News(s, ops[s].org, b)])
    BY DEF MembersOfMatch
<1> HIDE DEF b
<1>4. QED
    BY <1>1, <1>2, <1>3, MatchKept

LEMMA ProfileKept ==
    ASSUME OInv, CInv, NEW s \in Callers, ProfileOfMatch(s)
    PROVE  OInv'
PROOF
<1>1. /\ calls[s] # None /\ calls[s].what = "profile" /\ calls[s].what \in Asking
      /\ ops[s].phase = "corporations" /\ Hears(s) /\ UNCHANGED <<table, fate, begun>>
    BY DEF ProfileOfMatch, Hears, CallAt, Asking
<1>2. \/ calls[s].said \in {"notfound", "empty"} /\ Goes(s, Marks(s))
      \/ Goes(s, [At(s, "parent") EXCEPT !.news = News(s, ops[s].org, FALSE)])
      \/ Goes(s, GoesOn(s))
    BY DEF ProfileOfMatch, TakenForClosed
<1>3. QED
    BY <1>1, <1>2, MatchKept

\* A table in which the kept organisations are open: no other row changes.
LEMMA Upserts ==
    ASSUME OInv, NEW news \in SUBSET (Orgs \X BOOLEAN), table' = Upserted(news)
    PROVE  /\ table' \in Tables
           /\ \A o \in Orgs : table[o] # None => table'[o] # None
           /\ \A o \in Orgs : Closed(table'[o]) => Closed(table[o])
           /\ \A o \in Orgs : table'[o] # table[o] => \E c \in BOOLEAN : <<o, c>> \in news
PROOF
<1>1. table \in [Orgs -> Rows \cup {None}]
    BY DEF OInv, OrgTypes, Tables
<1> DEFINE new(o) == [named |-> TRUE, closed |-> FALSE, counted |-> <<o, TRUE>> \in news]
<1>2. \A o \in Orgs : new(o) \in Rows /\ new(o) # None /\ ~Closed(new(o))
  <2>1. \A o \in Orgs : new(o) \in Rows /\ ~new(o).closed
    BY DEF Rows
  <2>2. QED
    BY <2>1, NoneIsNothing DEF Closed
<1>3. \A o \in Orgs :
        table'[o] = IF \E c \in BOOLEAN : <<o, c>> \in news THEN new(o) ELSE table[o]
    BY DEF Upserted
<1> HIDE DEF new
<1>4. \A o \in Orgs : table'[o] \in Rows \cup {None}
    BY <1>1, <1>2, <1>3
<1>5. DOMAIN table' = Orgs /\ table' = [o \in Orgs |-> table'[o]]
    BY DEF Upserted
<1>6. table' \in Tables
    BY <1>4, <1>5 DEF Tables
<1>7. QED
    BY <1>2, <1>3, <1>6

LEMMA UpsertAlliancesKept ==
    ASSUME OInv, CInv, NEW s \in Callers, UpsertAlliances(s)
    PROVE  OInv'
PROOF
<1> DEFINE op == ops[s]
           todo == op.found \cap Corps
<1>1. op # None /\ op.at = "next" /\ op.phase = "alliances"
    BY DEF UpsertAlliances, OpAt
<1>2. op \in Ops /\ Filled(op)
    BY <1>1, OpOf
<1>3. op.do = "search"
    BY <1>1, <1>2 DEF Filled
<1>4. PICK written \in SUBSET op.news, missed \in SUBSET (op.found \cap Corps) :
        /\ table' = Upserted(written)
        /\ Goes(s, [op EXCEPT !.phase = "corporations", !.found = {}, !.news = {},
                      !.todo = op.found \cap Corps, !.snap = Without(missed, table'),
                      !.unaware = @ \cup Overlooked(table', Without(missed, table'))])
    BY DEF UpsertAlliances
<1>5. UNCHANGED <<fate, begun>> /\ calls' = calls
    BY DEF UpsertAlliances
<1>6. written \in SUBSET (Orgs \X BOOLEAN)
    BY <1>2 DEF Ops
<1>7. /\ table' \in Tables
      /\ \A o \in Orgs : table[o] # None => table'[o] # None
      /\ \A o \in Orgs : Closed(table'[o]) => Closed(table[o])
    BY <1>4, <1>6, Upserts
<1> DEFINE read == Without(missed, table')
           all == op.unaware \cup Overlooked(table', read)
           n == [op EXCEPT !.phase = "corporations", !.found = {}, !.news = {},
                           !.todo = todo, !.snap = read, !.unaware = all]
<1>8. /\ todo \in SUBSET Orgs /\ todo \subseteq Corps /\ missed \in SUBSET Orgs
      /\ op.unaware \in SUBSET Orgs
    BY <1>2 DEF Ops
<1>9. /\ read \in Tables /\ Overlooked(table', read) \in SUBSET Orgs
      /\ \A o \in Orgs \ Overlooked(table', read) : Closed(table'[o]) => Closed(read[o])
    BY <1>7, <1>8, Partly
<1>10. all \in SUBSET Orgs /\ Overlooked(table', read) \subseteq all
    BY <1>8, <1>9
<1>11. Goes(s, n)
    BY <1>4
<1> HIDE DEF todo, read, all
<1>12. n \in Ops
    BY <1>2, <1>8, <1>9, <1>10 DEF Ops
<1>13. /\ n.at = "next" /\ n.do = "search" /\ n.phase = "corporations" /\ n.todo = todo
       /\ n.snap = read /\ n.news = {} /\ n.unaware = all
    BY <1>1, <1>2, <1>3 DEF Ops
<1> HIDE DEF n
<1>14. Filled(n) /\ Apart(n) /\ MarksGone(n, fate)
    BY <1>8, <1>9, <1>13 DEF Filled, Apart, MarksGone, InNews
<1>15. Informed(n, table')
    BY <1>8, <1>9, <1>10, <1>13 DEF Informed, InNews
<1>16. AsksFor(calls'[s], n, fate)
    BY <1>1, <1>5, NotAsking
<1>17. begun' \in Nat
    BY <1>5, BegunIsANumber
<1>18. QED
    BY <1>5, <1>7, <1>11, <1>12, <1>14, <1>15, <1>16, <1>17, OneOp DEF Good

LEMMA UpsertCorporationsKept ==
    ASSUME OInv, CInv, NEW s \in Callers, UpsertCorporations(s)
    PROVE  OInv'
PROOF
<1>1. ops[s] # None /\ ops[s].at = "next" /\ Goes(s, None) /\ UNCHANGED <<fate, begun>>
      /\ calls' = calls
    BY DEF UpsertCorporations, OpAt, Quiet, clientVars
<1>2. ops[s].news \in SUBSET (Orgs \X BOOLEAN)
    BY <1>1, OpOf DEF Ops
<1>3. PICK listed \in SUBSET ops[s].news : table' = Upserted(listed)
    BY DEF UpsertCorporations
<1>4. /\ table' \in Tables
      /\ \A o \in Orgs : table[o] # None => table'[o] # None
      /\ \A o \in Orgs : Closed(table'[o]) => Closed(table[o])
    BY <1>2, <1>3, Upserts
<1>5. AsksFor(calls'[s], None, fate)
    BY <1>1, NotAsking
<1>6. begun' \in Nat
    BY <1>1, BegunIsANumber
<1>7. QED
    BY <1>1, <1>4, <1>5, <1>6, OneOp

\* The row that is saved: marked by those who mean to, opened by those who found
\* it closed, else as it is.
LEMMA SavedRow ==
    ASSUME OInv, NEW s \in Callers, ops[s] # None, ops[s].at = "save"
    PROVE  LET o == ops[s].org  row == Saved(ops[s]) IN
           /\ row \in Rows /\ o \in Orgs
           /\ Closed(row) /\ ~Closed(table[o]) => ops[s].write = "close"
           /\ Closed(table[o]) /\ ~Closed(row) =>
                /\ ops[s].write = "open"
                /\ o \in ops[s].unaware \/ ops[s].do = "owner"
PROOF
<1> DEFINE op == ops[s]
           o == op.org
           row == Saved(op)
           old == IF op.orig = None THEN BlankRow ELSE op.orig
           new == Written(op)
<1>1. op \in Ops /\ Filled(op) /\ Informed(op, table)
    BY OpOf
<1>2. o \in Orgs /\ op.write \in {"open", "close"} /\ op.orig \in Rows \cup {None}
    BY <1>1 DEF Filled, Ops
<1>3. table[o] \in Rows \cup {None}
    BY <1>2 DEF OInv, OrgTypes, Tables
<1>4. old \in Rows
    BY <1>2 DEF BlankRow, Rows
<1>5. new = IF op.write = "close" THEN [old EXCEPT !.closed = TRUE]
            ELSE [old EXCEPT !.closed = FALSE, !.named = TRUE]
    BY DEF Written
<1>6. op.write = "open" /\ Closed(table[o]) => o \in op.unaware \/ op.do = "owner"
    BY <1>1, <1>2 DEF Informed
<1> HIDE DEF old, new
<1>7. /\ new \in Rows /\ new # None
      /\ op.write = "close" => new.closed = TRUE
      /\ op.write = "open" => new.closed = FALSE
  <2>1. new \in Rows
    BY <1>4, <1>5 DEF Rows
  <2>2. QED
    BY <1>2, <1>4, <1>5, <2>1, NoneIsNothing DEF Rows
<1>8. CASE op.orig = None
  <2>1. row = IF table[o] = None THEN new ELSE table[o]
    BY <1>8 DEF Saved, new
  <2>2. QED
    BY <1>2, <1>3, <1>6, <1>7, <2>1 DEF Closed
<1>9. CASE op.orig # None
  <2>1. old = op.orig
    BY <1>9 DEF old
  <2>2. row = [col \in DOMAIN new |-> IF new[col] # old[col] THEN new[col]
                                       ELSE table[o][col]]
    BY <1>9, <2>1 DEF Saved, Merged, new
  <2>3. table[o] # None /\ table[o] \in Rows
    BY <1>1, <1>3, <1>9 DEF Informed
  <2>4. DOMAIN new = {"named", "closed", "counted"}
    BY <1>7 DEF Rows
  <2>5. \A r \in Rows : r["named"] \in BOOLEAN /\ r["closed"] \in BOOLEAN
                        /\ r["counted"] \in BOOLEAN /\ r["closed"] = r.closed
    BY DEF Rows
  <2>6. /\ row["named"] \in BOOLEAN /\ row["closed"] \in BOOLEAN /\ row["counted"] \in BOOLEAN
        /\ row["closed"] = IF new["closed"] # old["closed"] THEN new["closed"]
                           ELSE table[o]["closed"]
    BY <1>4, <1>7, <2>2, <2>3, <2>4, <2>5
  <2>7. row \in Rows
    BY <2>2, <2>4, <2>6 DEF Rows
  <2>8. row # None
    BY <2>7, NoneIsNothing
  <2>9. Closed(row) <=> row["closed"]
    BY <2>8 DEF Closed
  <2>10. Closed(table[o]) <=> table[o]["closed"]
    BY <2>3 DEF Closed
  <2>11. op.write = "close" => (Closed(table[o]) => Closed(row))
    BY <1>7, <2>5, <2>6, <2>9, <2>10
  <2>12. op.write = "open" => (Closed(row) => Closed(table[o]))
    BY <1>7, <2>5, <2>6, <2>9, <2>10
  <2>13. QED
    BY <1>2, <1>6, <2>7, <2>11, <2>12
<1>10. QED
    BY <1>8, <1>9

\* What the others learn of a mark that is written behind their back.
LEMMA LateLearnt ==
    ASSUME OInv, NEW t \in Callers, ops[t] # None, NEW o \in Orgs, NEW rows,
           \A x \in Orgs : table[x] # None => rows[x] # None,
           \A x \in Orgs : x # o => (Closed(rows[x]) => Closed(table[x])),
           NEW n, n = (IF Closed(rows[o]) /\ ~Closed(table[o])
                       THEN [ops[t] EXCEPT !.unaware = @ \cup {o}] ELSE ops[t])
    PROVE  /\ n \in Ops /\ n # None /\ Good(n, fate, rows)
           /\ n.do = ops[t].do /\ n.at = ops[t].at /\ n.phase = ops[t].phase
           /\ n.org = ops[t].org
PROOF
<1> DEFINE op == ops[t]
           marked == op.unaware \cup {o}
<1>1. op \in Ops /\ Filled(op) /\ Apart(op) /\ MarksGone(op, fate) /\ Informed(op, table)
    BY OpOf
<1>2. marked \in SUBSET Orgs
    BY <1>1 DEF Ops
<1>3. n = IF Closed(rows[o]) /\ ~Closed(table[o]) THEN [op EXCEPT !.unaware = marked] ELSE op
    BY <1>1 DEF Ops
<1>4. o \in marked /\ op.unaware \subseteq marked
    OBVIOUS
<1> HIDE DEF marked
<1>5. n \in Ops
    BY <1>1, <1>2, <1>3 DEF Ops
<1>6. /\ n.at = op.at /\ n.do = op.do /\ n.phase = op.phase /\ n.org = op.org
      /\ n.todo = op.todo /\ n.snap = op.snap /\ n.news = op.news
      /\ n.write = op.write /\ n.orig = op.orig
    BY <1>1, <1>3 DEF Ops
<1>7. /\ op.unaware \subseteq n.unaware
      /\ Closed(rows[o]) /\ ~Closed(table[o]) => o \in n.unaware
    BY <1>1, <1>3, <1>4 DEF Ops
<1>8. \A x \in Orgs : x \notin n.unaware /\ Closed(rows[x]) => Closed(table[x]) /\ x \notin op.unaware
    BY <1>7
<1>9. op.todo \subseteq Orgs
    BY <1>1 DEF Ops
<1> HIDE DEF op
<1>10. Filled(n)
    BY <1>1, <1>6 DEF Filled, InNews
<1>11. Apart(n)
    BY <1>1, <1>6 DEF Apart, InNews
<1>12. MarksGone(n, fate)
    BY <1>1, <1>6 DEF MarksGone
<1>13. Informed(n, rows)
  <2>1. op.at = "save" => op.org \in Orgs
    BY <1>1 DEF Filled
  <2>2. \A x : InNews(n, x) <=> InNews(op, x)
    BY <1>6 DEF InNews
  <2>3. n.at = "save" /\ n.orig # None => rows[n.org] # None
    BY <1>1, <1>6, <2>1 DEF Informed
  <2>4. /\ n.do # "owner" /\ n.org \in Orgs /\ n.org \notin n.unaware
        /\ n.at = "asked" \/ (n.at \in {"find", "save"} /\ n.write = "open")
        => ~Closed(rows[n.org])
    BY <1>1, <1>6, <1>8 DEF Informed
  <2>5. \A x \in n.todo \ n.unaware : Closed(rows[x]) => Closed(n.snap[x])
    BY <1>1, <1>6, <1>8, <1>9 DEF Informed
  <2>6. \A x \in Orgs \ n.unaware : InNews(n, x) => ~Closed(rows[x])
    BY <1>1, <1>8, <2>2 DEF Informed
  <2>7. QED
    BY <2>3, <2>4, <2>5, <2>6 DEF Informed
<1>14. n # None
    BY <1>5, NoneIsNothing
<1>15. QED
    BY <1>5, <1>6, <1>10, <1>11, <1>12, <1>13, <1>14 DEF Good, op

\* Where the one that saved goes on.
LEMMA AfterSaveGood ==
    ASSUME OInv, NEW s \in Callers, ops[s] # None, ops[s].at = "save", NEW rows,
           \A x \in Orgs : x # ops[s].org => (Closed(rows[x]) => Closed(table[x])),
           ops[s].write = "open" =>
             (Closed(rows[ops[s].org]) => Closed(table[ops[s].org]))
    PROVE  /\ AfterSave(s) \in Ops \cup {None}
           /\ AfterSave(s) # None =>
                Good(AfterSave(s), fate, rows) /\ AfterSave(s).at # "save"
PROOF
<1> DEFINE op == ops[s]
<1>1. /\ op \in Ops /\ Filled(op) /\ Apart(op) /\ MarksGone(op, fate)
      /\ Informed(op, table) /\ Fresh(op, table)
    BY OpOf
<1>2. /\ op.org \in Orgs /\ op.org \notin op.todo /\ ~InNews(op, op.org)
      /\ op.do = "search" => op.phase \in {"alliances", "corporations"}
      /\ op.todo \subseteq Orgs /\ op.write \in {"open", "close"}
    BY <1>1 DEF Filled, Apart, Ops
<1>3. Fresh(op, rows)
    BY <1>1, <1>2 DEF Fresh
<1>4. op.do = "structure" => op.phase \in {"none", "again"} /\ op.todo = {} /\ op.news = {}
    BY <1>1 DEF Filled, Ops
<1>5. CASE op.do = "structure" /\ op.org \in Corps
  <2> DEFINE d == At(s, "parent")
             n == [d EXCEPT !.orig = None]
  <2>1. AfterSave(s) = n
    BY <1>5 DEF AfterSave
  <2>2. /\ d \in Ops /\ d.at = "parent" /\ d.do = op.do /\ d.phase = op.phase
        /\ d.todo = op.todo /\ d.news = op.news /\ d.org = op.org
    BY <1>1 DEF At, Ops
  <2> HIDE DEF d
  <2>3. n \in Ops
    BY <2>2 DEF Ops
  <2>4. /\ n.at = "parent" /\ n.do = op.do /\ n.phase = op.phase
        /\ n.todo = op.todo /\ n.news = op.news /\ n.org = op.org
    BY <2>2 DEF Ops
  <2> HIDE DEF n
  <2>5. Filled(n) /\ Apart(n) /\ MarksGone(n, fate) /\ Informed(n, rows)
    BY <1>2, <1>4, <1>5, <2>4 DEF Filled, Apart, MarksGone, Informed, InNews
  <2>6. QED
    BY <2>1, <2>3, <2>4, <2>5 DEF Good
<1>6. CASE op.do = "structure" /\ op.org \notin Corps /\ op.phase # "again"
  <2> DEFINE d == At(s, "find")
             n == [d EXCEPT !.phase = "again", !.orig = None]
  <2>1. AfterSave(s) = n
    BY <1>6 DEF AfterSave
  <2>2. /\ d \in Ops /\ d.at = "find" /\ d.do = op.do /\ d.write = op.write
        /\ d.todo = op.todo /\ d.news = op.news /\ d.org = op.org /\ d.unaware = op.unaware
    BY <1>1 DEF At, Ops
  <2> HIDE DEF d
  <2>3. n \in Ops
    BY <2>2 DEF Ops
  <2>4. /\ n.at = "find" /\ n.do = op.do /\ n.phase = "again" /\ n.write = op.write
        /\ n.todo = op.todo /\ n.news = op.news /\ n.org = op.org /\ n.unaware = op.unaware
    BY <2>2 DEF Ops
  <2> HIDE DEF n
  <2>5. Filled(n) /\ Apart(n)
    BY <1>2, <1>4, <1>6, <2>4 DEF Filled, Apart, InNews
  <2>6. MarksGone(n, fate)
    BY <1>1, <2>4 DEF MarksGone
  <2>7. n.write = "open" /\ n.org \notin n.unaware => ~Closed(rows[n.org])
    BY <1>1, <1>2, <1>6, <2>4 DEF Informed
  <2>8. Informed(n, rows)
    BY <1>4, <1>6, <2>4, <2>7 DEF Informed, InNews
  <2>9. QED
    BY <2>1, <2>3, <2>4, <2>5, <2>6, <2>8 DEF Good
<1>7. CASE ~(op.do = "structure" /\ op.org \in Corps)
           /\ ~(op.do = "structure" /\ op.phase # "again")
  <2>1. AfterSave(s) = GoesOn(s)
    BY <1>7 DEF AfterSave
  <2>2. QED
    BY <1>2, <1>3, <2>1, GoesOnGood
<1>8. QED
    BY <1>5, <1>6, <1>7

LEMMA SaveKept ==
    ASSUME OInv, CInv, NEW s \in Callers, SaveRow(s)
    PROVE  OInv'
PROOF
<1> DEFINE o == ops[s].org
           row == Saved(ops[s])
<1>1. ops[s] # None /\ ops[s].at = "save" /\ UNCHANGED <<fate, begun>> /\ calls' = calls
    BY DEF SaveRow, OpAt, Quiet, clientVars
<1>2. /\ row \in Rows /\ o \in Orgs
      /\ Closed(row) /\ ~Closed(table[o]) => ops[s].write = "close"
    BY <1>1, SavedRow
<1>3. table \in [Orgs -> Rows \cup {None}]
    BY DEF OInv, OrgTypes, Tables
<1>4. table' = [table EXCEPT ![o] = row] \/ table' = table
    BY DEF SaveRow
<1>5. \A t \in Callers :
        ops'[t] = IF t = s THEN AfterSave(s)
                  ELSE IF ops[t] # None /\ Closed(table'[o]) /\ ~Closed(table[o])
                  THEN [ops[t] EXCEPT !.unaware = @ \cup {o}] ELSE ops[t]
    BY DEF SaveRow
<1>6. ops' = [t \in Callers |-> ops'[t]]
    BY DEF SaveRow
<1>7. row # None
    BY <1>2, NoneIsNothing
<1>8. MarksGone(ops[s], fate)
    BY <1>1, OpOf
<1> HIDE DEF row, o
<1>9. /\ table' \in [Orgs -> Rows \cup {None}]
      /\ table'[o] = row \/ table'[o] = table[o]
      /\ \A x \in Orgs : x # o => table'[x] = table[x]
      /\ \A x \in Orgs : table[x] # None => table'[x] # None
    BY <1>2, <1>3, <1>4, <1>7
<1>10. Closed(table'[o]) /\ ~Closed(table[o]) => ops[s].write = "close"
    BY <1>2, <1>9
<1>11. /\ AfterSave(s) \in Ops \cup {None}
       /\ AfterSave(s) # None => Good(AfterSave(s), fate, table') /\ AfterSave(s).at # "save"
  <2>1. ops[s].write = "open" => (Closed(table'[o]) => Closed(table[o]))
    BY <1>10
  <2>2. \A x \in Orgs : x # o => (Closed(table'[x]) => Closed(table[x]))
    BY <1>9
  <2>3. QED
    BY <1>1, <2>1, <2>2, AfterSaveGood DEF o
<1>12. ASSUME NEW t \in Callers, t # s, ops[t] # None
       PROVE  /\ ops'[t] \in Ops /\ ops'[t] # None /\ Good(ops'[t], fate, table')
              /\ ops'[t].do = ops[t].do /\ ops'[t].at = ops[t].at
              /\ ops'[t].phase = ops[t].phase /\ ops'[t].org = ops[t].org
  <2>1. ops'[t] = IF Closed(table'[o]) /\ ~Closed(table[o])
                  THEN [ops[t] EXCEPT !.unaware = @ \cup {o}] ELSE ops[t]
    BY <1>5, <1>12
  <2>2. \A x \in Orgs : x # o => (Closed(table'[x]) => Closed(table[x]))
    BY <1>9
  <2>3. QED
    BY <1>2, <1>9, <1>12, <2>1, <2>2, LateLearnt
<1>13. \A t \in Callers : t # s /\ ops[t] = None => ops'[t] = None
    BY <1>5
<1>14. OrgTypes'
  <2>1. \A t \in Callers : ops'[t] \in Ops \cup {None}
    BY <1>5, <1>11, <1>12, <1>13
  <2>2. ops' \in [Callers -> Ops \cup {None}]
    BY <1>6, <2>1
  <2>3. QED
    BY <1>1, <1>9, <2>2 DEF OInv, OrgTypes, Tables
<1>15. OpsInv'
  <2>1. \A t \in Callers : ops'[t] # None => Good(ops'[t], fate', table')
    BY <1>1, <1>5, <1>11, <1>12, <1>13
  <2>2. QED
    BY <2>1 DEF OpsInv, Good
<1>16. AskedInv'
  <2> SUFFICES ASSUME NEW t \in Callers PROVE AsksFor(calls'[t], ops'[t], fate')
    BY DEF AskedInv
  <2>1. CASE t = s
    <3>1. AsksFor(calls[t], ops'[t], fate)
      BY <1>1, <2>1, NotAsking
    <3>2. QED
      BY <1>1, <3>1
  <2>2. CASE t # s
    <3>1. AsksFor(calls[t], ops[t], fate)
      BY DEF OInv, AskedInv
    <3>2. CASE ops[t] = None
      BY <1>1, <1>13, <2>2, <3>1, <3>2
    <3>3. CASE ops[t] # None
      BY <1>1, <1>12, <2>2, <3>1, <3>3 DEF AsksFor
    <3>4. QED
      BY <3>2, <3>3
  <2>3. QED
    BY <2>1, <2>2
<1>17. OnlyTheGoneAreClosed'
  <2>1. Closed(table'[o]) => fate[o] # "lives"
    BY <1>1, <1>2, <1>8, <1>10 DEF MarksGone, OInv, OnlyTheGoneAreClosed, o
  <2>2. QED
    BY <1>1, <1>9, <2>1 DEF OInv, OnlyTheGoneAreClosed
<1>18. QED
    BY <1>14, <1>15, <1>16, <1>17 DEF OInv

\* Steps of the calls: what is asked stays asked, and what is said of an
\* organisation is true.
LEMMA CallsOnly ==
    ASSUME OInv, UNCHANGED <<table, fate, ops>>, begun' \in Nat,
           \A t \in Callers :
             \/ calls'[t] = None \/ calls'[t].what \notin Asking
             \/ /\ calls[t] # None /\ calls'[t].what = calls[t].what
                /\ \/ calls'[t].said = calls[t].said
                   \/ calls'[t].said \notin {"notfound", "empty"}
                   \/ calls[t].what = "search" \/ fate[ops[t].org] # "lives"
    PROVE  OInv'
PROOF
<1>1. OrgTypes' /\ OnlyTheGoneAreClosed' /\ OpsInv'
    BY DEF OInv, OrgTypes, OnlyTheGoneAreClosed, OpsInv
<1>2. AskedInv'
  <2>1. \A t \in Callers : AsksFor(calls'[t], ops'[t], fate')
    BY DEF OInv, AskedInv, AsksFor
  <2>2. QED
    BY <2>1 DEF AskedInv
<1>3. QED
    BY <1>1, <1>2 DEF OInv

\* A call that is sent again or answered keeps its question.
LEMMA SentCalls ==
    ASSUME OInv, CInv, NEW s \in Callers, NEW Says, SendWith(s, Says),
           UNCHANGED <<table, fate, ops, begun>>,
           \/ calls[s].what \notin Asking
           \/ Says = {AnswerOf(s)}
    PROVE  OInv'
PROOF
<1>1. calls[s] # None /\ calls[s] \in Calls
    BY CallOf DEF SendWith, CallAt, CInv
<1>2. PICK said \in Says \cup {"busy", "lost"}, hold \in 0..MaxHold :
        calls' = [calls EXCEPT ![s] =
             [Again(@, @.tries) EXCEPT !.at = "sent", !.sent = now, !.said = said,
                !.hold = hold, !.value = IF calls[s].what = "affiliation" THEN moves ELSE 0]]
    BY DEF SendWith
<1> DEFINE d == Again(calls[s], calls[s].tries)
           v == IF calls[s].what = "affiliation" THEN moves ELSE 0
           n == [d EXCEPT !.at = "sent", !.sent = now, !.said = said, !.hold = hold,
                          !.value = v]
<1>3. d \in Calls /\ d.what = calls[s].what
    BY <1>1, AgainCall DEF Calls
<1> HIDE DEF d, v
<1>4. n.said = said /\ n.what = calls[s].what
    BY <1>3 DEF Calls
<1>5. calls' = [calls EXCEPT ![s] = n]
    BY <1>1, <1>2 DEF d, v
<1> HIDE DEF n
<1>6. \A t \in Callers : IF t = s THEN calls'[t] = n ELSE calls'[t] = calls[t]
    BY <1>5 DEF CInv, ClientTypes
<1>7. calls[s].what \in Asking /\ said \in {"notfound", "empty"} =>
        calls[s].what = "search" \/ fate[ops[s].org] # "lives"
    BY <1>1, AnswersOf
<1>8. begun' \in Nat
    BY BegunIsANumber
<1>9. QED
    BY <1>1, <1>4, <1>6, <1>7, <1>8, CallsOnly

\* An answer that comes, or does not come, to a request.
LEMMA AnsweredCalls ==
    ASSUME OInv, CInv, NEW s \in Callers, Receive(s) \/ ReceiveAffiliation(s),
           UNCHANGED orgVars
    PROVE  OInv'
PROOF
<1> DEFINE c == calls[s]
<1>1. c # None /\ c \in Calls /\ CallAt(s, "sent") /\ Hear(c)
      /\ UNCHANGED <<now, faults, moves, leftAt>>
    BY CallOf DEF Receive, ReceiveAffiliation, CallAt, CInv, affiliationVars
<1>2. c.tries \in 0..Retries /\ c.said \in Answers \cup {None} /\ c.sent \in Nat
      /\ c.value \in Nat
    BY <1>1 DEF Calls
<1>3. c.tries < Retries => c.tries + 1 \in 0..Retries
    BY <1>2 DEF Retries
<1>4. PICK n \in Calls \cup {None} :
        /\ calls' = [Warned(c) EXCEPT ![s] = n]
        /\ n # None => /\ n.at \in {"look", "done"} /\ n.what = c.what
                       /\ n.said = c.said \/ n.said \in {None, "failed"}
  <2>1. CASE Receive(s)
    <3> DEFINE again == Again(c, c.tries + 1)
               said == IF c.said \in {"busy", "lost"} THEN "failed" ELSE c.said
               reply == Reply(c, said)
    <3>1. c.tries < Retries => again \in Calls /\ again.at = "look" /\ again.what = c.what
                               /\ again.said = None
      BY <1>1, <1>3, AgainCall
    <3>2. said \in Answers \cup {None} /\ (said = c.said \/ said = "failed")
      BY <1>2 DEF Answers
    <3>3. reply \in Calls /\ reply.at = "done" /\ reply.what = c.what /\ reply.said = said
      BY <1>1, <3>2, ReplyCall
    <3>4. \/ c.tries < Retries /\ calls' = [Warned(c) EXCEPT ![s] = again]
          \/ calls' = [Warned(c) EXCEPT ![s] = reply]
      BY <2>1 DEF Receive
    <3>5. QED
      BY <3>1, <3>2, <3>3, <3>4
  <2>2. CASE ReceiveAffiliation(s)
    <3> DEFINE again == Again(c, c.tries + 1)
    <3>1. c.tries < Retries => again \in Calls /\ again.at = "look" /\ again.what = c.what
                               /\ again.said = None
      BY <1>1, <1>3, AgainCall
    <3>2. \/ c.tries < Retries /\ calls' = [Warned(c) EXCEPT ![s] = again]
          \/ calls' = [Warned(c) EXCEPT ![s] = None]
      BY <2>2 DEF ReceiveAffiliation
    <3>3. QED
      BY <3>1, <3>2
  <2>3. QED
    BY <2>1, <2>2
<1>5. UNCHANGED <<table, fate, ops>> /\ begun' \in Nat
    BY BegunIsANumber DEF orgVars
<1>6. Warned(c) = [t \in Callers |-> Warned(c)[t]]
    BY DEF Warned
<1>7. calls'[s] = n /\ \A t \in Callers : t # s => calls'[t] = Warned(c)[t]
    BY <1>4, <1>6
<1>8. \A t \in Callers : t # s =>
        \/ calls'[t] = None
        \/ calls[t] # None /\ calls'[t].what = calls[t].what /\ calls'[t].said = calls[t].said
  <2> SUFFICES ASSUME NEW t \in Callers, t # s
               PROVE  \/ calls'[t] = None
                      \/ calls[t] # None /\ calls'[t].what = calls[t].what
                         /\ calls'[t].said = calls[t].said
    OBVIOUS
  <2>1. calls'[t] = calls[t]
        \/ (calls[t] # None /\ calls'[t] = [calls[t] EXCEPT !.still = FALSE])
    BY <1>7 DEF Warned
  <2>2. CASE calls[t] # None /\ calls'[t] = [calls[t] EXCEPT !.still = FALSE]
    <3>1. calls[t] \in Calls
      BY <2>2, CallOf DEF CInv
    <3>2. QED
      BY <2>2, <3>1 DEF Calls
  <2>3. QED
    BY <2>1, <2>2
<1>9. None \notin {"notfound", "empty"}
    BY NoneIsNothing DEF Answers
<1>10. QED
    BY <1>1, <1>4, <1>5, <1>7, <1>8, <1>9, CallsOnly

LEMMA CallStepKept ==
    ASSUME OInv, CInv, NEW s \in Callers, CallStep(s)
    PROVE  OInv'
PROOF
<1>1. UNCHANGED <<table, fate, ops>> /\ begun' \in Nat
    BY DEF CallStep, orgVars, OInv, OrgTypes
<1>2. ASSUME NEW n, calls' = [calls EXCEPT ![s] = n],
             \/ n = None \/ n.what \notin Asking
             \/ /\ calls[s] # None /\ n.what = calls[s].what
                /\ n.said = calls[s].said \/ n.said = "failed"
      PROVE  OInv'
  <2>1. \A t \in Callers : IF t = s THEN calls'[t] = n ELSE calls'[t] = calls[t]
    BY <1>2 DEF CInv, ClientTypes
  <2>2. QED
    BY <1>1, <1>2, <2>1, CallsOnly
<1>3. CASE LookAtThrottle(s) /\ UNCHANGED orgVars
  <2> DEFINE n == [calls[s] EXCEPT !.at = "wait", !.still = TRUE,
                                   !.until = Seen(calls[s].client)]
  <2>1. calls[s] # None /\ calls[s] \in Calls
    BY <1>3, CallOf DEF LookAtThrottle, CallAt, CInv
  <2>2. n.what = calls[s].what /\ n.said = calls[s].said
    BY <2>1 DEF Calls
  <2>3. calls' = [calls EXCEPT ![s] = n]
    BY <1>3, <2>1 DEF LookAtThrottle
  <2> HIDE DEF n
  <2>4. QED
    BY <1>2, <2>1, <2>2, <2>3
<1>4. CASE GiveUp(s) /\ UNCHANGED orgVars
  <2> DEFINE n == Reply(calls[s], "failed")
  <2>1. calls[s] # None /\ calls[s] \in Calls
    BY <1>4, CallOf DEF GiveUp, CallAt, CInv
  <2>2. n.what = calls[s].what /\ n.said = "failed"
    BY <2>1, ReplyCall DEF Answers
  <2>3. calls' = [calls EXCEPT ![s] = n]
    BY <1>4, <2>1 DEF GiveUp, CInv, ClientTypes
  <2> HIDE DEF n
  <2>4. QED
    BY <1>2, <2>1, <2>2, <2>3
<1>5. CASE (Receive(s) \/ ReceiveAffiliation(s)) /\ UNCHANGED orgVars
    BY <1>5, AnsweredCalls
<1>6. CASE (SendAffiliation(s) \/ SendDirect(s)) /\ UNCHANGED orgVars
  <2>1. calls[s].what \notin Asking
    BY <1>6 DEF SendAffiliation, SendDirect, AskedOnce, Asking
  <2>2. PICK Says : SendWith(s, Says)
    BY <1>6 DEF SendAffiliation, SendDirect
  <2>3. UNCHANGED <<table, fate, ops, begun>>
    BY <1>6 DEF orgVars
  <2>4. QED
    BY <2>1, <2>2, <2>3, SentCalls
<1>7. CASE RequestEnds(s) /\ UNCHANGED orgVars
    BY <1>2, <1>7 DEF RequestEnds, Leave
<1>8. CASE AskAffiliation(s) \/ AskDirect(s)
  <2>1. PICK k \in Clients, w \in AskedOnce \cup {"affiliation"}, b \in BOOLEAN :
          calls' = [calls EXCEPT ![s] = Call(k, w, b)]
    BY <1>8 DEF AskAffiliation, AskDirect, Enter, Clients
  <2>2. Call(k, w, b).what = w
    BY DEF Call
  <2>3. w \notin Asking
    BY DEF Asking, AskedOnce
  <2>4. QED
    BY <1>2, <2>1, <2>2, <2>3
<1>9. QED
    BY <1>3, <1>4, <1>5, <1>6, <1>7, <1>8 DEF CallStep

\* An organisation ends: what is said to be gone stays gone.
LEMMA DisbandKept ==
    ASSUME OInv, NEW o \in Orgs, Disband(o)
    PROVE  OInv'
PROOF
<1>1. UNCHANGED <<calls, table, ops, begun>>
    BY DEF Disband, clientVars
<1>2. /\ fate' \in [Orgs -> {"lives", "notfound", "empty"}]
      /\ \A x \in Orgs : fate[x] # "lives" => fate'[x] # "lives"
    BY DEF Disband, OInv, OrgTypes
<1>3. OrgTypes' /\ OnlyTheGoneAreClosed'
    BY <1>1, <1>2 DEF OInv, OrgTypes, OnlyTheGoneAreClosed
<1>4. ASSUME NEW t \in Callers, ops[t] # None PROVE Good(ops[t], fate', table)
  <2>1. Good(ops[t], fate, table) /\ Filled(ops[t])
    BY <1>4, OpOf
  <2>2. MarksGone(ops[t], fate')
    BY <1>2, <2>1 DEF Good, MarksGone, Filled
  <2>3. QED
    BY <2>1, <2>2 DEF Good
<1>5. OpsInv'
  <2>1. \A t \in Callers : ops'[t] # None => Good(ops'[t], fate', table')
    BY <1>1, <1>4
  <2>2. QED
    BY <2>1 DEF OpsInv, Good
<1>6. AskedInv'
  <2>1. \A t \in Callers : AsksFor(calls[t], ops[t], fate')
    BY <1>2 DEF OInv, AskedInv, AsksFor
  <2>2. QED
    BY <1>1, <2>1 DEF AskedInv
<1>7. QED
    BY <1>3, <1>5, <1>6 DEF OInv

LEMMA OpsKept ==
    ASSUME CInv, OInv, [Next]_vars
    PROVE  OInv'
PROOF
<1>1. ASSUME NEW s \in Callers, WorkerStep(s) PROVE OInv'
  <2>1. ASSUME NEW o \in Orgs, BeginLookup(s, o) \/ BeginStructure(s, o) \/ BeginOwner(s, o)
        PROVE  OInv'
    BY <2>1, BeginKept
  <2>2. BeginSearch(s) => OInv'
    BY BeginKept
  <2>3. SendForOp(s) => OInv'
    BY SentCalls DEF SendForOp, orgVars
  <2>4. FindRow(s) \/ SaveRow(s) \/ LookUp(s) => OInv'
    BY FindKept, SaveKept, LookUpKept
  <2>5. AnswerToLookup(s) \/ ToParent(s) \/ SearchAnswered(s) => OInv'
    BY AnswerKept, ParentKept, SearchKept
  <2>6. NextAlliance(s) \/ DetailsOfMatch(s) \/ MembersOfMatch(s) => OInv'
    BY NextAllianceKept, DetailsKept, MembersKept
  <2>7. UpsertAlliances(s) \/ NextCorporation(s) => OInv'
    BY UpsertAlliancesKept, NextCorporationKept
  <2>8. ProfileOfMatch(s) \/ UpsertCorporations(s) => OInv'
    BY ProfileKept, UpsertCorporationsKept
  <2>9. QED
    BY <1>1, <2>1, <2>2, <2>3, <2>4, <2>5, <2>6, <2>7, <2>8 DEF WorkerStep
<1>2. ASSUME NEW s \in Callers, CallStep(s) PROVE OInv'
    BY <1>2, CallStepKept
<1>3. ASSUME NEW o \in Orgs, Disband(o) PROVE OInv'
    BY <1>3, DisbandKept
<1>4. ASSUME calls' = calls, UNCHANGED orgVars PROVE OInv'
    BY <1>4, CallsOnly, BegunIsANumber DEF orgVars
<1>5. (Move \/ Tick) /\ UNCHANGED orgVars => OInv'
    BY <1>4 DEF Move, Tick
<1>6. UNCHANGED vars => OInv'
    BY <1>4 DEF vars, clientVars
<1>7. QED
    BY <1>1, <1>2, <1>3, <1>5, <1>6 DEF Next

-----------------------------------------------------------------------------
(* The behaviours.                                                         *)

LEMMA InitHolds ==
    ASSUME OrgInit PROVE CInv /\ OInv
PROOF
<1>1. /\ calls = [s \in Callers |-> None] /\ ops = [s \in Callers |-> None]
      /\ table = [o \in Orgs |-> None] /\ fate = [o \in Orgs |-> "lives"] /\ begun = 0
      /\ now = 0 /\ faults = 0 /\ moves = 0 /\ leftAt = <<>> /\ entry = None
      /\ till = [k \in Clients |-> 0] /\ told = till /\ unheard = {}
    BY DEF OrgInit, Init
<1>2. ClientTypes
    BY <1>1 DEF ClientTypes
<1>3. WaitsInv /\ RecentInv
    BY <1>1, NoneIsNothing DEF WaitsInv, RecentInv, CallAt
<1>4. OrgTypes
    BY <1>1 DEF OrgTypes, Tables
<1>5. OpsInv /\ AskedInv /\ OnlyTheGoneAreClosed
    BY <1>1 DEF OpsInv, AskedInv, AsksFor, OnlyTheGoneAreClosed, Closed
<1>6. QED
    BY <1>2, <1>3, <1>4, <1>5 DEF CInv, OInv

\* What is known of the calls, and of the operations, holds in every state.
THEOREM Invariant == Spec => [](CInv /\ OInv)
PROOF
<1>1. OrgInit => CInv /\ OInv
    BY InitHolds
<1>2. CInv /\ OInv /\ [Next]_vars => (CInv /\ OInv)'
    BY CallsKept, OpsKept
<1>3. QED
    BY <1>1, <1>2, PTL DEF Spec

\* The values of the clients' and the table's variables have their types.
THEOREM TypeCorrect == Spec => [](ClientTypes /\ OrgTypes)
PROOF
<1>1. CInv /\ OInv => ClientTypes /\ OrgTypes
    BY DEF CInv, OInv
<1>2. QED
    BY <1>1, Invariant, PTL

\* A mark hides those organisations alone that exist no more.
THEOREM MarksAreTrue == Spec => []OnlyTheGoneAreClosed
PROOF
<1>1. CInv /\ OInv => OnlyTheGoneAreClosed
    BY DEF OInv
<1>2. QED
    BY <1>1, Invariant, PTL

\* The affiliation that is handed out from the cache was left at most a life time
\* and a flight ago.
THEOREM RecentAffiliations == Spec => []AnswersAreRecent
PROOF
<1>1. CInv => AnswersAreRecent
  <2> SUFFICES ASSUME CInv, Usable(entry), entry.value # moves
               PROVE  leftAt[entry.value + 1] + Flight + Ttl >= now
    BY DEF AnswersAreRecent
  <2>1. entry # None /\ entry \in Entries /\ now <= entry.expires
    BY DEF Usable, CInv, ClientTypes
  <2>2. entry.value \in Nat /\ entry.expires \in Nat /\ moves \in Nat /\ now \in Nat
        /\ leftAt \in Seq(Nat) /\ Len(leftAt) = moves
    BY <2>1 DEF Entries, CInv, ClientTypes
  <2>3. entry.value < moves
    BY <2>1, <2>2 DEF CInv, RecentInv
  <2>4. entry.expires <= leftAt[entry.value + 1] + Flight + Ttl
    BY <2>1, <2>3 DEF CInv, RecentInv
  <2>5. entry.value + 1 \in 1..Len(leftAt)
    BY <2>2, <2>3
  <2>6. leftAt[entry.value + 1] \in Nat
    BY <2>2, <2>5
  <2>7. QED
    BY <2>1, <2>2, <2>4, <2>6, ConstantTypes
<1>2. QED
    BY <1>1, Invariant, PTL

\* No request is sent while an answer to its client asks to wait, but for the two
\* exceptions: it had looked at the throttle before, or the client did not look.
THEOREM WaitsKept == Spec => WaitsAreKept
PROOF
<1> DEFINE Kept ==
      \A s \in Callers :
        CallAt(s, "wait") /\ CallAt(s, "sent")' =>
          LET k == calls[s].client IN
          now >= told[k] \/ ~calls[s].still \/ k \in unheard
<1>1. CInv /\ OInv /\ [Next]_vars => Kept
  <2> SUFFICES ASSUME CInv, OInv, [Next]_vars, NEW s \in Callers,
                      CallAt(s, "wait"), CallAt(s, "sent")',
                      calls[s].still, calls[s].client \notin unheard
               PROVE  now >= told[calls[s].client]
    OBVIOUS
  <2>1. calls[s].until <= now
    BY CallsKept DEF Punctual
  <2>2. told[calls[s].client] <= calls[s].until
    BY DEF CInv, WaitsInv
  <2>3. calls[s] \in Calls
    BY CallOf DEF CInv, CallAt
  <2>4. told[calls[s].client] \in Nat /\ calls[s].until \in Nat /\ now \in Nat
    BY <2>3 DEF Calls, CInv, ClientTypes
  <2>5. QED
    BY <2>1, <2>2, <2>4
<1>2. WaitsAreKept <=> [][Kept]_<<now, calls, told, unheard>>
    BY DEF WaitsAreKept
<1>3. CInv /\ OInv /\ [Next]_vars => [Kept]_<<now, calls, told, unheard>>
    BY <1>1
<1> HIDE DEF Kept
<1>4. QED
    BY <1>2, <1>3, Invariant, PTL DEF Spec

\* What is marked is offered again only by those who began before the mark or failed
\* to read it, or by the discovery of jumpbridges.
THEOREM MarksAreKept == Spec => ClosedStaysClosed
PROOF
<1> DEFINE Kept ==
      \A o \in Orgs :
        Closed(table[o]) /\ ~Closed(table'[o]) =>
          \E s \in Callers :
            /\ ops[s] # None /\ ops'[s] # ops[s]
            /\ o \in ops[s].unaware \/ ops[s].do = "owner"
<1>1. ASSUME OInv, [Next]_vars PROVE Kept \/ table' = table
  <2>1. ASSUME NEW s \in Callers, SaveRow(s) PROVE Kept
    <3>1. ops[s] # None /\ ops[s].at = "save"
      BY <2>1 DEF SaveRow, OpAt
    <3>2. ops'[s] = AfterSave(s)
      BY <2>1 DEF SaveRow
    <3> DEFINE o == ops[s].org
               row == Saved(ops[s])
    <3>3. /\ o \in Orgs /\ row \in Rows
          /\ Closed(row) /\ ~Closed(table[o]) => ops[s].write = "close"
          /\ Closed(table[o]) /\ ~Closed(row) =>
               ops[s].write = "open" /\ (o \in ops[s].unaware \/ ops[s].do = "owner")
      BY <1>1, <3>1, SavedRow
    <3>4. table' = [table EXCEPT ![o] = row] \/ table' = table
      BY <2>1 DEF SaveRow
    <3>5. table \in [Orgs -> Rows \cup {None}]
      BY <1>1 DEF OInv, OrgTypes, Tables
    <3>6. ops'[s] # ops[s]
      <4>1. AfterSave(s) # None => AfterSave(s).at # "save"
        BY <1>1, <3>1, AfterSaveGood
      <4>2. QED
        BY <3>1, <3>2, <4>1
    <3> HIDE DEF o, row
    <3>7. \A x \in Orgs : table'[x] = table[x] \/ (x = o /\ table'[x] = row)
      BY <3>3, <3>4, <3>5
    <3>8. QED
      BY <3>1, <3>3, <3>6, <3>7 DEF o
  <2>2. ASSUME NEW s \in Callers, UpsertAlliances(s) \/ UpsertCorporations(s) PROVE Kept
    <3>1. ops[s] # None /\ ops[s].at = "next" /\ ops[s] \in Ops /\ Fresh(ops[s], table)
      BY <1>1, <2>2, OpOf DEF UpsertAlliances, UpsertCorporations, OpAt
    <3>2. PICK news \in SUBSET ops[s].news : table' = Upserted(news)
      BY <2>2 DEF UpsertAlliances, UpsertCorporations
    <3>3. news \in SUBSET (Orgs \X BOOLEAN)
      BY <3>1 DEF Ops
    <3>4. \A o \in Orgs : table'[o] # table[o] => InNews(ops[s], o)
      BY <1>1, <3>2, <3>3, Upserts DEF InNews
    <3>5. ops'[s] # ops[s]
      <4>1. ops \in [Callers -> Ops \cup {None}]
        BY <1>1 DEF OInv, OrgTypes
      <4>2. CASE UpsertCorporations(s)
        BY <3>1, <4>1, <4>2 DEF UpsertCorporations, Goes
      <4>3. CASE UpsertAlliances(s)
        <5>1. ops'[s].phase = "corporations"
          BY <3>1, <4>1, <4>3 DEF UpsertAlliances, Goes, Ops
        <5>2. QED
          BY <4>3, <5>1 DEF UpsertAlliances
      <4>4. QED
        BY <2>2, <4>2, <4>3
    <3>6. QED
      BY <3>1, <3>4, <3>5 DEF Fresh
  <2>3. ASSUME NEW s \in Callers, WorkerStep(s), ~SaveRow(s),
               ~UpsertAlliances(s), ~UpsertCorporations(s)
        PROVE  table' = table
    <3> USE DEF Begin, orgVars
    <3>1. ASSUME NEW o \in Orgs, BeginLookup(s, o) \/ BeginStructure(s, o) \/ BeginOwner(s, o)
          PROVE  table' = table
      BY <3>1 DEF BeginLookup, BeginStructure, BeginOwner
    <3>2. BeginSearch(s) \/ SendForOp(s) \/ FindRow(s) \/ ToParent(s) => table' = table
      BY DEF BeginSearch, SendForOp, FindRow, ToParent
    <3>3. LookUp(s) \/ AnswerToLookup(s) \/ SearchAnswered(s) => table' = table
      BY DEF LookUp, AnswerToLookup, SearchAnswered
    <3>4. NextAlliance(s) \/ DetailsOfMatch(s) \/ MembersOfMatch(s) => table' = table
      BY DEF NextAlliance, DetailsOfMatch, MembersOfMatch
    <3>5. NextCorporation(s) \/ ProfileOfMatch(s) => table' = table
      BY DEF NextCorporation, ProfileOfMatch
    <3>6. QED
      BY <2>3, <3>1, <3>2, <3>3, <3>4, <3>5 DEF WorkerStep
  <2>4. (\E s \in Callers : CallStep(s)) \/ (\E o \in Orgs : Disband(o)) => table' = table
    BY DEF CallStep, Disband, orgVars
  <2>5. UNCHANGED orgVars \/ UNCHANGED vars => table' = table
    BY DEF vars, orgVars
  <2>6. QED
    BY <1>1, <2>1, <2>2, <2>3, <2>4, <2>5 DEF Next
<1>2. CInv /\ OInv /\ [Next]_vars => [Kept]_<<table, ops>>
  <2>1. table' = table => Kept
    OBVIOUS
  <2>2. QED
    BY <1>1, <2>1
<1>3. ClosedStaysClosed <=> [][Kept]_<<table, ops>>
    BY DEF ClosedStaysClosed
<1> HIDE DEF Kept
<1>4. QED
    BY <1>2, <1>3, Invariant, PTL DEF Spec
=============================================================================
