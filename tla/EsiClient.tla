------------------------------ MODULE EsiClient ------------------------------
(***************************************************************************)
(* The clients of EVE's API (src/backend/internal/esi): the throttle that  *)
(* makes a client wait as long as an answer told it to, the repetition of  *)
(* requests that failed, and the cache of characters' affiliations that is *)
(* kept with the ETags of the answers (throttle.go, request.go, public.go, *)
(* direct.go, affiliation_cache.go).                                       *)
(*                                                                         *)
(* The server has two clients with a throttle each: the public one, and    *)
(* the direct one that speaks for a character.  The limiter they share     *)
(* only delays a request, which is left open here anyway.  A request is    *)
(* answered when it is sent and the answer arrives later, or never.  One   *)
(* character is enough for the cache, whose entries do not touch; its      *)
(* affiliation is a number that grows with every change, which also is its *)
(* ETag.  Time passes in ticks.                                            *)
(***************************************************************************)
EXTENDS Naturals, FiniteSets, Sequences

CONSTANTS Callers,     \* requests, jobs and their goroutines
          None,        \* no call, no entry
          MaxTime,     \* ticks
          MaxHold,     \* longest wait an answer asks for
          Ttl,         \* life time ESI gives to an affiliation
          Flight,      \* longest time from a request to its answer
          MaxMoves,    \* changes of the character's affiliation
          MaxFaults    \* answers that fail, that ask to wait, or get lost

ASSUME ClientAssumption ==
  /\ None \notin Callers
  /\ {MaxTime, MaxHold, Ttl, Flight, MaxMoves, MaxFaults} \subseteq Nat
  /\ Flight <= Ttl

VARIABLES now,
          till,      \* throttleTill of each client
          calls,     \* what each caller is asking
          faults,
          moves,     \* the affiliation as it is
          leftAt,    \* when each earlier affiliation was left
          entry,     \* the entry of the affiliation cache
          told,      \* history: until when answers told each client to wait
          unheard    \* history: the clients that did not look at that answer

throttleVars == <<till, told, unheard>>
affiliationVars == <<moves, leftAt, entry>>
clientVars == <<now, calls, faults, throttleVars, affiliationVars>>

Clients == {"public", "direct"}
Retries == 3                                     \* publicBackoffMaxRetryCount
Later(a, b) == IF b > a THEN b ELSE a

Init ==
  /\ now = 0 /\ faults = 0
  /\ till = [k \in Clients |-> 0] /\ told = till /\ unheard = {}
  /\ calls = [s \in Callers |-> None]
  /\ moves = 0 /\ leftAt = <<>> /\ entry = None

-----------------------------------------------------------------------------
(* A call waits, is sent, and is answered.  still: no answer has told its  *)
(* client to wait since it looked at the throttle.                         *)
Call(client, what, again) ==
  [client |-> client, what |-> what, again |-> again, at |-> "look",
   until |-> 0, tries |-> 0, sent |-> 0, said |-> None, value |-> 0,
   hold |-> 0, still |-> TRUE]

Again(c, tries) == [Call(c.client, c.what, c.again) EXCEPT !.tries = tries]
Reply(c, said) == [Again(c, 0) EXCEPT !.at = "done", !.said = said]

Enter(s, client, what, again) ==
  calls' = [calls EXCEPT ![s] = Call(client, what, again)]
CallAt(s, at) == calls[s] # None /\ calls[s].at = at
Leave(s) == calls' = [calls EXCEPT ![s] = None]

(* Until when the client's throttle makes a request wait. *)
\* Mutant: only the tick in which the answer came is waited for.
SeenBriefly(k) == IF till[k] > now THEN now ELSE till[k]
Seen(k) == till[k]

(* esiThrottle.wait: the throttle is read once; what is said during the    *)
(* wait does not prolong it.                                               *)
LookAtThrottle(s) ==
  /\ CallAt(s, "look")
  /\ calls' = [calls EXCEPT ![s] = [@ EXCEPT !.at = "wait", !.still = TRUE,
                                             !.until = Seen(calls[s].client)]]
  /\ UNCHANGED <<now, faults, throttleVars, affiliationVars>>

(* The request is sent and answered with one of Says; or the server is     *)
(* busy; either may ask to wait; or no answer will come.                   *)
SendWith(s, Says) ==
  /\ CallAt(s, "wait") /\ now >= calls[s].until
  /\ \E said \in Says \cup {"busy", "lost"}, hold \in 0..MaxHold :
       LET fault == said \in {"busy", "lost"} \/ hold > 0 IN
       /\ said = "lost" => hold = 0
       /\ hold > 0 => now + Flight + hold <= MaxTime
       /\ fault => faults < MaxFaults
       /\ faults' = IF fault THEN faults + 1 ELSE faults
       /\ calls' = [calls EXCEPT ![s] =
            [Again(@, @.tries) EXCEPT !.at = "sent", !.sent = now, !.said = said,
               !.hold = hold, !.value = IF calls[s].what = "affiliation" THEN moves ELSE 0]]
  /\ UNCHANGED <<now, throttleVars, affiliationVars>>

(* The caller's context ends while it waits: the request is not sent.      *)
GiveUp(s) ==
  /\ CallAt(s, "wait") /\ faults < MaxFaults
  /\ faults' = faults + 1
  /\ calls' = [calls EXCEPT ![s] = Reply(@, "failed")]
  /\ UNCHANGED <<now, throttleVars, affiliationVars>>

(* esiThrottle.update: a later end replaces the one that is known.  The    *)
(* location of a character is the one request whose refusals are not       *)
(* looked at.                                                              *)
Listens(c) == ~(c.what = "location" /\ c.said = "busy")
Asked(c) == IF c.hold = 0 THEN 0 ELSE now + c.hold
Heard(c) == IF Listens(c) THEN Later(till[c.client], Asked(c)) ELSE till[c.client]

Hear(c) ==
  /\ till' = [till EXCEPT ![c.client] = Heard(c)]
  /\ told' = [told EXCEPT ![c.client] = Later(@, Asked(c))]
  /\ unheard' = IF Asked(c) <= told[c.client] THEN unheard
                ELSE IF Listens(c) THEN unheard \ {c.client}
                ELSE unheard \cup {c.client}

(* The others that still wait with what they read before. *)
Warned(c) ==
  [t \in Callers |->
     IF /\ calls[t] # None /\ calls[t].at = "wait" /\ calls[t].client = c.client
        /\ Asked(c) > told[c.client]
     THEN [calls[t] EXCEPT !.still = FALSE] ELSE calls[t]]

(* shouldRetryPublicESI: a refusal or a missing answer is tried again, but *)
(* not by the requests that are made once.                                 *)
Receive(s) ==
  LET c == calls[s]
      failed == c.said \in {"busy", "lost"} IN
  /\ CallAt(s, "sent") /\ c.what # "affiliation"
  /\ Hear(c)
  /\ calls' = [Warned(c) EXCEPT ![s] =
       IF failed /\ c.again /\ c.tries < Retries THEN Again(c, c.tries + 1)
       ELSE Reply(c, IF failed THEN "failed" ELSE c.said)]
  /\ UNCHANGED <<now, faults, affiliationVars>>

-----------------------------------------------------------------------------
(* CharacterAffiliation: an entry that has not expired is the answer; else *)
(* ESI is asked, with the entry's ETag if there is one.                    *)
\* Mutant: an entry is good for ever.
UsableAlways(e) == e # None
Usable(e) == e # None /\ now <= e.expires

AskAffiliation(s) ==
  /\ calls[s] = None /\ ~Usable(entry)
  /\ Enter(s, "public", "affiliation", TRUE)
  /\ UNCHANGED <<now, faults, throttleVars, affiliationVars>>

SendAffiliation(s) ==
  /\ CallAt(s, "wait") /\ calls[s].what = "affiliation"
  /\ SendWith(s, {IF entry # None /\ entry.value = moves THEN "same" ELSE "ok"})

(* affiliationCache.refreshExpiry, for whatever entry there is by now.     *)
RefreshedExpiry(e, expires) == [e EXCEPT !.expires = expires]

ReceiveAffiliation(s) ==
  LET c == calls[s] IN
  /\ CallAt(s, "sent") /\ c.what = "affiliation"
  /\ Hear(c)
  /\ IF c.said \in {"busy", "lost"}
     THEN /\ calls' = [Warned(c) EXCEPT ![s] =
               IF c.tries < Retries THEN Again(c, c.tries + 1) ELSE None]
          /\ UNCHANGED entry
     ELSE /\ calls' = [Warned(c) EXCEPT ![s] = None]
          /\ entry' = IF c.said = "same"
                      THEN RefreshedExpiry(entry, c.sent + Ttl)
                      ELSE [value |-> c.value, expires |-> c.sent + Ttl]
  /\ UNCHANGED <<now, faults, moves, leftAt>>

(* What the direct client asks for once: the location of a character, and  *)
(* in the same way its notifications, a structure, or a waypoint to be set.*)
AskedOnce == {"location", "waypoint"}

AskDirect(s) ==
  /\ calls[s] = None
  /\ \E what \in AskedOnce : Enter(s, "direct", what, FALSE)
  /\ UNCHANGED <<now, faults, throttleVars, affiliationVars>>

SendDirect(s) ==
  /\ CallAt(s, "wait") /\ calls[s].what \in AskedOnce
  /\ SendWith(s, {"ok"})

RequestEnds(s) ==
  /\ CallAt(s, "done") /\ calls[s].what \in AskedOnce \cup {"affiliation"}
  /\ Leave(s)
  /\ UNCHANGED <<now, faults, throttleVars, affiliationVars>>

-----------------------------------------------------------------------------
(* The character changes its corporation; before anybody asked, this would *)
(* change nothing.                                                         *)
AffiliationMatters ==
  entry # None \/ \E s \in Callers : calls[s] # None /\ calls[s].what = "affiliation"

Move ==
  /\ moves < MaxMoves /\ AffiliationMatters
  /\ moves' = moves + 1
  /\ leftAt' = Append(leftAt, now)
  /\ UNCHANGED <<now, calls, faults, throttleVars, entry>>

(* An answer comes in time or is lost.  Time that neither an entry nor a   *)
(* throttle depends on is not told apart.                                  *)
Tick ==
  /\ now < MaxTime
  /\ AffiliationMatters \/ \E k \in Clients : told[k] > now
  /\ \A s \in Callers : CallAt(s, "sent") => now < calls[s].sent + Flight
  /\ now' = now + 1
  /\ UNCHANGED <<calls, faults, throttleVars, affiliationVars>>

-----------------------------------------------------------------------------
(* What a client was told is in its throttle, unless it did not look, and  *)
(* in the wait of a call that looked at the throttle after it.             *)
WaitsInv ==
  /\ \A k \in Clients \ unheard : told[k] <= till[k]
  /\ \A s \in Callers :
       CallAt(s, "wait") /\ calls[s].still /\ calls[s].client \notin unheard =>
         told[calls[s].client] <= calls[s].until

(* An affiliation is left after it was told; an answer that nothing has    *)
(* changed was sent when the entry it will prolong was the character's own, *)
(* or on its way.                                                          *)
LeftAfter(v, t) == v <= moves /\ (v < moves => t <= leftAt[v + 1])
InFlight(c) ==
  /\ c.sent <= now /\ now <= c.sent + Flight
  /\ c.what = "affiliation" =>
       /\ c.said \notin {"busy", "lost", "same"} => LeftAfter(c.value, c.sent)
       /\ c.said = "same" =>
            entry # None /\ (entry.value < moves =>
                               c.sent <= leftAt[entry.value + 1] + Flight)
RecentInv ==
  /\ \A s \in Callers : CallAt(s, "sent") => InFlight(calls[s])
  /\ entry # None =>
       /\ entry.value <= moves /\ entry.expires <= now + Ttl
       /\ entry.value < moves => entry.expires <= leftAt[entry.value + 1] + Flight + Ttl

-----------------------------------------------------------------------------
(* A request is not sent while an answer to its client asks to wait, with  *)
(* two exceptions: it had looked at the throttle before that answer came,  *)
(* or the answer refused a location, which the client does not look at.    *)
WaitsAreKept ==
  [][\A s \in Callers :
       CallAt(s, "wait") /\ CallAt(s, "sent")' =>
         LET k == calls[s].client IN
         now >= told[k] \/ ~calls[s].still \/ k \in unheard]_<<now, calls, told, unheard>>

(* The affiliation that is handed out without asking ESI is the character's *)
(* own, or was left at most a life time and a flight ago: the answer that  *)
(* nothing has changed can prolong an older answer that overtook it.       *)
AnswersAreRecent ==
  Usable(entry) =>
    entry.value = moves \/ leftAt[entry.value + 1] + Flight + Ttl >= now
=============================================================================
