------------------------------ MODULE OrgCache ------------------------------
(***************************************************************************)
(* The cache of corporations and alliances, which the jobs, the logins and *)
(* the staff's searches fill from EVE's API and whose rows, once marked as *)
(* closed, hide an organisation from everybody (store/org_cache.go,        *)
(* store/org_resolver.go, timers/entity_search.go).                        *)
(*                                                                         *)
(* Operations ask with the calls of EsiClient and wait for the answers, so *)
(* that what they read before may be stale when they write.  A row is      *)
(* found in one step and saved in another; the save writes the columns     *)
(* that differ from the copy that was found.  Rows are never deleted.  Of  *)
(* a row the model keeps whether it has a name, whether it is marked as    *)
(* closed and whether an alliance's corporations were counted.             *)
(***************************************************************************)
EXTENDS EsiClient

CONSTANTS Corps, Alliances,
          MaxOps       \* operations and requests that callers begin

ASSUME OrgAssumption ==
  /\ MaxOps \in Nat
  /\ Corps \cap Alliances = {} /\ None \notin Corps \cup Alliances

VARIABLES table,   \* the rows of corporations and alliances
          fate,    \* what became of the organisations in EVE
          ops,     \* what each worker is doing
          begun

orgVars == <<table, fate, ops, begun>>
vars == <<clientVars, orgVars>>

Orgs == Corps \cup Alliances
Closed(row) == row # None /\ row.closed
Named(row) == row # None /\ row.named
Counted(row) == row # None /\ row.counted
BlankRow == [named |-> FALSE, closed |-> FALSE, counted |-> FALSE]

OrgInit ==
  /\ Init
  /\ table = [o \in Orgs |-> None]
  /\ fate = [o \in Orgs |-> "lives"]
  /\ ops = [s \in Callers |-> None]
  /\ begun = 0

(* An operation is at a step and about an organisation.  unaware: the      *)
(* organisations marked as closed since it began, and those whose marks it *)
(* failed to read.                                                         *)
Op(do, at, org) ==
  [do |-> do, at |-> at, org |-> org, phase |-> "none", found |-> {}, todo |-> {},
   snap |-> None, news |-> {}, write |-> "open", orig |-> None, unaware |-> {}]

OpAt(s, at) == ops[s] # None /\ ops[s].at = at
Goes(s, op) == ops' = [ops EXCEPT ![s] = op]
At(s, at) == [ops[s] EXCEPT !.at = at]
Marks(s) == [ops[s] EXCEPT !.at = "find", !.write = "close"]
Opens(s) == [ops[s] EXCEPT !.at = "find", !.write = "open"]
(* A search goes on with what it found, the others are over. *)
GoesOn(s) ==
  IF ops[s].do = "search"
  THEN [At(s, "next") EXCEPT !.org = None, !.orig = None, !.write = "open"] ELSE None

-----------------------------------------------------------------------------
(* The calls of the operations. *)
Asks(s, client, what) ==
  Enter(s, client, what, TRUE) /\ UNCHANGED <<now, faults, throttleVars, affiliationVars>>
Hears(s) ==
  /\ CallAt(s, "done") /\ Leave(s)
  /\ UNCHANGED <<now, faults, throttleVars, affiliationVars>>
Quiet == UNCHANGED clientVars

(* The database may fail; what fails together counts as one failure.       *)
Fault(fails) ==
  /\ fails => faults < MaxFaults
  /\ faults' = IF fails THEN faults + 1 ELSE faults
  /\ UNCHANGED <<now, throttleVars, affiliationVars>>

(* A read that fails is taken for one that finds nothing: by IsOrgClosed,  *)
(* which an alliance's lookup asks before it reads the row once more, by   *)
(* GetOrg and by GetOrgCacheEntries.                                       *)
Unmarked(row) == IF row = None THEN None ELSE [row EXCEPT !.closed = FALSE]
Misread(o) == {None} \cup (IF o \in Alliances THEN {Unmarked(table[o])} ELSE {})
Without(missed, rows) == [o \in Orgs |-> IF o \in missed THEN None ELSE rows[o]]
Overlooked(rows, read) == {o \in Orgs : Closed(rows[o]) /\ ~Closed(read[o])}

Asking == {"search", "details", "members", "profile"}
(* A corporation that was closed may still be known, without members.      *)
AnswerOf(s) ==
  IF calls[s].what = "search" \/ fate[ops[s].org] = "lives" THEN "ok"
  ELSE IF calls[s].what = "profile" THEN fate[ops[s].org] ELSE "notfound"

SendForOp(s) ==
  /\ CallAt(s, "wait") /\ calls[s].what \in Asking
  /\ SendWith(s, {AnswerOf(s)})
  /\ UNCHANGED orgVars

-----------------------------------------------------------------------------
(* SetOrgClosed and UpsertOrg, UpsertCorporationProfile: find the row, ... *)
FindRow(s) ==
  /\ OpAt(s, "find")
  /\ Goes(s, [ops[s] EXCEPT !.at = "save", !.orig = table[ops[s].org]])
  /\ Quiet /\ UNCHANGED <<table, fate, begun>>

(* ... set its columns, and save those that changed.  A new row is refused *)
(* when there is one by now.                                               *)
Written(op) ==
  LET old == IF op.orig = None THEN BlankRow ELSE op.orig IN
  IF op.write = "close" THEN [old EXCEPT !.closed = TRUE]
  ELSE [old EXCEPT !.closed = FALSE, !.named = TRUE]
Merged(row, old, new) ==
  [col \in DOMAIN new |-> IF new[col] # old[col] THEN new[col] ELSE row[col]]
Saved(op) ==
  IF op.orig = None
  THEN IF table[op.org] = None THEN Written(op) ELSE table[op.org]
  ELSE Merged(table[op.org], op.orig, Written(op))

(* The errors of saves are ignored.  The others learn by "unaware" which   *)
(* organisations were marked behind their back.                            *)
AfterSave(s) ==
  LET op == ops[s] IN
  IF op.do = "structure" /\ op.org \in Corps THEN [At(s, "parent") EXCEPT !.orig = None]
  ELSE IF op.do = "structure" /\ op.phase # "again"
  THEN [At(s, "find") EXCEPT !.phase = "again", !.orig = None]
  ELSE GoesOn(s)

SaveRow(s) ==
  LET o == ops[s].org IN
  /\ OpAt(s, "save")
  /\ \/ table' = [table EXCEPT ![o] = Saved(ops[s])] /\ Quiet
     \/ /\ faults < MaxFaults /\ faults' = faults + 1
        /\ UNCHANGED <<table, now, calls, throttleVars, affiliationVars>>
  /\ ops' = [t \in Callers |->
       IF t = s THEN AfterSave(s)
       ELSE IF ops[t] # None /\ Closed(table'[o]) /\ ~Closed(table[o])
       THEN [ops[t] EXCEPT !.unaware = @ \cup {o}] ELSE ops[t]]
  /\ UNCHANGED <<fate, begun>>

-----------------------------------------------------------------------------
Begin(s, op) ==
  /\ ops[s] = None /\ calls[s] = None /\ begun < MaxOps
  /\ begun' = begun + 1
  /\ Goes(s, op)
  /\ UNCHANGED <<table, fate>>

(* Logins, refreshes, the feed, timers and discoveries want an             *)
(* organisation; a structure's corporation is wanted with its alliance.    *)
BeginLookup(s, o) == Begin(s, Op("lookup", "look", o)) /\ Quiet
BeginStructure(s, o) == o \in Corps /\ Begin(s, Op("structure", "look", o)) /\ Quiet

(* refreshOwnerCorporationAlliance asks ESI whatever the cache says. *)
BeginOwner(s, o) ==
  o \in Corps /\ Begin(s, Op("owner", "asked", o)) /\ Asks(s, "public", "profile")

(* searchEntitiesFromAuthenticatedSearch *)
BeginSearch(s) == Begin(s, Op("search", "asked", None)) /\ Asks(s, "direct", "search")

\* Mutant: the mark in the row that was read is not looked at.
MarkIgnored(row) == FALSE
Skipped(row) == Closed(row)

(* GetOrFetchAlliance and GetOrFetchCorporation: a closed row or a named   *)
(* one is the answer.  A search marks the closed alliance again, and a     *)
(* structure's alliance is written once more.                              *)
LookUp(s) ==
  /\ OpAt(s, "look")
  /\ UNCHANGED <<table, fate, begun>>
  /\ \E row \in {table[ops[s].org]} \cup Misread(ops[s].org) :
       LET o == ops[s].org
           hidden == Overlooked(table, [table EXCEPT ![o] = row])
           Proceeds(op) == Goes(s, IF op = None THEN None
                                   ELSE [op EXCEPT !.unaware = @ \cup hidden]) IN
       /\ Fault(row # table[o])
       /\ IF Skipped(row)
          THEN UNCHANGED calls /\ Proceeds(IF ops[s].do = "search" THEN Marks(s) ELSE GoesOn(s))
          ELSE IF Named(row)
          THEN /\ UNCHANGED calls
               /\ Proceeds(IF ops[s].do # "structure" THEN GoesOn(s)
                           ELSE IF o \in Corps THEN At(s, "parent")
                           ELSE [Opens(s) EXCEPT !.phase = "again"])
          ELSE /\ Enter(s, "public", IF o \in Corps THEN "profile" ELSE "details", TRUE)
               /\ Proceeds(At(s, "asked"))

(* The answer comes to one who wanted the organisation.  Only a search     *)
(* marks what was not found; and only a search takes a corporation without *)
(* members for closed.                                                     *)
AnswerToLookup(s) ==
  /\ OpAt(s, "asked") /\ ops[s].phase # "alliances"
  /\ ops[s].do = "search" => calls[s].what = "details"
  /\ Hears(s)
  /\ Goes(s, CASE calls[s].said \in {"ok", "empty"} -> Opens(s)
               [] calls[s].said = "notfound" /\ ops[s].do = "search" -> Marks(s)
               [] OTHER -> GoesOn(s))
  /\ UNCHANGED <<table, fate, begun>>

(* The corporation's profile names an alliance, or none. *)
ToParent(s) ==
  /\ OpAt(s, "parent")
  /\ \/ Goes(s, GoesOn(s))
     \/ \E a \in Alliances : Goes(s, [At(s, "look") EXCEPT !.org = a])
  /\ Quiet /\ UNCHANGED <<table, fate, begun>>

-----------------------------------------------------------------------------
(* The search names organisations; the rows of the alliances among them    *)
(* are read at once.                                                       *)
SearchAnswered(s) ==
  /\ OpAt(s, "asked") /\ calls[s].what = "search" /\ CallAt(s, "done")
  /\ Leave(s)
  /\ IF calls[s].said = "failed" THEN Goes(s, None) /\ Fault(FALSE)
     ELSE \E found \in SUBSET Orgs \ {{}} : \E missed \in SUBSET (found \cap Alliances) :
            LET read == Without(missed, table) IN
            /\ Fault(read # table)
            /\ Goes(s, [At(s, "next") EXCEPT !.phase = "alliances", !.found = found,
                          !.todo = found \cap Alliances, !.snap = read,
                          !.unaware = @ \cup Overlooked(table, read)])
  /\ UNCHANGED <<table, fate, begun>>

News(s, o, counted) == ops[s].news \cup {<<o, counted>>}

NextAlliance(s) ==
  /\ OpAt(s, "next") /\ ops[s].phase = "alliances"
  /\ \E o \in ops[s].todo :
       LET row == ops[s].snap[o]
           op == [ops[s] EXCEPT !.todo = @ \ {o}, !.org = o] IN
       IF Skipped(row) THEN Goes(s, [op EXCEPT !.org = None]) /\ Quiet
       ELSE IF Named(row) /\ Counted(row)
       THEN Goes(s, [op EXCEPT !.org = None, !.news = News(s, o, TRUE)]) /\ Quiet
       ELSE /\ Goes(s, [op EXCEPT !.at = "asked"])
            /\ Asks(s, "public", IF Named(row) THEN "members" ELSE "details")
  /\ UNCHANGED <<table, fate, begun>>

DetailsOfMatch(s) ==
  /\ OpAt(s, "asked") /\ ops[s].phase = "alliances" /\ calls[s].what = "details"
  /\ CallAt(s, "done")
  /\ IF calls[s].said = "ok"
     THEN Asks(s, "public", "members") /\ UNCHANGED ops
     ELSE Hears(s) /\ Goes(s, IF calls[s].said = "notfound" THEN Marks(s) ELSE GoesOn(s))
  /\ UNCHANGED <<table, fate, begun>>

(* An alliance whose corporations cannot be counted is kept. *)
MembersOfMatch(s) ==
  LET said == calls[s].said IN
  /\ OpAt(s, "asked") /\ ops[s].phase = "alliances" /\ calls[s].what = "members"
  /\ Hears(s)
  /\ Goes(s, IF said = "notfound" THEN Marks(s)
             ELSE [GoesOn(s) EXCEPT !.news = News(s, ops[s].org, said = "ok")])
  /\ UNCHANGED <<table, fate, begun>>

(* UpsertAllianceProfiles, UpsertCorporationProfiles: statements that fail *)
(* or write every column of their rows, old or new.                        *)
Upserted(news) ==
  [o \in Orgs |->
     IF \E c \in BOOLEAN : <<o, c>> \in news
     THEN [named |-> TRUE, closed |-> FALSE, counted |-> <<o, TRUE>> \in news]
     ELSE table[o]]

(* The alliances that were kept are written, or some, if a statement       *)
(* fails; then the rows of the corporations are read.                      *)
UpsertAlliances(s) ==
  /\ OpAt(s, "next") /\ ops[s].phase = "alliances" /\ ops[s].todo = {}
  /\ \E written \in SUBSET ops[s].news, missed \in SUBSET (ops[s].found \cap Corps) :
       LET read == Without(missed, table') IN
       /\ table' = Upserted(written)
       /\ Fault(written # ops[s].news \/ read # table')
       /\ Goes(s, [ops[s] EXCEPT !.phase = "corporations", !.found = {}, !.news = {},
                     !.todo = ops[s].found \cap Corps, !.snap = read,
                     !.unaware = @ \cup Overlooked(table', read)])
  /\ UNCHANGED <<calls, fate, begun>>

NextCorporation(s) ==
  /\ OpAt(s, "next") /\ ops[s].phase = "corporations"
  /\ \E o \in ops[s].todo :
       LET row == ops[s].snap[o]
           op == [ops[s] EXCEPT !.todo = @ \ {o}, !.org = o] IN
       IF Skipped(row) THEN Goes(s, [op EXCEPT !.org = None]) /\ Quiet
       ELSE IF Named(row) THEN Goes(s, [op EXCEPT !.at = "parent"]) /\ Quiet
       ELSE Goes(s, [op EXCEPT !.at = "asked"]) /\ Asks(s, "public", "profile")
  /\ UNCHANGED <<table, fate, begun>>

\* Mutant: a corporation that could not be asked about is taken for closed.
AnyRefusal(said) == said # "ok"
TakenForClosed(said) == said \in {"notfound", "empty"}

ProfileOfMatch(s) ==
  LET said == calls[s].said IN
  /\ OpAt(s, "asked") /\ ops[s].phase = "corporations" /\ calls[s].what = "profile"
  /\ Hears(s)
  /\ Goes(s, CASE TakenForClosed(said) -> Marks(s)
               [] said = "ok" -> [At(s, "parent") EXCEPT !.news = News(s, ops[s].org, FALSE)]
               [] OTHER -> GoesOn(s))
  /\ UNCHANGED <<table, fate, begun>>

(* Of the corporations asked about, those that are listed are written. *)
UpsertCorporations(s) ==
  /\ OpAt(s, "next") /\ ops[s].phase = "corporations" /\ ops[s].todo = {}
  /\ \E listed \in SUBSET ops[s].news : table' = Upserted(listed)
  /\ Goes(s, None)
  /\ Quiet /\ UNCHANGED <<fate, begun>>

-----------------------------------------------------------------------------
(* An organisation ends.  (Corporations can be "empty" in ESI's answers.)  *)
Disband(o) ==
  /\ fate[o] = "lives"
  /\ \E f \in {"notfound"} \cup (IF o \in Corps THEN {"empty"} ELSE {}) :
       fate' = [fate EXCEPT ![o] = f]
  /\ UNCHANGED <<clientVars, table, ops, begun>>

WorkerStep(s) ==
  \/ \E o \in Orgs : BeginLookup(s, o) \/ BeginStructure(s, o) \/ BeginOwner(s, o)
  \/ BeginSearch(s) \/ SendForOp(s)
  \/ FindRow(s) \/ SaveRow(s) \/ LookUp(s) \/ AnswerToLookup(s) \/ ToParent(s)
  \/ SearchAnswered(s) \/ NextAlliance(s) \/ DetailsOfMatch(s) \/ MembersOfMatch(s)
  \/ UpsertAlliances(s) \/ NextCorporation(s) \/ ProfileOfMatch(s)
  \/ UpsertCorporations(s)

(* The steps of the client; affiliations and what is asked for once are    *)
(* the requests of callers that run no operation.                          *)
CallStep(s) ==
  \/ /\ LookAtThrottle(s) \/ GiveUp(s) \/ Receive(s)
        \/ SendAffiliation(s) \/ ReceiveAffiliation(s)
        \/ SendDirect(s) \/ RequestEnds(s)
     /\ UNCHANGED orgVars
  \/ /\ ops[s] = None /\ begun < MaxOps /\ begun' = begun + 1
     /\ AskAffiliation(s) \/ AskDirect(s)
     /\ UNCHANGED <<table, fate, ops>>

Next ==
  \/ \E s \in Callers : WorkerStep(s) \/ CallStep(s)
  \/ \E o \in Orgs : Disband(o)
  \/ (Move \/ Tick) /\ UNCHANGED orgVars

Spec == OrgInit /\ [][Next]_vars

-----------------------------------------------------------------------------
(* Types. *)
Answers == {"ok", "same", "busy", "lost", "failed", "notfound", "empty"}
Calls ==
  [client : Clients, what : Asking \cup AskedOnce \cup {"affiliation"}, again : BOOLEAN,
   at : {"look", "wait", "sent", "done"}, until : Nat, tries : 0..Retries, sent : Nat,
   said : Answers \cup {None}, value : Nat, hold : Nat, still : BOOLEAN]
Entries == [value : Nat, expires : Nat]
Rows == [named : BOOLEAN, closed : BOOLEAN, counted : BOOLEAN]
Tables == [Orgs -> Rows \cup {None}]
Ops ==
  [do : {"lookup", "structure", "owner", "search"},
   at : {"look", "asked", "find", "save", "parent", "next"}, org : Orgs \cup {None},
   phase : {"none", "again", "alliances", "corporations"}, found : SUBSET Orgs,
   todo : SUBSET Orgs, snap : Tables \cup {None}, news : SUBSET (Orgs \X BOOLEAN),
   write : {"open", "close"}, orig : Rows \cup {None}, unaware : SUBSET Orgs]
ASSUME NoneIsNothing ==
  None \notin Answers /\ None \notin Calls /\ None \notin Entries /\ None \notin Rows
  /\ None \notin Ops

ClientTypes ==
  /\ now \in Nat /\ faults \in Nat /\ moves \in Nat
  /\ till \in [Clients -> Nat] /\ told \in [Clients -> Nat] /\ unheard \subseteq Clients
  /\ calls \in [Callers -> Calls \cup {None}]
  /\ leftAt \in Seq(Nat) /\ Len(leftAt) = moves
  /\ entry \in Entries \cup {None}
OrgTypes ==
  /\ table \in Tables
  /\ fate \in [Orgs -> {"lives", "notfound", "empty"}]
  /\ ops \in [Callers -> Ops \cup {None}]
  /\ begun \in Nat

(* Where an operation has which of its parts.                              *)
InNews(op, o) == \E counted \in BOOLEAN : <<o, counted>> \in op.news
Filled(op) ==
  /\ op.at \in {"look", "find", "save", "parent"} => op.org \in Orgs
  /\ op.at \in {"look", "parent"} => op.phase # "alliances"
  /\ op.at = "next" => op.phase \in {"alliances", "corporations"}
  /\ op.at = "asked" => op.org \in Orgs \/ (op.do = "search" /\ op.phase = "none")
  /\ op.at = "asked" /\ op.phase = "alliances" => op.org \in Alliances
  /\ op.at \in {"look", "find", "save", "parent"} /\ op.do = "search" =>
       op.phase \in {"alliances", "corporations"}
  /\ CASE op.phase = "alliances" ->
            /\ op.do = "search" /\ op.snap \in Tables /\ op.todo \subseteq Alliances
            /\ \A o \in Orgs : InNews(op, o) => o \in Alliances
       [] op.phase = "corporations" ->
            /\ op.do = "search" /\ op.snap \in Tables /\ op.todo \subseteq Corps
            /\ \A o \in Orgs : InNews(op, o) => o \in Corps
       [] OTHER ->
            /\ op.phase = "again" => op.do = "structure"
            /\ op.todo = {} /\ op.news = {}

(* An operation asks about, marks and keeps an organisation one by one.    *)
Apart(op) ==
  /\ op.at \in {"look", "asked", "find", "save"} /\ op.org \in Orgs =>
       op.org \notin op.todo /\ ~InNews(op, op.org)
  /\ \A o \in op.todo : ~InNews(op, o)

(* What an operation is about to mark is gone.                             *)
MarksGone(op, f) ==
  op.at \in {"find", "save"} /\ op.write = "close" => f[op.org] # "lives"
(* What it has found is still there; what it is about to write as open,    *)
(* was open when it began to look or it knows better.                      *)
Informed(op, rows) ==
  /\ op.at = "save" /\ op.orig # None => rows[op.org] # None
  /\ /\ op.do # "owner" /\ op.org \in Orgs /\ op.org \notin op.unaware
     /\ op.at = "asked" \/ (op.at \in {"find", "save"} /\ op.write = "open")
     => ~Closed(rows[op.org])
  /\ \A o \in op.todo \ op.unaware : Closed(rows[o]) => Closed(op.snap[o])
  /\ \A o \in Orgs \ op.unaware : InNews(op, o) => ~Closed(rows[o])
OpsInv ==
  \A s \in Callers : ops[s] # None =>
    /\ Filled(ops[s]) /\ Apart(ops[s])
    /\ MarksGone(ops[s], fate) /\ Informed(ops[s], table)

(* The call an operation waits for is about its organisation.              *)
AsksFor(call, op, f) ==
  call # None /\ call.what \in Asking =>
    /\ op # None /\ op.at = "asked"
    /\ call.what = "search" <=> op.do = "search" /\ op.phase = "none"
    /\ call.what # "search" => op.org \in Orgs
    /\ call.what = "profile" => op.org \in Corps
    /\ call.what # "search" /\ call.said \in {"notfound", "empty"} => f[op.org] # "lives"
AskedInv == \A s \in Callers : AsksFor(calls[s], ops[s], fate)

-----------------------------------------------------------------------------
(* An organisation that was marked as closed is offered again only by      *)
(* an operation that began before the mark was written or failed to read   *)
(* it, or by the discovery of jumpbridges, which writes an owner's         *)
(* corporation whatever its row says.                                      *)
ClosedStaysClosed ==
  [][\A o \in Orgs :
       Closed(table[o]) /\ ~Closed(table'[o]) =>
         \E s \in Callers :
           /\ ops[s] # None /\ ops'[s] # ops[s]
           /\ o \in ops[s].unaware \/ ops[s].do = "owner"]_<<table, ops>>

(* A mark hides an organisation for good, so it is for those alone that    *)
(* exist no more: no failed request, and no answer that was meant for      *)
(* another organisation, leaves one.                                       *)
OnlyTheGoneAreClosed == \A o \in Orgs : Closed(table[o]) => fate[o] # "lives"
=============================================================================
