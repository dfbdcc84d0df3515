-------------------------- MODULE CharacterAccounts --------------------------
(***************************************************************************)
(* Accounts and characters of an instance that logs in with EVE: the       *)
(* callbacks of login and linking and the refresh of a character's tokens  *)
(* (src/backend/internal/auth/eve.go, character_refresh.go), the removal   *)
(* of a character by its owner (api/auth/handler.go) and the administrator *)
(* requests that remove, move, merge, crown and revoke                     *)
(* (api/admin/handler.go).                                                 *)
(*                                                                         *)
(* An account is found in two ways: by the owner written in a character's  *)
(* row, and, when the character has no row, by the account's sub column,   *)
(* the character it was last named after.  A handler loads rows, waits for *)
(* the provider or for ESI, and saves what it changed: a save writes the   *)
(* columns in which the record differs from what was loaded, writes        *)
(* nothing when the row is gone, and fails when the record names an owner  *)
(* that does not exist.  The provider replaces a refresh token whenever it *)
(* is used.  An affiliation is whether the corporation or the alliance is  *)
(* on an allow list; a token is a number, used again once nobody holds it. *)
(***************************************************************************)
EXTENDS Naturals, FiniteSets

CONSTANTS Chars,       \* EVE characters
          Users,       \* identifiers of accounts
          Slots,       \* handlers that run at once
          None,        \* no row, no account, no token
          MaxEvents,   \* bound: operations begun, and failures
          MaxAlone     \* bound: the same, as long as no two handlers have overlapped

ASSUME AccountsAssumption ==
  /\ None \notin Chars \cup Users \cup Slots
  /\ MaxAlone \in Nat /\ MaxEvents \in 0..MaxAlone

VARIABLES users,     \* the sub of each account, None when there is none
          uploads,   \* the uploader tokens of each account
          rows,      \* the characters table
          accepted,  \* refresh tokens the provider accepts
          allowed,   \* characters whose corporation or alliance is allowed
          ops,       \* what each handler is doing
          events,    \* operations begun and failures so far
          crossed,   \* history: some handler began while another ran
          astray,    \* history: accounts that left their order for a known cause, before that
          revoked,   \* history: characters whose tokens were revoked
          dropped    \* history: characters whose new token was thrown away

vars == <<users, uploads, rows, accepted, allowed, ops, events, crossed, astray, revoked, dropped>>
history == <<crossed, astray, revoked, dropped>>

Retries == 2
Tokens  == 1..(MaxAlone + Retries + 2)
Row == [id : 0..MaxAlone, user : Users, main : BOOLEAN, tok : Tokens \cup {None},
        valid : BOOLEAN, aff : BOOLEAN]
ASSUME NoneIsNothing == None \notin Tokens /\ None \notin Row
Idle == [do |-> "none"]

Owned(u)   == {c \in Chars : rows[c] # None /\ rows[c].user = u}
MainsOf(u) == {c \in Owned(u) : rows[c].main}

(* The handlers at work on character c; the copies of its row they hold.   *)
Busy(c) == {s \in Slots : ops[s] # Idle /\ ops[s].char = c}
Copies(op, c) ==
  (IF op.char = c THEN {op.orig, op.cur} ELSE {})
  \cup (IF op.main = c THEN {op.cur} ELSE {})
  \cup (IF c \in DOMAIN op.list THEN {op.list[c]} ELSE {})
Held(c) == (UNION {Copies(ops[s], c) : s \in {z \in Slots : ops[z] # Idle}}) \ {None}

(* Accounts some handler's copies name: their identifiers are not given to *)
(* a new account.                                                          *)
Remembered == {ops[s].user : s \in {z \in Slots : ops[z] # Idle}}
              \cup {r.user : r \in UNION {Held(c) : c \in Chars}}

(* The next token and the next identifier; there always is one.            *)
Smallest(S) == {n \in S : \A m \in S : n <= m}

FreshTokens(c) ==
  Smallest(Tokens \ (accepted[c] \cup {r.tok : r \in Held(c) \cup ({rows[c]} \ {None})}
                     \cup {ops[s].tok : s \in Busy(c)}))
FreshIds(c) == Smallest((0..MaxAlone) \ {r.id : r \in Held(c)})

-----------------------------------------------------------------------------
(* Every account has one main and is named after it.  Its uploader tokens  *)
(* may have been revoked and cleaned up, and characters may have left      *)
(* their corporation since their rows were written, but not all of them.   *)
Init ==
  /\ rows \in [Chars -> {None} \cup
       [id : {0}, user : Users, main : BOOLEAN, tok : {1}, valid : {TRUE}, aff : {TRUE}]]
  /\ \A u \in Users : Owned(u) # {} => \E c \in Chars : MainsOf(u) = {c}
  /\ users = [u \in Users |-> IF Owned(u) = {} THEN None
                              ELSE CHOOSE c \in MainsOf(u) : TRUE]
  /\ \E held \in {"live", "gone"} :
       uploads = [u \in Users |-> IF Owned(u) = {} THEN "gone" ELSE held]
  /\ accepted = [c \in Chars |-> IF rows[c] = None THEN {} ELSE {1}]
  /\ allowed \in SUBSET Chars \ {{}}
  /\ ops = [s \in Slots |-> Idle]
  /\ events = 0
  /\ crossed = FALSE /\ astray = {} /\ dropped = {}
  /\ revoked = [c \in Chars |-> "no"]

-----------------------------------------------------------------------------
(* What a handler holds: the account it works for and the sub of that      *)
(* account's record, the character, its row as loaded (orig) and as        *)
(* changed since (cur), the token it got, the main it found, the rows it   *)
(* still has to save, its attempts, and whether a revocation came after it *)
(* had loaded.                                                             *)
Op(do, at, u, c, orig) ==
  [do |-> do, at |-> at, user |-> u, sub |-> None, char |-> c, orig |-> orig,
   cur |-> orig, tok |-> None, aff |-> FALSE, main |-> None, list |-> <<>>,
   tries |-> 0, late |-> FALSE]

(* A handler begins; misses: how many of its first lookups failed.         *)
Begin(s, op, misses) ==
  /\ ops[s] = Idle
  /\ crossed' = (crossed \/ \E z \in Slots : ops[z] # Idle)
  /\ events' = events + 1 + misses
  /\ events' <= (IF crossed' THEN MaxEvents ELSE MaxAlone)
  /\ ops' = [ops EXCEPT ![s] = op]

At(s, at) == ops[s] # Idle /\ ops[s].at = at
Go(s, op) == ops' = [ops EXCEPT ![s] = op]
End(s)    == Go(s, Idle)

Fault == /\ events < (IF crossed THEN MaxEvents ELSE MaxAlone)
         /\ events' = events + 1

(* Until handlers overlap, history tells which accounts left their order.  *)
Astray(u) == IF crossed THEN astray ELSE astray \cup {u}

CanSave(r) == users[r.user] # None

(* The row that was loaded as r is still there. *)
Present(c, r) == rows[c] # None /\ rows[c].id = r.id

(* The table once the record that was loaded as orig and is now cur is     *)
(* saved.                                                                  *)
Written(c, orig, cur) ==
  IF ~Present(c, orig) THEN rows
  ELSE [rows EXCEPT ![c] = [f \in DOMAIN @ |->
                              IF cur[f] # orig[f] THEN cur[f] ELSE @[f]]]

(* Token t is stored: if the provider accepts it nothing is lost any more, *)
(* and if it comes from before a revocation, the revocation is undone.     *)
TokenStored(o, t) ==
  /\ dropped' = IF t \in accepted[o.char] THEN dropped \ {o.char}
                                          ELSE dropped \cup {o.char}
  /\ revoked' = [revoked EXCEPT ![o.char] =
                   IF o.late /\ @ = "yes" THEN "overtaken" ELSE @]

(* The handler saves the row of its character. *)
Save(o, cur) ==
  /\ rows' = Written(o.char, o.orig, cur)
  /\ IF Present(o.char, o.orig) /\ cur.tok # o.orig.tok THEN TokenStored(o, cur.tok)
                                                        ELSE UNCHANGED <<revoked, dropped>>

(* updateUserFromCharacter: the account takes the name of character m; the *)
(* index on the column refuses a name another account has.                 *)
NameTaken(o, m) == o.sub # m /\ \E v \in Users \ {o.user} : users[v] = m
Name(o, m) == users' = IF o.sub = m \/ users[o.user] = None THEN users
                       ELSE [users EXCEPT ![o.user] = m]

(* deleteUserIfNoCharacters: the uploader tokens refer to their account    *)
(* and are not deleted with it, so the deletion fails while there are any. *)
Close(u) == users' = IF Owned(u) = {} /\ uploads[u] = "gone"
                     THEN [users EXCEPT ![u] = None] ELSE users

-----------------------------------------------------------------------------
(* A callback: the code is exchanged for tokens and the character's row is *)
(* read, before anything is known of account or affiliation.  A row that   *)
(* cannot be read is taken for none.                                       *)
BeginCallback(s, do, u, c) ==
  /\ \E n \in FreshTokens(c), row \in {rows[c], None} :
       /\ Begin(s, [Op(do, "affiliation", u, c, row) EXCEPT !.tok = n],
                IF row = rows[c] THEN 0 ELSE 1)
       /\ accepted' = [accepted EXCEPT ![c] = @ \cup {n}]
  /\ revoked' = [revoked EXCEPT ![c] = "no"]
  /\ UNCHANGED <<users, uploads, rows, allowed, astray, dropped>>

BeginLogin(s, c)   == BeginCallback(s, "login", None, c)
BeginLink(s, u, c) == users[u] # None /\ BeginCallback(s, "link", u, c)

(* resolveCharacterAffiliationForCallback: what ESI says, or what the copy *)
(* says when ESI does not answer.                                          *)
Affiliation(s) ==
  LET o == ops[s]
      Next_(aff) == Go(s, [o EXCEPT !.aff = aff,
                             !.at = IF o.do = "link" THEN "link" ELSE "account"]) IN
  /\ At(s, "affiliation")
  /\ \/ Next_(o.char \in allowed) /\ UNCHANGED events
     \/ Fault /\ IF o.orig = None THEN End(s) ELSE Next_(o.orig.aff)
  /\ UNCHANGED <<users, uploads, rows, accepted, allowed, history>>

(* What upsertCharacter sets in the record. *)
Upserted(o, r, main) == [r EXCEPT !.main = main, !.tok = o.tok, !.valid = TRUE,
                                  !.aff = o.aff]

(* userForLogin: the owner in the copy; for a character without a row, the *)
(* account named after it, which is created if there is none, with an      *)
(* uploader token.                                                         *)
FindAccount(s) ==
  LET o == ops[s]
      With(u, sub, at) == Go(s, [o EXCEPT !.user = u, !.sub = sub, !.at = at])
      named == {u \in Users : users[u] = o.char} IN
  /\ At(s, "account")
  /\ \/ /\ o.orig # None
        /\ IF users[o.orig.user] = None THEN End(s)
           ELSE With(o.orig.user, users[o.orig.user], "upsert")
        /\ UNCHANGED <<users, uploads, astray>>
     \/ /\ o.orig = None /\ named # {}
        /\ \E u \in named : With(u, o.char, "insert")
        /\ UNCHANGED <<users, uploads, astray>>
     \/ /\ o.orig = None /\ named = {}
        /\ \E u \in {v \in Users : users[v] = None /\ v \notin Remembered} :
             /\ users' = [users EXCEPT ![u] = o.char]
             /\ uploads' = [uploads EXCEPT ![u] = "live"]
             /\ With(u, o.char, "insert")
             /\ astray' = astray \ {u}
  /\ UNCHANGED <<rows, accepted, allowed, events, crossed, revoked, dropped>>

(* The row of a character that had none when the handler looked; the index *)
(* on the character refuses a second one.                                  *)
InsertRow(o, main) ==
  \E n \in FreshIds(o.char) :
    rows' = [rows EXCEPT ![o.char] = [id |-> n, user |-> o.user, main |-> main,
                                      tok |-> o.tok, valid |-> TRUE, aff |-> o.aff]]
CanInsert(o) == rows[o.char] = None /\ users[o.user] # None

(* handleLoginNewCharacter: the new character becomes the main of the      *)
(* account that was found, without a look at the mains it has.             *)
InsertMain(s) ==
  LET o == ops[s] IN
  /\ At(s, "insert")
  /\ IF o.aff /\ CanInsert(o) THEN InsertRow(o, TRUE) /\ TokenStored(o, o.tok)
                              ELSE UNCHANGED <<rows, revoked, dropped>>
  /\ End(s)
  /\ UNCHANGED <<users, uploads, accepted, allowed, events,
                 crossed, astray>>

(* handleLoginExistingCharacter: the row is saved before access is checked. *)
UpsertRow(s) ==
  LET o == ops[s]
      cur == Upserted(o, o.orig, o.orig.main) IN
  /\ At(s, "upsert")
  /\ IF CanSave(cur)
     THEN Save(o, cur) /\ Go(s, [o EXCEPT !.at = "main", !.orig = cur])
     ELSE UNCHANGED <<rows, revoked, dropped>> /\ End(s)
  /\ UNCHANGED <<users, uploads, accepted, allowed, events,
                 crossed, astray>>

(* findMainCharacter: a lookup that fails is taken for one that finds      *)
(* nothing, so that the account gets a main beside the one it has.         *)
LookForMain(u, mains) ==
  /\ mains \in {MainsOf(u), {}}
  /\ IF mains = MainsOf(u) THEN UNCHANGED events ELSE Fault
Crowned(o, mains) ==
  astray' = IF mains # MainsOf(o.user) /\ ~(MainsOf(o.user) \subseteq {o.char})
            THEN Astray(o.user) ELSE astray

(* ensureMainCharacter: without a main in the account the character that   *)
(* logs in becomes it; another main is looked up at ESI.                   *)
EnsureMain(s) ==
  LET o == ops[s]
      cur == [o.orig EXCEPT !.main = TRUE] IN
  /\ At(s, "main")
  /\ \E mains \in {MainsOf(o.user), {}} :
       /\ LookForMain(o.user, mains)
       /\ \/ /\ mains = {} /\ o.aff /\ CanSave(cur)
             /\ rows' = Written(o.char, o.orig, cur)
             /\ Go(s, [o EXCEPT !.at = "name", !.main = o.char])
             /\ Crowned(o, mains)
          \/ /\ IF mains = {} THEN ~(o.aff /\ CanSave(cur)) /\ End(s)
                ELSE \E m \in mains :
                       IF m # o.char THEN Go(s, [o EXCEPT !.at = "mainaff", !.main = m,
                                                          !.cur = rows[m]])
                       ELSE IF o.aff THEN Go(s, [o EXCEPT !.at = "name", !.main = m])
                       ELSE End(s)
             /\ UNCHANGED <<rows, astray>>
  /\ UNCHANGED <<users, uploads, accepted, allowed, crossed, revoked, dropped>>

(* refreshMainAffiliation: the main decides; its stored affiliation does   *)
(* when ESI does not answer.                                               *)
RefreshMainAffiliation(s) ==
  LET o == ops[s]
      said == [o.cur EXCEPT !.aff = o.main \in allowed]
      Next_ == Go(s, [o EXCEPT !.at = "name"]) IN
  /\ At(s, "mainaff")
  /\ \/ /\ IF said.aff /\ CanSave(said)
           THEN rows' = Written(o.main, o.cur, said) /\ Next_
           ELSE UNCHANGED rows /\ End(s)
        /\ UNCHANGED events
     \/ /\ Fault /\ UNCHANGED rows
        /\ IF o.cur.aff THEN Next_ ELSE End(s)
  /\ UNCHANGED <<users, uploads, accepted, allowed, history>>

(* The last step of a login, of the linking of a main and of a main's      *)
(* refresh, after the row was saved.  If it fails the account keeps its    *)
(* name; a job marks the token invalid, which has just been stored.        *)
NameAccount(s) ==
  LET o == ops[s] IN
  /\ At(s, "name")
  /\ \/ ~NameTaken(o, o.main) /\ Name(o, o.main) /\ End(s) /\ UNCHANGED <<events, astray>>
     \/ /\ IF NameTaken(o, o.main) THEN UNCHANGED events ELSE Fault
        /\ astray' = IF o.sub = o.main THEN astray ELSE Astray(o.user)
        /\ IF o.do = "job" THEN Go(s, [o EXCEPT !.at = "mark"]) ELSE End(s)
        /\ UNCHANGED users
  /\ UNCHANGED <<uploads, rows, accepted, allowed, crossed, revoked, dropped>>

\* Mutant: a linked character becomes main whether or not the account has one.
AlwaysMain(o, mains) == TRUE
LinksAsMain(o, mains) == mains = {} \/ (o.orig # None /\ o.orig.main)

(* handleLinkCallback: the owner in the copy, the account and its main are *)
(* looked at; only a character that is to be main needs access.            *)
CheckLink(s) ==
  LET o == ops[s] IN
  /\ At(s, "link")
  /\ \E mains \in {MainsOf(o.user), {}} :
       LET main == LinksAsMain(o, mains) IN
       /\ LookForMain(o.user, mains)
       /\ IF \/ users[o.user] = None
             \/ o.orig # None /\ o.orig.user # o.user
             \/ main /\ ~o.aff
          THEN End(s) /\ UNCHANGED astray
          ELSE /\ Go(s, [o EXCEPT !.at = "store", !.sub = users[o.user],
                              !.main = IF main THEN o.char ELSE None])
               /\ Crowned(o, mains)
  /\ UNCHANGED <<users, uploads, rows, accepted, allowed, crossed, revoked, dropped>>

StoreLink(s) ==
  LET o == ops[s]
      main == o.main # None
      cur  == Upserted(o, o.orig, main) IN
  /\ At(s, "store")
  /\ IF IF o.orig = None THEN CanInsert(o) ELSE CanSave(o.orig)
     THEN /\ IF o.orig = None THEN InsertRow(o, main) /\ TokenStored(o, o.tok)
                               ELSE Save(o, cur)
          /\ IF main THEN Go(s, [o EXCEPT !.at = "name"]) ELSE End(s)
     ELSE UNCHANGED <<rows, revoked, dropped>> /\ End(s)
  /\ UNCHANGED <<users, uploads, accepted, allowed, events,
                 crossed, astray>>

-----------------------------------------------------------------------------
(* A refresh by a job, which loads its rows first and comes to this one    *)
(* later.  The cron's job skips a character with a running record, an      *)
(* administrator's refresh of all characters does not look for one.        *)
BeginRefresh(s, do, c) ==
  /\ rows[c] # None
  /\ Begin(s, [Op(do, "exchange", rows[c].user, c, rows[c])
                 EXCEPT !.sub = users[rows[c].user]], 0)
  /\ UNCHANGED <<users, uploads, rows, accepted, allowed, astray, revoked, dropped>>
BeginJobRefresh(s, c) == BeginRefresh(s, "job", c)

(* A request that needs a character's token and finds it expired.          *)
BeginRequestRefresh(s, c) ==
  rows[c] # None /\ rows[c].tok # None /\ BeginRefresh(s, "request", c)

(* A refresh that failed: the job marks the row, a request only answers;   *)
(* rotated is whether the provider has replaced the token by then.         *)
Failed(s, o, rotated) ==
  IF o.do = "job" THEN Go(s, [o EXCEPT !.at = "mark"]) /\ UNCHANGED dropped
  ELSE /\ End(s)
       /\ dropped' = IF rotated THEN dropped \cup {o.char} ELSE dropped

(* The job looks for the account, and goes on without it if that fails.    *)
(* The provider replaces the token of the copy, or refuses one that was    *)
(* used before.  Its answer may be lost, on the way there or back.         *)
ExchangeToken(s) ==
  LET o == ops[s]
      good == o.cur.tok \in accepted[o.char]
      Replace(n) == accepted' = [accepted EXCEPT ![o.char] = (@ \ {o.cur.tok}) \cup {n}] IN
  /\ At(s, "exchange")
  /\ \E n \in FreshTokens(o.char) :
     \/ /\ good /\ Replace(n) /\ UNCHANGED dropped
        /\ \/ /\ Go(s, [o EXCEPT !.at = "resolve", !.tok = n,
                          !.sub = IF o.do = "job" THEN users[o.user] ELSE @])
              /\ UNCHANGED events
           \/ /\ o.do = "job" /\ Fault
              /\ Go(s, [o EXCEPT !.at = "resolve", !.tok = n, !.sub = None])
     \/ ~good /\ Failed(s, o, FALSE) /\ UNCHANGED <<accepted, events>>
     \/ /\ good /\ Fault
        /\ \E replaced \in BOOLEAN :
             /\ IF replaced THEN Replace(n) ELSE UNCHANGED accepted
             /\ Failed(s, o, replaced)
  /\ UNCHANGED <<users, uploads, rows, allowed,
                 crossed, astray, revoked>>

(* resolveRefreshedCharacterData and ensureCharacterAccess: the new token  *)
(* is not stored yet.  The job revokes the uploader tokens of an account   *)
(* whose main is denied.                                                   *)
ResolveRefresh(s) ==
  LET o == ops[s]
      aff == o.char \in allowed IN
  /\ At(s, "resolve")
  /\ \/ /\ Fault /\ Failed(s, o, TRUE) /\ UNCHANGED uploads
     \/ /\ UNCHANGED events
        /\ IF o.orig.main /\ ~aff
           THEN /\ Failed(s, o, TRUE)
                /\ uploads' = IF o.do = "job" /\ uploads[o.user] = "live"
                              THEN [uploads EXCEPT ![o.user] = "revoked"] ELSE uploads
           ELSE /\ Go(s, [o EXCEPT !.at = "save", !.aff = aff,
                            !.cur = Upserted([o EXCEPT !.aff = aff], o.cur, o.cur.main)])
                /\ UNCHANGED <<uploads, dropped>>
  /\ UNCHANGED <<users, rows, accepted, allowed, crossed,
                 astray, revoked>>

SaveRefresh(s) ==
  LET o == ops[s] IN
  /\ At(s, "save")
  /\ \/ /\ CanSave(o.cur) /\ UNCHANGED events
        /\ Save(o, o.cur)
        /\ IF o.cur.main /\ o.sub # None
           THEN Go(s, [o EXCEPT !.at = "name", !.main = o.char, !.orig = o.cur])
           ELSE End(s)
     \/ /\ IF CanSave(o.cur) THEN Fault ELSE UNCHANGED events
        /\ Failed(s, o, TRUE)
        /\ UNCHANGED <<rows, revoked>>
  /\ UNCHANGED <<users, uploads, accepted, allowed, crossed, astray>>

(* What refreshAffiliationOnly sets. *)
\* Mutant: the affiliation is refreshed and the token stays marked valid.
UnmarkedRefusal(r, aff) == [r EXCEPT !.aff = aff]
Marked(r, aff) == [r EXCEPT !.valid = FALSE, !.aff = aff]

(* refreshAffiliationOnly: the row is marked, with whatever else the       *)
(* record holds by now.  Only if this save fails does the cron's job try   *)
(* the refresh again, with the same record.                                *)
MarkInvalid(s) ==
  LET o == ops[s] IN
  /\ At(s, "mark")
  /\ \/ /\ CanSave(o.cur)
        /\ \/ Save(o, Marked(o.cur, o.char \in allowed)) /\ UNCHANGED events
           \/ Save(o, Marked(o.cur, o.cur.aff)) /\ Fault
        /\ End(s)
     \/ /\ IF CanSave(o.cur) THEN Fault ELSE UNCHANGED events
        /\ \/ /\ o.tries < Retries
              /\ Go(s, [o EXCEPT !.at = "exchange", !.tries = @ + 1,
                                 !.cur = Marked(o.cur, o.char \in allowed)])
              /\ UNCHANGED dropped
           \/ End(s) /\ dropped' = dropped \cup {o.char}
        /\ UNCHANGED <<rows, revoked>>
  /\ UNCHANGED <<users, uploads, accepted, allowed, crossed, astray>>

-----------------------------------------------------------------------------
(* RemoveCharacter, of the owner and of the administrator: a main goes     *)
(* only as the last of its account, or when the query of the others fails. *)
BeginRemove(s, c) ==
  /\ rows[c] # None
  /\ Begin(s, Op("remove", "delete", rows[c].user, c, rows[c]),
           IF rows[c].main /\ Owned(rows[c].user) # {c} THEN 1 ELSE 0)
  /\ UNCHANGED <<users, uploads, rows, accepted, allowed, astray, revoked, dropped>>

DeleteRow(s) ==
  LET o == ops[s] IN
  /\ At(s, "delete")
  /\ rows' = IF Present(o.char, o.orig) THEN [rows EXCEPT ![o.char] = None] ELSE rows
  /\ IF o.orig.main THEN Go(s, [o EXCEPT !.at = "close"]) ELSE End(s)
  /\ UNCHANGED <<users, uploads, accepted, allowed, events, history>>

CloseAccount(s) ==
  /\ At(s, "close")
  /\ Close(ops[s].user)
  /\ End(s)
  /\ UNCHANGED <<uploads, rows, accepted, allowed, events, history>>

(* MoveCharacter and MergeUsers: to an account that has a main, where the  *)
(* characters arrive as others; then the source is closed if it is empty.  *)
BeginMove(s, u, v, cs) ==
  /\ users[u] # None /\ users[v] # None /\ MainsOf(v) # {}
  /\ Begin(s, [Op("move", "rows", u, None, None) EXCEPT
                 !.main = v, !.list = [c \in cs |-> rows[c]]], 0)
  /\ UNCHANGED <<users, uploads, rows, accepted, allowed, astray, revoked, dropped>>
MoveOne(s, c, v) == rows[c] # None /\ BeginMove(s, rows[c].user, v, {c})
MergeInto(s, u, v) == u # v /\ BeginMove(s, u, v, Owned(u))

(* SetMainCharacter: every row of the account is saved with its part; the  *)
(* name of the account stays.                                              *)
BeginSetMain(s, c) ==
  /\ rows[c] # None
  /\ Begin(s, [Op("crown", "rows", rows[c].user, None, None) EXCEPT
                 !.main = c, !.list = [d \in Owned(rows[c].user) |-> rows[d]]], 0)
  /\ astray' = IF crossed' THEN astray ELSE astray \cup {rows[c].user}
  /\ UNCHANGED <<users, uploads, rows, accepted, allowed, revoked, dropped>>

(* The next of the loaded rows is saved; the errors of a crowning are      *)
(* ignored.                                                                *)
SaveListed(s) ==
  LET o == ops[s]
      Rest(c) == [o EXCEPT !.list = [d \in DOMAIN o.list \ {c} |-> o.list[d]]] IN
  /\ At(s, "rows") /\ DOMAIN o.list # {}
  /\ \E c \in DOMAIN o.list :
       LET r   == o.list[c]
           cur == IF o.do = "crown" THEN [r EXCEPT !.main = c = o.main]
                  ELSE [r EXCEPT !.user = o.main, !.main = FALSE] IN
       \/ /\ CanSave(cur) /\ UNCHANGED events
          /\ rows' = Written(c, r, cur) /\ Go(s, Rest(c))
       \/ /\ IF CanSave(cur) THEN Fault ELSE UNCHANGED events
          /\ IF o.do = "crown" THEN Go(s, Rest(c)) ELSE End(s)
          /\ UNCHANGED rows
  /\ UNCHANGED <<users, uploads, accepted, allowed, history>>

ListSaved(s) ==
  LET o == ops[s] IN
  /\ At(s, "rows") /\ DOMAIN o.list = {}
  /\ IF o.do = "move" /\ o.user # o.main THEN Go(s, [o EXCEPT !.at = "close"])
                                         ELSE End(s)
  /\ UNCHANGED <<users, uploads, rows, accepted, allowed, events, history>>

(* clearCharacterTokens. *)
\* Mutant: the tokens are marked and kept.
MarkedOnly(r) == [r EXCEPT !.valid = FALSE]
Cleared(r) == [r EXCEPT !.tok = None, !.valid = FALSE]

(* RevokeCharacterTokens: the row forgets its tokens; the provider is not  *)
(* told.  A revocation writes nothing if it had read an empty row or if    *)
(* the row has been replaced.                                              *)
BeginRevoke(s, c) ==
  /\ rows[c] # None
  /\ Begin(s, Op("revoke", "clear", rows[c].user, c, rows[c]), 0)
  /\ UNCHANGED <<users, uploads, rows, accepted, allowed, astray, revoked, dropped>>

ClearTokens(s) ==
  LET o == ops[s]
      cur == Cleared(o.orig) IN
  /\ At(s, "clear")
  /\ IF CanSave(cur)
     THEN /\ rows' = Written(o.char, o.orig, cur)
          /\ revoked' = [revoked EXCEPT ![o.char] =
                           IF o.orig.tok # None /\ Present(o.char, o.orig)
                           THEN "yes" ELSE @]
          /\ ops' = [z \in Slots |->
                       IF z = s THEN Idle
                       ELSE IF ops[z] # Idle /\ ops[z].char = o.char
                       THEN [ops[z] EXCEPT !.late = TRUE] ELSE ops[z]]
     ELSE UNCHANGED <<rows, revoked>> /\ End(s)
  /\ UNCHANGED <<users, uploads, accepted, allowed, events,
                 crossed, astray, dropped>>

-----------------------------------------------------------------------------
(* The cleanup removes uploader tokens that were revoked.                  *)
SweepUploads(u) ==
  /\ uploads[u] = "revoked"
  /\ uploads' = [uploads EXCEPT ![u] = "gone"]
  /\ UNCHANGED <<users, rows, accepted, allowed, ops, events, history>>

(* A lookup or a save that ends the handler fails, or the process stops.   *)
(* A refresher loses the token it got.                                     *)
Refreshing(o) == /\ o.do \in {"job", "request"}
                 /\ o.at \in {"exchange", "resolve", "save", "mark"}
GiveUp(s) ==
  LET o == ops[s] IN
  /\ o # Idle /\ Fault
  /\ End(s)
  /\ dropped' = IF Refreshing(o) /\ (o.at = "exchange" => o.tries > 0)
                THEN dropped \cup {o.char} ELSE dropped
  /\ astray' = IF o.at = "name" /\ o.sub # o.main THEN Astray(o.user) ELSE astray
  /\ UNCHANGED <<users, uploads, rows, accepted, allowed, crossed, revoked>>

Start(s) ==
  \/ \E c \in Chars : \/ BeginLogin(s, c) \/ BeginJobRefresh(s, c)
                      \/ BeginRequestRefresh(s, c)
                      \/ BeginRemove(s, c) \/ BeginSetMain(s, c) \/ BeginRevoke(s, c)
  \/ \E u \in Users, c \in Chars : BeginLink(s, u, c) \/ MoveOne(s, c, u)
  \/ \E u, v \in Users : MergeInto(s, u, v)

Continue(s) ==
  \/ Affiliation(s) \/ FindAccount(s) \/ InsertMain(s) \/ UpsertRow(s)
  \/ EnsureMain(s) \/ RefreshMainAffiliation(s) \/ NameAccount(s)
  \/ CheckLink(s) \/ StoreLink(s)
  \/ ExchangeToken(s) \/ ResolveRefresh(s) \/ SaveRefresh(s) \/ MarkInvalid(s)
  \/ DeleteRow(s) \/ CloseAccount(s) \/ SaveListed(s) \/ ListSaved(s)
  \/ ClearTokens(s) \/ GiveUp(s)

Next == \/ \E s \in Slots : Start(s) \/ Continue(s)
        \/ \E u \in Users : SweepUploads(u)

Spec == Init /\ [][Next]_vars

-----------------------------------------------------------------------------
(* Types, and which parts of its record a handler has filled in where.     *)
Lists == UNION {[D -> Row] : D \in SUBSET Chars}
Ops ==
  [do : {"login", "link", "job", "request", "remove", "move", "crown", "revoke"},
   at : {"affiliation", "account", "insert", "upsert", "main", "mainaff", "name", "link",
         "store", "exchange", "resolve", "save", "mark", "delete", "close", "rows", "clear"},
   user : Users \cup {None}, sub : Chars \cup {None}, char : Chars \cup {None},
   orig : Row \cup {None}, cur : Row \cup {None}, tok : Tokens \cup {None},
   aff : BOOLEAN, main : Chars \cup Users \cup {None}, list : Lists,
   tries : 0..Retries, late : BOOLEAN]

HasRow(o) ==
  o.at \in {"upsert", "main", "mainaff", "exchange", "resolve", "save", "mark", "delete", "clear"}
Filled(o) ==
  /\ o.at \notin {"close", "rows"} => o.char \in Chars
  /\ o.at = "affiliation" => (o.do = "link" => o.user \in Users)
  /\ o.at \notin {"affiliation", "account"} => o.user \in Users
  /\ HasRow(o) => o.orig \in Row
  /\ o.at \in {"mainaff", "exchange", "resolve", "save", "mark"} => o.cur \in Row
  /\ o.at = "name" /\ o.do = "job" => o.orig \in Row /\ o.cur \in Row
  /\ o.at \in {"mainaff", "name"} => o.main \in Chars
  /\ o.at = "store" => o.main \in Chars \cup {None}
  /\ o.at = "rows" /\ o.do # "crown" => o.main \in Users
  /\ o.at \in {"affiliation", "account", "insert", "upsert", "main", "mainaff", "link", "store"}
       => o.do \in {"login", "link"}
  /\ o.at \in {"exchange", "resolve", "save", "mark"} => o.do \in {"job", "request"}
  /\ o.at \in {"delete", "close", "rows", "clear"} =>
       o.do \notin {"login", "link", "job", "request"}

TypeOK ==
  /\ users \in [Users -> Chars \cup {None}]
  /\ uploads \in [Users -> {"live", "revoked", "gone"}]
  /\ rows \in [Chars -> Row \cup {None}]
  /\ accepted \in [Chars -> SUBSET Tokens]
  /\ allowed \subseteq Chars
  /\ ops \in [Slots -> Ops \cup {Idle}]
  /\ events \in Nat
  /\ crossed \in BOOLEAN /\ astray \subseteq Users /\ dropped \subseteq Chars
  /\ revoked \in [Chars -> {"no", "yes", "overtaken"}]
OpsFilled == \A s \in Slots : ops[s] # Idle => Filled(ops[s])

-----------------------------------------------------------------------------
NamedByJob(o) == o.at = "name" /\ o.do = "job"

Quiet == \A s \in Slots : ops[s] = Idle

(* While handlers do not overlap, an account has at most one main and is   *)
(* named after it, but for accounts whose main an administrator chose,     *)
(* those whose naming failed after the main's row was saved (the save, or  *)
(* the process, or because another account still has the name), and those  *)
(* whose main a failed lookup took for missing when a character was made   *)
(* main.  The first two keep the name of a former main, who is found by it *)
(* when it logs in again without a row, and becomes main beside the other  *)
(* (handleLoginNewCharacter, updateUserFromCharacter).                     *)
AccountsAreInOrder ==
  Quiet /\ ~crossed =>
    \A u \in Users \ astray :
      /\ Cardinality(MainsOf(u)) <= 1
      /\ \A c \in MainsOf(u) : users[u] = c

(* Why: rows name accounts that exist, and accounts have names of their    *)
(* own.  A handler alone at work knows its rows as they are, if it could   *)
(* read them, and the account by its name; before it names the account,    *)
(* the main it has found or made is the only one, unless the account left  *)
(* its order before.                                                       *)
AccountsExist == \A c \in Chars : rows[c] # None => users[rows[c].user] # None
NamesDiffer == \A u, v \in Users : users[u] # None /\ users[u] = users[v] => u = v

Naming(o, u, c) == o.at = "name" /\ o.user = u /\ o.main = c /\ MainsOf(u) = {c}
Knows(o) ==
  /\ o.at \notin {"name", "close", "rows"} \/ NamedByJob(o) =>
       o.orig = rows[o.char] \/ (o.orig = None /\ o.do \in {"login", "link"})
  /\ o.at \in {"insert", "upsert", "main", "mainaff", "name", "store"} => o.sub = users[o.user]
  /\ Refreshing(o) => o.sub \in {users[o.user], None}
  /\ o.at = "insert" => users[o.user] = o.char
  /\ o.at \in {"upsert", "main", "exchange", "resolve", "save", "mark"} => o.orig.user = o.user
  /\ o.at = "mainaff" => o.cur = rows[o.main]
  /\ o.at \in {"mainaff", "name"} => o.main \in MainsOf(o.user)
  /\ o.at = "store" =>
       /\ o.orig # None => o.orig.user = o.user /\ (o.orig.main => o.main # None)
       /\ o.main # None => o.main = o.char /\ (o.user \in astray \/ MainsOf(o.user) \subseteq {o.char})
  /\ Refreshing(o) => /\ o.cur.id = o.orig.id /\ o.cur.user = o.orig.user
                       /\ o.cur.main = o.orig.main
  /\ NamedByJob(o) => o.cur = o.orig /\ o.orig.user = o.user
  /\ o.at = "rows" => \A c \in DOMAIN o.list : o.list[c] = rows[c]
  /\ o.at = "rows" /\ o.do = "crown" =>
       o.user \in astray /\ \A c \in DOMAIN o.list : o.list[c].user = o.user
OrderInv ==
  /\ AccountsExist /\ NamesDiffer
  /\ \/ crossed
     \/ /\ \A s, z \in Slots : ops[s] # Idle /\ ops[z] # Idle => s = z
        /\ \A u \in Users \ astray : \A c \in MainsOf(u) :
             users[u] = c \/ \E s \in Slots : ops[s] # Idle /\ Naming(ops[s], u, c)
        /\ \A s \in Slots : ops[s] # Idle => Knows(ops[s])

(* A row that is marked valid holds a refresh token the provider accepts,  *)
(* unless a refresh is on its way, or the new token was thrown away        *)
(* without a mark: by a request, or because no save went through or the    *)
(* process stopped.                                                        *)
ValidMarkHasACause ==
  \A c \in Chars :
    rows[c] # None /\ rows[c].valid /\ rows[c].tok \notin accepted[c] \cup {None} =>
      \/ c \in dropped
      \/ \E s \in Busy(c) :
           /\ ops[s].do \in {"job", "request"}
           /\ ops[s].tok # None \/ ops[s].at = "mark" \/ ops[s].tries > 0

(* Why: a token nobody has stored is known to one handler only, and a      *)
(* handler that gets a stored token replaced had loaded the row with that  *)
(* token and with a mark, so that it will either store the new token or    *)
(* take the mark away.                                                     *)
HasNew(o) == o.at \in {"affiliation", "account", "insert", "upsert", "link", "store",
                       "resolve", "save"}
Unstored(o) == (IF HasNew(o) THEN {o.tok} ELSE {})
               \cup (IF Refreshing(o) /\ o.cur.tok # o.orig.tok THEN {o.cur.tok} ELSE {})
Known(o) == {o.tok} \cup (IF o.orig # None THEN {o.orig.tok} ELSE {})
                    \cup (IF Refreshing(o) THEN {o.cur.tok} ELSE {})

UnstoredInv ==
  \A c \in Chars : \A s \in Busy(c) :
    LET o == ops[s] IN
    /\ Unstored(o) \subseteq Tokens
    /\ HasNew(o) => o.tok \in accepted[c]
    /\ o.orig # None => o.orig.tok \notin Unstored(o)
    /\ rows[c] # None => rows[c].tok \notin Unstored(o)
    /\ \A z \in Busy(c) \ {s} : Unstored(o) \cap Known(ops[z]) = {}

Settled(o) ==
  /\ Refreshing(o) => o.cur.id = o.orig.id
  /\ o.at = "save" => o.cur.tok = o.tok /\ o.cur.valid
  /\ NamedByJob(o) => o.cur = o.orig /\ o.orig.valid
  /\ o.at = "mark" \/ o.tries > 0 => o.do = "job"
Loaded(o, c) ==
  (/\ Refreshing(o) \/ NamedByJob(o)
   /\ rows[c] # None /\ rows[c].tok # None /\ rows[c].tok = o.orig.tok)
  => Present(c, o.orig) /\ (rows[c].valid => o.orig.valid)
LoadedInv == \A c \in Chars : \A s \in Busy(c) : Settled(ops[s]) /\ Loaded(ops[s], c)

Dead(c) == rows[c] # None /\ rows[c].valid /\ rows[c].tok \notin accepted[c] \cup {None}
Answers(s, c) ==
  LET o == ops[s] IN
  /\ Refreshing(o) /\ (o.at = "exchange" => o.tries > 0)
  /\ Present(c, o.orig) /\ o.orig.tok = rows[c].tok /\ o.orig.valid
MarkInv == \A c \in Chars \ dropped : Dead(c) => \E s \in Busy(c) : Answers(s, c)

(* Tokens an administrator revoked come back only with a login or linking  *)
(* begun later, or from a handler that had loaded the row before.          *)
RevokedStayAway ==
  \A c \in Chars : revoked[c] = "yes" /\ rows[c] # None => rows[c].tok = None

(* Why: after a revocation every handler at work on the character either   *)
(* had begun before it, or found the row without a token, and then it has  *)
(* none to exchange and none to store.                                     *)
Overruled(o) == o.late \/ ( /\ o.do \notin {"login", "link"}
                            /\ o.at \notin {"resolve", "save"}
                            /\ o.orig.tok = None /\ o.cur.tok = None )
RevokedInv ==
  \A c \in Chars : revoked[c] = "yes" =>
    /\ rows[c] # None => rows[c].tok = None
    /\ \A s \in Slots : ops[s] # Idle /\ ops[s].char = c => Overruled(ops[s])
=============================================================================
