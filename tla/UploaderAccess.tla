--------------------------- MODULE UploaderAccess ---------------------------
(***************************************************************************)
(* The uploader tokens and realtime sessions of one user                   *)
(* (backend/internal/intel/intel.go and uploader_sessions.go), the         *)
(* requests that renew and revoke them, and the cleanup that removes what  *)
(* was revoked or has expired (backend/internal/cleanup).                  *)
(*                                                                         *)
(* A new token is made by revoking the stored ones, row by row, and        *)
(* inserting another; the user is shown the newest row by created_date.    *)
(* Nothing holds these statements together: two requests may each load the *)
(* rows before the other inserts, and a row whose update fails is passed   *)
(* over.                                                                   *)
(***************************************************************************)
EXTENDS Integers, FiniteSets

CONSTANTS
    Requests,   \* calls that renew or revoke; the token one inserts bears its name
    Kind,       \* Kind[r]: "regenerate", "rotate" or "revoke"
    Seed,       \* the token the user got at the first login
    Sessions    \* realtime sessions uploaders ask for

ASSUME UploaderAccessAssumption ==
    /\ Kind \in [Requests -> {"regenerate", "rotate", "revoke"}]
    /\ Seed \notin Requests

Tokens == Requests \cup {Seed}
Minting == {r \in Requests : Kind[r] # "revoke"}

VARIABLES
    stage,      \* stage[r]: where request r stands
    todo,       \* todo[r]: loaded tokens r has still to revoke
    clock,      \* the time
    stamp,      \* stamp[t]: created_date of token t
    live,       \* stored tokens that are not revoked
    revoked,    \* stored tokens that are
    spc,        \* spc[s]: where the request for session s stands
    holds,      \* holds[s]: uploader_token of session s
    stored,     \* sessions with a row
    lapsed,     \* those past their expires_at
    marked,     \* sessions the cleanup loaded as expired
    loaded,     \* history: loaded[r], the tokens r loaded
    unsaved,    \* history: unsaved[r], those whose update failed
    born,       \* history: tokens that were inserted
    quiet,      \* history: revocations nothing overlapped that makes a token
    shut        \* history: such a one has ended, and no administrator made a token

tokens == <<clock, stamp, live, revoked, born>>
requests == <<stage, todo, loaded, unsaved>>
sessions == <<spc, holds, stored, lapsed, marked>>
marks == <<quiet, shut>>
accessVars == <<tokens, requests, sessions, marks>>

AccessInit ==
    /\ stage = [r \in Requests |-> "idle"]
    /\ todo = [r \in Requests |-> {}]
    /\ clock = 1
    /\ stamp = [t \in Tokens |-> IF t = Seed THEN 1 ELSE 0]
    /\ live \in {{}, {Seed}}            \* none when the first login's insert failed
    /\ revoked = {}
    /\ spc = [s \in Sessions |-> "idle"]
    /\ holds = [s \in Sessions |-> Seed]
    /\ stored = {} /\ lapsed = {} /\ marked = {}
    /\ loaded = [r \in Requests |-> {}]
    /\ unsaved = [r \in Requests |-> {}]
    /\ born = live
    /\ quiet = {} /\ shut = FALSE

-----------------------------------------------------------------------------
(* intel.IntelService: tokens *)

Rows == live \cup revoked

\* GetValidUploaderToken takes one of the newest rows.
NewestRows == {t \in Rows : \A u \in Rows : stamp[u] =< stamp[t]}

InFlight(r) == stage[r] \notin {"idle", "done"}
NothingMinting == \A m \in Minting : ~InFlight(m)

Goto(r, l) == stage' = [stage EXCEPT ![r] = l]

\* The request makes a token: a revocation it overlaps is not the last word.
StartsMinting(r) ==
    /\ Goto(r, "kick")
    /\ quiet' = {}
    /\ shut' = (shut /\ Kind[r] = "rotate")

\* Mutant: the user's rotation does not look for a valid token.
BeginUnchecked(r) ==
    /\ stage[r] = "idle"
    /\ IF Kind[r] = "revoke" THEN Goto(r, "load") /\ UNCHANGED marks
                             ELSE StartsMinting(r)
    /\ UNCHANGED <<tokens, todo, loaded, unsaved, sessions>>

\* The call begins; a rotation is refused without a valid token.
Begin(r) ==
    /\ stage[r] = "idle"
    /\ \/ Kind[r] = "regenerate" /\ StartsMinting(r)
       \/ Kind[r] = "rotate" /\ NewestRows \cap live # {} /\ StartsMinting(r)
       \/ /\ Kind[r] = "rotate" /\ (NewestRows \ live # {} \/ Rows = {})
          /\ Goto(r, "done") /\ UNCHANGED marks
       \/ Kind[r] = "revoke" /\ Goto(r, "load") /\ UNCHANGED marks
    /\ UNCHANGED <<tokens, todo, loaded, unsaved, sessions>>

\* revokeUploaderSessions: of the rows loaded, those that can be deleted are.
RemoveSome(those) == \E gone \in SUBSET those : stored' = stored \ gone

\* RevokeUploaderSessionsForUser, first for a new token and last for a
\* revocation; its query may fail.
Kick(r) ==
    /\ stage[r] = "kick"
    /\ \/ /\ RemoveSome(stored)
          /\ Goto(r, IF r \in Minting THEN "load" ELSE "done")
       \/ Goto(r, "done") /\ UNCHANGED stored
    /\ shut' = (shut \/ (r \in quiet /\ unsaved[r] = {}))
    /\ UNCHANGED <<tokens, todo, loaded, unsaved, spc, holds, lapsed, marked, quiet>>

\* All of the user's tokens are loaded, or the query fails.
Load(r) ==
    /\ stage[r] = "load"
    /\ \/ /\ todo' = [todo EXCEPT ![r] = Rows]
          /\ loaded' = [loaded EXCEPT ![r] = Rows]
          /\ Goto(r, "sweep")
          /\ quiet' = IF r \notin Minting /\ NothingMinting
                      THEN quiet \cup {r} ELSE quiet
       \/ Goto(r, "done") /\ UNCHANGED <<todo, loaded, quiet>>
    /\ UNCHANGED <<tokens, unsaved, sessions, shut>>

\* One round of the loop: the row is saved as revoked, which touches nothing if
\* it was deleted, or the save fails.  A renewal then deletes its sessions.
Sweep(r) ==
    /\ stage[r] = "sweep"
    /\ \E t \in todo[r] :
        /\ todo' = [todo EXCEPT ![r] = @ \ {t}]
        /\ \/ /\ live' = live \ {t}
              /\ revoked' = revoked \cup (live \cap {t})
              /\ UNCHANGED unsaved
           \/ /\ unsaved' = [unsaved EXCEPT ![r] = @ \cup {t}]
              /\ UNCHANGED <<live, revoked>>
        /\ \/ r \in Minting /\ RemoveSome({s \in stored : holds[s] = t})
           \/ r \notin Minting /\ UNCHANGED stored
    /\ UNCHANGED <<stage, clock, stamp, born, loaded, spc, holds, lapsed, marked, marks>>

\* The loop ends; a new record gets its created_date.
Swept(r) == stage[r] = "sweep" /\ todo[r] = {}

\* Mutant: created_date stays empty.
StampNothing(r) ==
    /\ Swept(r)
    /\ IF r \in Minting THEN Goto(r, "insert") ELSE Goto(r, "kick")
    /\ UNCHANGED <<tokens, todo, loaded, unsaved, sessions, marks>>

\* created_date is the time in milliseconds; saving and loading a row takes longer.
Stamp(r) ==
    /\ Swept(r)
    /\ IF r \in Minting
         THEN /\ clock' \in {clock, clock + 1}
              /\ \A t \in loaded[r] : stamp[t] < clock'
              /\ stamp' = [stamp EXCEPT ![r] = clock']
              /\ Goto(r, "insert")
         ELSE /\ Goto(r, "kick")
              /\ UNCHANGED <<clock, stamp>>
    /\ UNCHANGED <<live, revoked, born, todo, loaded, unsaved, sessions, marks>>

\* The new row is saved, or that fails and the user is left without one.
Insert(r) ==
    /\ stage[r] = "insert"
    /\ Goto(r, "done")
    /\ \/ live' = live \cup {r} /\ born' = born \cup {r}
       \/ UNCHANGED <<live, born>>
    /\ UNCHANGED <<clock, stamp, revoked, todo, loaded, unsaved, sessions, marks>>

-----------------------------------------------------------------------------
(* Sessions *)

\* RequireUploaderToken: the uploader shows a token that is not revoked.
Admit(s) ==
    /\ spc[s] = "idle"
    /\ \E t \in live : holds' = [holds EXCEPT ![s] = t]
    /\ spc' = [spc EXCEPT ![s] = "issue"]
    /\ UNCHANGED <<tokens, requests, stored, lapsed, marked, marks>>

\* IssueUploaderRealtimeSession; the relation needs the token's row.
Issue(s) ==
    /\ spc[s] = "issue"
    /\ spc' = [spc EXCEPT ![s] = "open"]
    /\ \/ holds[s] \in Rows /\ stored' = stored \cup {s}
       \/ UNCHANGED stored
    /\ UNCHANGED <<tokens, requests, holds, lapsed, marked, marks>>

\* RequireUploaderRealtimeSession and ValidateUploaderTokenID.
Renew(s) ==
    /\ spc[s] = "open" /\ s \in stored \ lapsed /\ holds[s] \in live
    /\ spc' = [spc EXCEPT ![s] = "renew"]
    /\ UNCHANGED <<tokens, requests, holds, stored, lapsed, marked, marks>>

\* RefreshUploaderRealtimeSession saves the new expiry, in vain if the row went.
Renewed(s) ==
    /\ spc[s] = "renew"
    /\ spc' = [spc EXCEPT ![s] = "open"]
    /\ lapsed' \in {lapsed, lapsed \ {s}}
    /\ UNCHANGED <<tokens, requests, holds, stored, marked, marks>>

Lapse(s) ==
    /\ s \in stored \ lapsed
    /\ lapsed' = lapsed \cup {s}
    /\ UNCHANGED <<tokens, requests, spc, holds, stored, marked, marks>>

-----------------------------------------------------------------------------
(* The hourly cleanup *)

\* RemoveExpired loads the expired sessions, then deletes them one by one, also
\* one that was renewed in the meantime.
MarkExpired ==
    /\ marked' = stored \cap lapsed
    /\ UNCHANGED <<tokens, requests, spc, holds, stored, lapsed, marks>>

\* Mutant: expired sessions are deleted only while their token is valid.
RemoveExpiredOfLive(s) ==
    /\ s \in marked \cap stored /\ holds[s] \in live
    /\ stored' = stored \ {s}
    /\ UNCHANGED <<tokens, requests, spc, holds, lapsed, marked, marks>>

RemoveExpiredSession(s) ==
    /\ s \in marked \cap stored
    /\ stored' = stored \ {s}
    /\ UNCHANGED <<tokens, requests, spc, holds, lapsed, marked, marks>>

\* RemoveRevokedUploaderTokens: a row some session refers to cannot be deleted.
RemoveRevoked(t) ==
    /\ t \in revoked
    /\ \A s \in stored : holds[s] # t
    /\ revoked' = revoked \ {t}
    /\ UNCHANGED <<clock, stamp, live, born, requests, sessions, marks>>

RequestStep(r) == Begin(r) \/ Kick(r) \/ Load(r) \/ Sweep(r) \/ Stamp(r) \/ Insert(r)
SessionStep(s) == Admit(s) \/ Issue(s) \/ Renew(s) \/ Renewed(s) \/ Lapse(s)

AccessNext ==
    \/ \E r \in Requests : RequestStep(r)
    \/ \E s \in Sessions : SessionStep(s) \/ RemoveExpiredSession(s)
    \/ MarkExpired
    \/ \E t \in Tokens : RemoveRevoked(t)

AccessSpec == AccessInit /\ [][AccessNext]_accessVars

\* Statements end, time passes, and the cleanup comes round every hour with
\* deletions that succeed now and then.
Fairness ==
    /\ \A s \in Sessions :
        WF_accessVars(Issue(s)) /\ WF_accessVars(Renewed(s)) /\ WF_accessVars(Lapse(s))
        /\ SF_accessVars(RemoveExpiredSession(s))
    /\ WF_accessVars(MarkExpired)
    /\ \A t \in Tokens : WF_accessVars(RemoveRevoked(t))

AccessFairSpec == AccessSpec /\ Fairness

-----------------------------------------------------------------------------
(* Properties *)

AccessTypeOK ==
    /\ stage \in [Requests -> {"idle", "kick", "load", "sweep", "insert", "done"}]
    /\ todo \in [Requests -> SUBSET Tokens]
    /\ clock \in Nat /\ stamp \in [Tokens -> Nat]
    /\ live \subseteq Tokens /\ revoked \subseteq Tokens /\ live \cap revoked = {}
    /\ spc \in [Sessions -> {"idle", "issue", "open", "renew"}]
    /\ holds \in [Sessions -> Tokens]
    /\ stored \subseteq Sessions /\ lapsed \subseteq Sessions /\ marked \subseteq Sessions
    /\ loaded \in [Requests -> SUBSET Tokens] /\ unsaved \in [Requests -> SUBSET Tokens]
    /\ born \subseteq Tokens
    /\ quiet \subseteq Requests /\ shut \in BOOLEAN

\* A token that was there when a renewal or a revocation loaded the rows is dead
\* once its turn in the loop has come, whatever the other requests do, unless
\* that very update failed: two live tokens are two overlapping renewals or a
\* failed update (regenerateUploaderToken, RevokeUploaderTokensForUser).
SweptTokensAreDead ==
    \A r \in Requests : \A t \in loaded[r] \ todo[r] : t \in live => t \in unsaved[r]

\* After a revocation that nothing overlapped and no update failed in, the user
\* has no live token until an administrator makes one: no rotation brings the
\* access back (RotateUploaderToken, RevokeUploaderTokensForUser).
RevocationHolds == shut => live = {}

Newest(t) == \A u \in born : stamp[u] =< stamp[t]

\* The user's newest token stops being valid only through a revocation or a
\* renewal that is not finished or could not insert its token: renewals alone,
\* however they overlap, leave the user with access (GetValidUploaderToken).
AccessIsLostForACause ==
    \A t \in born \ live : Newest(t) =>
        \E r \in Requests :
            t \in loaded[r] /\ (Kind[r] = "revoke" \/ r \notin born)

\* The rows of revoked tokens all go in the end, although each session that refers
\* to one is in its way until it has expired and was removed (RemoveExpired,
\* RemoveRevokedUploaderTokens): time and again there is none left.
RevokedTokensAreRemoved == []<>(revoked = {})

-----------------------------------------------------------------------------
(* The inductive invariant *)

TokenInv ==
    /\ Rows \subseteq born
    /\ \A t \in born : stamp[t] =< clock
    /\ \A t \in born \ live : \E r \in Requests : t \in loaded[r] \ todo[r]

RequestInv ==
    \A r \in Requests :
        /\ todo[r] \subseteq loaded[r] /\ loaded[r] \subseteq born
        /\ r \in born => r \in Minting /\ stage[r] = "done"
        /\ stage[r] = "insert" => r \in Minting /\ stamp[r] =< clock
        /\ stage[r] = "insert" \/ r \in born => \A t \in loaded[r] : stamp[t] < stamp[r]
        /\ stage[r] = "kick" /\ r \notin Minting => todo[r] = {}
        /\ stage[r] \in {"idle", "load"} \/ (stage[r] = "kick" /\ r \in Minting) => loaded[r] = {}

MarkInv ==
    /\ \A q \in quiet : q \notin Minting /\ live \subseteq loaded[q]
    /\ quiet # {} \/ shut => NothingMinting
    /\ RevocationHolds

AccessInv == AccessTypeOK /\ TokenInv /\ RequestInv /\ SweptTokensAreDead /\ MarkInv
=============================================================================
