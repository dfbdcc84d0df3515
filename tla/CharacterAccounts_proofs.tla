---------------------- MODULE CharacterAccounts_proofs ----------------------
(***************************************************************************)
(* Three results, for any characters, accounts and handlers.               *)
(*                                                                         *)
(* Revoked tokens stay away: the inductive invariant IInv is RevokedInv    *)
(* with the types and the parts of its record that a handler has filled in *)
(* where it stands.                                                        *)
(*                                                                         *)
(* A mark over a refused token has a cause: MInv says who knows a token    *)
(* that is not stored yet (UnstoredInv), that a handler which is to get a  *)
(* stored token replaced had loaded the row with it (LoadedInv), and who   *)
(* answers for a row that is marked over a refused token (MarkInv).  It is *)
(* inductive on top of IInv.                                               *)
(*                                                                         *)
(* Accounts stay in order while handlers do not overlap: OrderInv says     *)
(* what a handler alone at work knows of the table where it stands, and    *)
(* that an account it is about to name has one main.  It is inductive on   *)
(* top of IInv as well.                                                    *)
(***************************************************************************)
EXTENDS CharacterAccounts, FiniteSetTheorems, TLAPS

IInv == TypeOK /\ OpsFilled /\ RevokedInv

-----------------------------------------------------------------------------
(* Records.                                                                *)

\* Setting a Boolean, the owner or the token of a row gives a row.
LEMMA RowFields ==
    ASSUME NEW r \in Row, NEW b \in BOOLEAN, NEW u \in Users
    PROVE  /\ [r EXCEPT !.aff = b] \in Row /\ [r EXCEPT !.aff = b].tok = r.tok
           /\ [r EXCEPT !.main = b] \in Row /\ [r EXCEPT !.main = b].tok = r.tok
           /\ [r EXCEPT !.user = u, !.main = FALSE] \in Row
           /\ [r EXCEPT !.user = u, !.main = FALSE].tok = r.tok
PROOF
  BY DEF Row

\* A row that is marked, cleared or completed is a row.
LEMMA RowMarks ==
    ASSUME NEW r \in Row, NEW b \in BOOLEAN
    PROVE  /\ Marked(r, b) \in Row /\ Marked(r, b).tok = r.tok
           /\ Cleared(r) \in Row /\ Cleared(r).tok = None
PROOF
  BY DEF Row, Marked, Cleared

LEMMA UpsertedRow ==
    ASSUME NEW r \in Row, NEW b \in BOOLEAN, NEW o \in Ops
    PROVE  Upserted(o, r, b) \in Row
PROOF
<1>1. o.tok \in Tokens \cup {None} /\ o.aff \in BOOLEAN
    BY DEF Ops
<1>2. QED
    BY <1>1 DEF Row, Upserted

\* The rows in a handler's list.
LEMMA Listed ==
    ASSUME NEW l \in Lists
    PROVE  /\ DOMAIN l \subseteq Chars
           /\ \A c \in DOMAIN l : l[c] \in Row
           /\ \A c : [d \in DOMAIN l \ {c} |-> l[d]] \in Lists
PROOF
<1>1. PICK D \in SUBSET Chars : l \in [D -> Row]
    BY DEF Lists
<1>2. ASSUME NEW c PROVE [d \in DOMAIN l \ {c} |-> l[d]] \in Lists
  <2>1. [d \in DOMAIN l \ {c} |-> l[d]] \in [D \ {c} -> Row]
    BY <1>1
  <2>2. QED
    BY <2>1 DEF Lists
<1>3. QED
    BY <1>1, <1>2

\* A save writes rows into the table, touches no other character, and gives
\* the row the token of the record just when the record's was changed.
LEMMA WrittenRow ==
    ASSUME TypeOK, NEW c \in Chars, NEW orig \in Row, NEW cur \in Row
    PROVE  /\ Written(c, orig, cur) \in [Chars -> Row \cup {None}]
           /\ \A d \in Chars \ {c} : Written(c, orig, cur)[d] = rows[d]
           /\ cur.tok = orig.tok /\ Written(c, orig, cur)[c] # None
                => rows[c] # None /\ Written(c, orig, cur)[c].tok = rows[c].tok
           /\ cur.tok # orig.tok /\ Present(c, orig)
                => Written(c, orig, cur)[c].tok = cur.tok
PROOF
<1> DEFINE New(r) == [f \in DOMAIN r |-> IF cur[f] # orig[f] THEN cur[f] ELSE r[f]]
<1>1. ASSUME NEW r \in Row
      PROVE  New(r) \in Row /\ New(r).tok = IF cur.tok # orig.tok THEN cur.tok ELSE r.tok
    BY <1>1 DEF Row
<1>2. rows \in [Chars -> Row \cup {None}]
    BY DEF TypeOK
<1>3. CASE ~Present(c, orig)
    BY <1>2, <1>3 DEF Written
<1>4. CASE Present(c, orig)
  <2>1. rows[c] \in Row /\ rows[c] # None
    BY <1>2, <1>4 DEF Present
  <2>2. Written(c, orig, cur) = [rows EXCEPT ![c] = New(rows[c])]
    BY <1>4, Zenon DEF Written
  <2> HIDE DEF New
  <2>3. New(rows[c]) \in Row
        /\ New(rows[c]).tok = IF cur.tok # orig.tok THEN cur.tok ELSE rows[c].tok
    BY <1>1, <2>1
  <2>4. QED
    BY <1>2, <2>1, <2>2, <2>3
<1>5. QED
    BY <1>3, <1>4

\* A token that is stored.
LEMMA StoredToken ==
    ASSUME TypeOK, NEW o \in Ops, o.char \in Chars, NEW t, TokenStored(o, t)
    PROVE  /\ dropped' \subseteq Chars
           /\ revoked' \in [Chars -> {"no", "yes", "overtaken"}]
           /\ \A c \in Chars : revoked'[c] = "yes" => revoked[c] = "yes"
           /\ o.late => revoked'[o.char] # "yes"
PROOF
  BY DEF TypeOK, TokenStored

-----------------------------------------------------------------------------
(* Handlers.                                                               *)

\* What is known of a handler at work.
LEMMA AtWork ==
    ASSUME IInv, NEW s \in Slots, ops[s] # Idle
    PROVE  /\ ops[s] \in Ops /\ Filled(ops[s])
           /\ \A c \in Chars : revoked[c] = "yes" /\ ops[s].char = c => Overruled(ops[s])
PROOF
  BY DEF IInv, TypeOK, OpsFilled, RevokedInv

\* A handler goes on: the table loses no token by it, and what it holds is
\* filled in and overruled where its character's tokens are revoked.
LEMMA GoesOn ==
    ASSUME IInv, NEW s \in Slots, NEW o, Go(s, o),
           \/ o = Idle
           \/ /\ o \in Ops /\ Filled(o)
              /\ o.char \in Chars /\ revoked'[o.char] = "yes" => Overruled(o),
           \A c \in Chars : revoked'[c] = "yes" =>
             revoked[c] = "yes" /\ (rows'[c] # None => rows'[c].tok = None)
    PROVE  ops' \in [Slots -> Ops \cup {Idle}] /\ OpsFilled' /\ RevokedInv'
PROOF
<1>1. ops \in [Slots -> Ops \cup {Idle}]
    BY DEF IInv, TypeOK
<1>2. ops' = [ops EXCEPT ![s] = o]
    BY DEF Go
<1>3. ops' \in [Slots -> Ops \cup {Idle}]
    BY <1>1, <1>2
<1>4. \A z \in Slots : IF z = s THEN ops'[z] = o ELSE ops'[z] = ops[z]
    BY <1>1, <1>2
<1>5. OpsFilled'
    BY <1>4 DEF IInv, OpsFilled
<1>6. ASSUME NEW c \in Chars, revoked'[c] = "yes", NEW z \in Slots,
             ops'[z] # Idle, ops'[z].char = c
      PROVE  Overruled(ops'[z])
    BY <1>4, <1>6 DEF IInv, RevokedInv
<1>7. RevokedInv'
    BY <1>6 DEF RevokedInv
<1>8. QED
    BY <1>3, <1>5, <1>7

\* The same when the table and the revocations are left alone.
LEMMA GoesOnAlone ==
    ASSUME IInv, NEW s \in Slots, NEW o, Go(s, o), UNCHANGED <<rows, revoked>>,
           \/ o = Idle
           \/ /\ o \in Ops /\ Filled(o)
              /\ o.char \in Chars /\ revoked[o.char] = "yes" => Overruled(o)
    PROVE  ops' \in [Slots -> Ops \cup {Idle}] /\ OpsFilled' /\ RevokedInv'
PROOF
<1>1. \A c \in Chars : revoked'[c] = "yes" =>
        revoked[c] = "yes" /\ (rows'[c] # None => rows'[c].tok = None)
    BY DEF IInv, RevokedInv
<1>2. QED
    BY <1>1, GoesOn

\* The same when a save changes no token.
LEMMA WritesOn ==
    ASSUME IInv, NEW s \in Slots, NEW o, Go(s, o), UNCHANGED revoked,
           NEW c \in Chars, NEW orig \in Row, NEW cur \in Row, cur.tok = orig.tok,
           rows' = Written(c, orig, cur),
           \/ o = Idle
           \/ /\ o \in Ops /\ Filled(o)
              /\ o.char \in Chars /\ revoked[o.char] = "yes" => Overruled(o)
    PROVE  /\ ops' \in [Slots -> Ops \cup {Idle}] /\ OpsFilled' /\ RevokedInv'
           /\ rows' \in [Chars -> Row \cup {None}]
PROOF
<1>1. /\ rows' \in [Chars -> Row \cup {None}]
      /\ \A d \in Chars \ {c} : rows'[d] = rows[d]
      /\ rows'[c] # None => rows[c] # None /\ rows'[c].tok = rows[c].tok
    BY WrittenRow DEF IInv
<1>2. \A d \in Chars : revoked'[d] = "yes" =>
        revoked[d] = "yes" /\ (rows'[d] # None => rows'[d].tok = None)
    BY <1>1 DEF IInv, RevokedInv
<1>3. QED
    BY <1>1, <1>2, GoesOn

\* The same when a row with the handler's token is put in.
LEMMA InsertsOn ==
    ASSUME IInv, NEW s \in Slots, NEW o, ops[s] # Idle, ops[s].char \in Chars,
           Go(s, o), TokenStored(ops[s], ops[s].tok), Overruled(ops[s]) => ops[s].late,
           \A d \in Chars \ {ops[s].char} : rows'[d] = rows[d],
           \/ o = Idle
           \/ o \in Ops /\ Filled(o) /\ o.char = ops[s].char
    PROVE  /\ ops' \in [Slots -> Ops \cup {Idle}] /\ OpsFilled' /\ RevokedInv'
           /\ dropped' \subseteq Chars
           /\ revoked' \in [Chars -> {"no", "yes", "overtaken"}]
PROOF
<1>1. /\ \A c \in Chars : revoked'[c] = "yes" => revoked[c] = "yes"
      /\ ops[s].late => revoked'[ops[s].char] # "yes"
      /\ dropped' \subseteq Chars
      /\ revoked' \in [Chars -> {"no", "yes", "overtaken"}]
    BY AtWork, StoredToken DEF IInv
<1>2. revoked'[ops[s].char] # "yes"
    BY <1>1, AtWork
<1>3. \A d \in Chars : revoked'[d] = "yes" =>
        revoked[d] = "yes" /\ (rows'[d] # None => rows'[d].tok = None)
    BY <1>1, <1>2 DEF IInv, RevokedInv
<1>4. QED
    BY <1>1, <1>2, <1>3, GoesOn

\* The same when the handler saves the row of its character.
LEMMA SavesOn ==
    ASSUME IInv, NEW s \in Slots, ops[s] # Idle, ops[s].char \in Chars, ops[s].orig \in Row,
           NEW cur \in Row, Save(ops[s], cur),
           Overruled(ops[s]) => ops[s].late \/ cur.tok = ops[s].orig.tok,
           NEW o, Go(s, o),
           \/ o = Idle
           \/ /\ o \in Ops /\ Filled(o) /\ o.char = ops[s].char
              /\ revoked[o.char] = "yes" => Overruled(o)
    PROVE  /\ ops' \in [Slots -> Ops \cup {Idle}] /\ OpsFilled' /\ RevokedInv'
           /\ rows' \in [Chars -> Row \cup {None}] /\ dropped' \subseteq Chars
           /\ revoked' \in [Chars -> {"no", "yes", "overtaken"}]
PROOF
<1> DEFINE c == ops[s].char
<1>1. rows' = Written(c, ops[s].orig, cur)
    BY DEF Save
<1>2. /\ rows' \in [Chars -> Row \cup {None}]
      /\ \A d \in Chars \ {c} : rows'[d] = rows[d]
      /\ cur.tok = ops[s].orig.tok /\ rows'[c] # None
           => rows[c] # None /\ rows'[c].tok = rows[c].tok
      /\ ~Present(c, ops[s].orig) => rows' = rows
  <2>1. ~Present(c, ops[s].orig) => rows' = rows
    BY <1>1 DEF Written
  <2>2. QED
    BY <1>1, <2>1, WrittenRow DEF IInv
<1>3. /\ dropped' \subseteq Chars /\ revoked' \in [Chars -> {"no", "yes", "overtaken"}]
      /\ \A d \in Chars : revoked'[d] = "yes" => revoked[d] = "yes"
      /\ Present(c, ops[s].orig) /\ cur.tok # ops[s].orig.tok /\ ops[s].late
           => revoked'[c] # "yes"
  <2>1. CASE Present(c, ops[s].orig) /\ cur.tok # ops[s].orig.tok
    BY <2>1, AtWork, StoredToken DEF IInv, Save
  <2>2. CASE ~(Present(c, ops[s].orig) /\ cur.tok # ops[s].orig.tok)
    BY <2>2 DEF IInv, TypeOK, Save
  <2>3. QED
    BY <2>1, <2>2
<1>4. ASSUME NEW d \in Chars, revoked'[d] = "yes", rows'[d] # None
      PROVE  rows'[d].tok = None
  <2>1. revoked[d] = "yes" /\ (rows[d] # None => rows[d].tok = None)
    BY <1>3, <1>4 DEF IInv, RevokedInv
  <2>2. CASE d # c
    BY <1>2, <1>4, <2>1, <2>2
  <2>3. CASE d = c
    <3>1. ops[s].late \/ cur.tok = ops[s].orig.tok
      BY <2>1, <2>3, AtWork
    <3>2. CASE cur.tok = ops[s].orig.tok
      BY <1>2, <1>4, <2>1, <2>3, <3>2
    <3>3. CASE cur.tok # ops[s].orig.tok
      <4>1. ~Present(c, ops[s].orig)
        BY <1>3, <1>4, <2>3, <3>1, <3>3
      <4>2. QED
        BY <1>2, <1>4, <2>1, <4>1
    <3>4. QED
      BY <3>2, <3>3
  <2>4. QED
    BY <2>2, <2>3
<1>5. \A d \in Chars : revoked'[d] = "yes" =>
        revoked[d] = "yes" /\ (rows'[d] # None => rows'[d].tok = None)
    BY <1>3, <1>4
<1>6. QED
    BY <1>2, <1>3, <1>5, GoesOn

-----------------------------------------------------------------------------
(* Requests and jobs begin.                                                *)

\* The record of a handler that begins.
LEMMA OpTyped ==
    ASSUME NEW do \in {"login", "link", "job", "request", "remove", "move", "crown", "revoke"},
           NEW at \in {"affiliation", "exchange", "delete", "rows", "clear"},
           NEW u \in Users \cup {None}, NEW c \in Chars \cup {None}, NEW r \in Row \cup {None}
    PROVE  Op(do, at, u, c, r) \in Ops
PROOF
<1>1. <<>> \in Lists
    BY DEF Lists
<1>2. QED
    BY <1>1 DEF Op, Ops, Retries

LEMMA Began ==
    ASSUME TypeOK, NEW s \in Slots, NEW o, NEW n \in Nat, Begin(s, o, n)
    PROVE  Go(s, o) /\ events' \in Nat /\ crossed' \in BOOLEAN
PROOF
<1>1. Go(s, o) /\ events' \in Nat
    BY DEF TypeOK, Begin, Go
<1>2. crossed' \in BOOLEAN
    BY Zenon DEF TypeOK, Begin
<1>3. QED
    BY <1>1, <1>2

\* A row in the table.
LEMMA RowOf ==
    ASSUME TypeOK, NEW c \in Chars
    PROVE  /\ rows[c] \in Row \cup {None}
           /\ rows[c] # None => rows[c] \in Row /\ rows[c].user \in Users
PROOF
  BY DEF TypeOK, Row

LEMMA CallbackBegins ==
    ASSUME IInv, NEW s \in Slots, NEW do \in {"login", "link"}, NEW u \in Users \cup {None},
           NEW c \in Chars, do = "link" => u \in Users, BeginCallback(s, do, u, c)
    PROVE  IInv'
PROOF
<1> USE DEF BeginCallback
<1>1. PICK n \in FreshTokens(c), row \in {rows[c], None} :
        /\ Begin(s, [Op(do, "affiliation", u, c, row) EXCEPT !.tok = n],
                 IF row = rows[c] THEN 0 ELSE 1)
        /\ accepted' = [accepted EXCEPT ![c] = @ \cup {n}]
    OBVIOUS
<1>2. n \in Tokens
    BY DEF FreshTokens, Smallest
<1> DEFINE o == [Op(do, "affiliation", u, c, row) EXCEPT !.tok = n]
<1>3. o \in Ops /\ Filled(o) /\ o.char = c
  <2>1. Op(do, "affiliation", u, c, row) \in Ops
    BY OpTyped, RowOf DEF IInv
  <2>2. o \in Ops
    BY <1>2, <2>1 DEF Ops
  <2>3. o.do = do /\ o.at = "affiliation" /\ o.user = u /\ o.char = c
    BY DEF Op
  <2> HIDE DEF o
  <2>4. Filled(o)
    BY <2>3 DEF Filled, HasRow
  <2>5. QED
    BY <2>2, <2>3, <2>4
<1> HIDE DEF o
<1>4. Go(s, o) /\ events' \in Nat /\ crossed' \in BOOLEAN
    BY <1>1, Began DEF IInv, o
<1>5. /\ \A d \in Chars : revoked'[d] = "yes" => revoked[d] = "yes" /\ d # c
      /\ revoked' \in [Chars -> {"no", "yes", "overtaken"}]
    BY DEF IInv, TypeOK
<1>6. \A d \in Chars : revoked'[d] = "yes" =>
        revoked[d] = "yes" /\ (rows'[d] # None => rows'[d].tok = None)
    BY <1>5 DEF IInv, RevokedInv
<1>7. o.char \in Chars /\ revoked'[o.char] = "yes" => Overruled(o)
    BY <1>3, <1>5
<1>8. ops' \in [Slots -> Ops \cup {Idle}] /\ OpsFilled' /\ RevokedInv'
    BY <1>3, <1>4, <1>6, <1>7, GoesOn
<1>9. TypeOK'
  <2>1. accepted' \in [Chars -> SUBSET Tokens]
    BY <1>1, <1>2 DEF IInv, TypeOK
  <2>2. QED
    BY <1>4, <1>5, <1>8, <2>1 DEF IInv, TypeOK
<1>10. QED
    BY <1>8, <1>9 DEF IInv

\* A handler that begins with what it has loaded, and disturbs nothing else.
LEMMA Begins ==
    ASSUME IInv, NEW s \in Slots, NEW o, NEW n \in Nat, Begin(s, o, n), o \in Ops, Filled(o),
           o.char \in Chars /\ revoked[o.char] = "yes" => Overruled(o),
           UNCHANGED <<users, uploads, rows, accepted, allowed, revoked, dropped>>,
           astray' \subseteq Users
    PROVE  IInv'
PROOF
<1>1. Go(s, o) /\ events' \in Nat /\ crossed' \in BOOLEAN
    BY Began DEF IInv
<1>2. ops' \in [Slots -> Ops \cup {Idle}] /\ OpsFilled' /\ RevokedInv'
    BY <1>1, GoesOnAlone
<1>3. QED
    BY <1>1, <1>2 DEF IInv, TypeOK

LEMMA RefreshBegins ==
    ASSUME IInv, NEW s \in Slots, NEW do \in {"job", "request"}, NEW c \in Chars,
           BeginRefresh(s, do, c)
    PROVE  IInv'
PROOF
<1> DEFINE p == Op(do, "exchange", rows[c].user, c, rows[c])
           o == [p EXCEPT !.sub = users[rows[c].user]]
<1>1. /\ rows[c] \in Row /\ rows[c].user \in Users /\ Begin(s, o, 0)
      /\ UNCHANGED <<users, uploads, rows, accepted, allowed, astray, revoked, dropped>>
    BY RowOf DEF IInv, BeginRefresh
<1>2. p \in Ops
    BY <1>1, OpTyped
<1>3. users[rows[c].user] \in Chars \cup {None}
    BY <1>1 DEF IInv, TypeOK
<1>4. o \in Ops
    BY <1>2, <1>3 DEF Ops
<1>5. /\ o.do = do /\ o.at = "exchange" /\ o.user = rows[c].user /\ o.char = c
      /\ o.orig = rows[c] /\ o.cur = rows[c]
    BY DEF Op
<1> HIDE DEF o
<1>6. Filled(o)
    BY <1>1, <1>5 DEF Filled, HasRow
<1>7. revoked[c] = "yes" /\ rows[c] # None => rows[c].tok = None
    BY DEF IInv, RevokedInv
<1>8. revoked[o.char] = "yes" => Overruled(o)
    BY <1>5, <1>7 DEF Overruled, BeginRefresh
<1>9. astray' \subseteq Users
    BY <1>1 DEF IInv, TypeOK
<1>10. QED
    BY <1>1, <1>4, <1>6, <1>8, <1>9, Begins

LEMMA RemoveBegins ==
    ASSUME IInv, NEW s \in Slots, NEW c \in Chars, BeginRemove(s, c) \/ BeginRevoke(s, c)
    PROVE  IInv'
PROOF
<1>1. PICK do \in {"remove", "revoke"}, at \in {"delete", "clear"}, n \in 0..1 :
        /\ rows[c] # None /\ Begin(s, Op(do, at, rows[c].user, c, rows[c]), n)
        /\ UNCHANGED <<users, uploads, rows, accepted, allowed, astray, revoked, dropped>>
    BY DEF BeginRemove, BeginRevoke
<1> DEFINE o == Op(do, at, rows[c].user, c, rows[c])
<1>2. rows[c] \in Row /\ rows[c].user \in Users
    BY <1>1, RowOf DEF IInv
<1>3. o \in Ops
    BY <1>2, OpTyped
<1>4. /\ o.do = do /\ o.at = at /\ o.user = rows[c].user /\ o.char = c
      /\ o.orig = rows[c] /\ o.cur = rows[c]
    BY DEF Op
<1> HIDE DEF o
<1>5. Filled(o)
    BY <1>2, <1>4 DEF Filled, HasRow
<1>6. revoked[c] = "yes" /\ rows[c] # None => rows[c].tok = None
    BY DEF IInv, RevokedInv
<1>7. revoked[o.char] = "yes" => Overruled(o)
    BY <1>1, <1>4, <1>6 DEF Overruled
<1>8. astray' \subseteq Users
    BY <1>1 DEF IInv, TypeOK
<1>9. n \in Nat /\ Begin(s, o, n)
    BY <1>1 DEF o
<1>10. QED
    BY <1>1, <1>3, <1>5, <1>7, <1>8, <1>9, Begins

\* Moves, merges and the choice of a main work on a list of rows.
LEMMA ListBegins ==
    ASSUME IInv, NEW s \in Slots, NEW do \in {"move", "crown"}, NEW u \in Users,
           NEW m \in Chars \cup Users, do = "move" => m \in Users,
           NEW C \in SUBSET Chars, \A c \in C : rows[c] # None,
           Begin(s, [Op(do, "rows", u, None, None) EXCEPT
                       !.main = m, !.list = [c \in C |-> rows[c]]], 0),
           UNCHANGED <<users, uploads, rows, accepted, allowed, revoked, dropped>>,
           astray' \subseteq Users
    PROVE  IInv'
PROOF
<1> DEFINE l == [c \in C |-> rows[c]]
           p == Op(do, "rows", u, None, None)
           o == [p EXCEPT !.main = m, !.list = l]
<1>1. l \in Lists
  <2>1. l \in [C -> Row]
    BY RowOf DEF IInv
  <2>2. QED
    BY <2>1 DEF Lists
<1>2. p \in Ops
    BY OpTyped
<1> HIDE DEF l
<1>3. o \in Ops
    BY <1>1, <1>2 DEF Ops
<1>4. o.do = do /\ o.at = "rows" /\ o.user = u /\ o.main = m /\ o.char = None
    BY DEF Op
<1>5. Begin(s, o, 0)
    BY DEF l
<1> HIDE DEF o
<1>6. Filled(o)
    BY <1>4 DEF Filled, HasRow
<1>7. o.char \notin Chars
    BY <1>4, AccountsAssumption
<1>8. QED
    BY <1>3, <1>5, <1>6, <1>7, Begins

LEMMA StartStep ==
    ASSUME IInv, NEW s \in Slots, Start(s)
    PROVE  IInv'
PROOF
<1>0. \A u \in Users : Owned(u) \subseteq Chars /\ \A c \in Owned(u) : rows[c] # None
    BY DEF Owned
<1>a. astray \subseteq Users
    BY DEF IInv, TypeOK
<1>1. ASSUME NEW c \in Chars, BeginLogin(s, c) PROVE IInv'
    BY <1>1, CallbackBegins DEF BeginLogin
<1>2. ASSUME NEW u \in Users, NEW c \in Chars, BeginLink(s, u, c) PROVE IInv'
    BY <1>2, CallbackBegins DEF BeginLink
<1>3. ASSUME NEW c \in Chars, BeginJobRefresh(s, c) \/ BeginRequestRefresh(s, c) PROVE IInv'
    BY <1>3, RefreshBegins DEF BeginJobRefresh, BeginRequestRefresh
<1>4. ASSUME NEW c \in Chars, BeginRemove(s, c) \/ BeginRevoke(s, c) PROVE IInv'
    BY <1>4, RemoveBegins
<1>5. ASSUME NEW c \in Chars, BeginSetMain(s, c) PROVE IInv'
  <2>1. rows[c] # None /\ rows[c].user \in Users
    BY <1>5, RowOf DEF IInv, BeginSetMain
  <2>2. /\ Begin(s, [Op("crown", "rows", rows[c].user, None, None) EXCEPT
                      !.main = c, !.list = [d \in Owned(rows[c].user) |-> rows[d]]], 0)
        /\ UNCHANGED <<users, uploads, rows, accepted, allowed, revoked, dropped>>
    BY <1>5 DEF BeginSetMain
  <2>3. astray' \subseteq Users
    BY <1>a, <1>5, <2>1 DEF BeginSetMain
  <2>4. QED
    BY <1>0, <2>1, <2>2, <2>3, ListBegins
<1>6. ASSUME NEW u \in Users, NEW v \in Users, NEW C \in SUBSET Chars,
             \A c \in C : rows[c] # None, BeginMove(s, u, v, C)
      PROVE  IInv'
  <2>1. /\ Begin(s, [Op("move", "rows", u, None, None) EXCEPT
                      !.main = v, !.list = [c \in C |-> rows[c]]], 0)
        /\ UNCHANGED <<users, uploads, rows, accepted, allowed, revoked, dropped>>
        /\ astray' = astray
    BY <1>6 DEF BeginMove
  <2>2. QED
    BY <1>a, <1>6, <2>1, ListBegins
<1>7. ASSUME NEW u \in Users, NEW v \in Users, MergeInto(s, u, v) PROVE IInv'
    BY <1>0, <1>6, <1>7 DEF MergeInto
<1>8. ASSUME NEW v \in Users, NEW c \in Chars, MoveOne(s, c, v) PROVE IInv'
  <2>1. rows[c] # None /\ rows[c].user \in Users /\ BeginMove(s, rows[c].user, v, {c})
    BY <1>8, RowOf DEF IInv, MoveOne
  <2>2. QED
    BY <1>6, <2>1
<1>9. QED
    BY <1>1, <1>2, <1>3, <1>4, <1>5, <1>7, <1>8 DEF Start

-----------------------------------------------------------------------------
(* Handlers go on.                                                         *)

\* A handler that ends, or that keeps what makes it overruled.
LEMMA Alike ==
    ASSUME IInv, NEW s \in Slots, ops[s] # Idle, NEW o, o.char = ops[s].char,
           o.late = ops[s].late, o.do = ops[s].do,
           o.at \in {"resolve", "save"} => ops[s].at \in {"resolve", "save"},
           \/ o.do \in {"login", "link"}
           \/ o.orig.tok = ops[s].orig.tok /\ o.cur.tok = ops[s].cur.tok
    PROVE  o.char \in Chars /\ revoked[o.char] = "yes" => Overruled(o)
PROOF
<1>1. \A c \in Chars : revoked[c] = "yes" /\ ops[s].char = c => Overruled(ops[s])
    BY AtWork
<1>2. Overruled(ops[s]) => Overruled(o)
    BY DEF Overruled
<1>3. QED
    BY <1>1, <1>2

\* A handler that ends and leaves the table alone.
LEMMA Ends ==
    ASSUME IInv, NEW s \in Slots, Go(s, Idle), UNCHANGED <<rows, revoked>>
    PROVE  ops' \in [Slots -> Ops \cup {Idle}] /\ OpsFilled' /\ RevokedInv'
PROOF
  BY GoesOnAlone

LEMMA AffiliationStep ==
    ASSUME IInv, NEW s \in Slots, Affiliation(s)
    PROVE  IInv'
PROOF
<1> DEFINE at == IF ops[s].do = "link" THEN "link" ELSE "account"
           o(b) == [ops[s] EXCEPT !.aff = b, !.at = at]
<1>1. ops[s] # Idle /\ ops[s].at = "affiliation" /\ ops[s] \in Ops /\ Filled(ops[s])
    BY AtWork DEF Affiliation, At
<1>2. /\ \/ Go(s, o(ops[s].char \in allowed)) /\ UNCHANGED events
         \/ Fault /\ IF ops[s].orig = None THEN Go(s, Idle) ELSE Go(s, o(ops[s].orig.aff))
      /\ UNCHANGED <<users, uploads, rows, accepted, allowed, history>>
    BY DEF Affiliation, End
<1>3. at \in {"link", "account"} /\ (at = "link" => ops[s].do = "link")
    OBVIOUS
<1> HIDE DEF at
<1>4. ASSUME NEW b \in BOOLEAN
      PROVE  /\ o(b) \in Ops /\ Filled(o(b))
             /\ o(b).char \in Chars /\ revoked[o(b).char] = "yes" => Overruled(o(b))
  <2> DEFINE p == o(b)
  <2>1. p \in Ops
    BY <1>1, <1>3 DEF Ops
  <2>2. /\ p.char = ops[s].char /\ p.late = ops[s].late /\ p.do = ops[s].do
        /\ p.user = ops[s].user /\ p.at = at
    BY <1>1 DEF Ops
  <2> HIDE DEF p
  <2>3. Filled(p) /\ p.do \in {"login", "link"}
    BY <1>1, <1>3, <2>2 DEF Filled, HasRow
  <2>4. p.char \in Chars /\ revoked[p.char] = "yes" => Overruled(p)
    BY <1>1, <1>3, <2>2, <2>3, Alike
  <2>5. QED
    BY <2>1, <2>3, <2>4 DEF p
<1>5. (ops[s].char \in allowed) \in BOOLEAN
      /\ (ops[s].orig # None => ops[s].orig.aff \in BOOLEAN)
  <2>1. ops[s].orig \in Row \cup {None}
    BY <1>1 DEF Ops
  <2>2. QED
    BY <2>1 DEF Row
<1> HIDE DEF o
<1>6. Go(s, Idle) \/ \E b \in BOOLEAN : Go(s, o(b))
    BY <1>2, <1>5, Zenon
<1>7. UNCHANGED <<rows, revoked>>
    BY <1>2 DEF history
<1>8. ops' \in [Slots -> Ops \cup {Idle}] /\ OpsFilled' /\ RevokedInv'
    BY <1>4, <1>6, <1>7, GoesOnAlone
<1>9. events' \in Nat
    BY <1>2 DEF Fault, IInv, TypeOK
<1>10. QED
    BY <1>2, <1>8, <1>9 DEF IInv, TypeOK, history

LEMMA FindAccountStep ==
    ASSUME IInv, NEW s \in Slots, FindAccount(s)
    PROVE  IInv'
PROOF
<1> DEFINE o(u, sub, at) == [ops[s] EXCEPT !.user = u, !.sub = sub, !.at = at]
<1>1. ops[s] # Idle /\ ops[s].at = "account" /\ ops[s] \in Ops /\ Filled(ops[s])
    BY AtWork DEF FindAccount, At
<1>2. ops[s].char \in Chars /\ ops[s].do \in {"login", "link"}
    BY <1>1 DEF Filled
<1>3. /\ UNCHANGED <<rows, accepted, allowed, events, crossed, revoked, dropped>>
      /\ astray' \subseteq Users
    BY DEF FindAccount, IInv, TypeOK
<1>4. ASSUME NEW u \in Users, NEW sub \in Chars \cup {None}, NEW at \in {"upsert", "insert"},
             at = "upsert" => ops[s].orig \in Row
      PROVE  /\ o(u, sub, at) \in Ops /\ Filled(o(u, sub, at))
             /\ o(u, sub, at).char \in Chars /\ revoked[o(u, sub, at).char] = "yes"
                  => Overruled(o(u, sub, at))
  <2> DEFINE p == o(u, sub, at)
  <2>1. p \in Ops
    BY <1>1, <1>4 DEF Ops
  <2>2. /\ p.char = ops[s].char /\ p.late = ops[s].late /\ p.do = ops[s].do
        /\ p.user = u /\ p.at = at /\ p.orig = ops[s].orig
    BY <1>1, <1>4 DEF Ops
  <2> HIDE DEF p
  <2>3. Filled(p)
    BY <1>2, <1>4, <2>2 DEF Filled, HasRow
  <2>4. p.char \in Chars /\ revoked[p.char] = "yes" => Overruled(p)
    BY <1>1, <1>2, <1>4, <2>2, Alike
  <2>5. QED
    BY <2>1, <2>3, <2>4 DEF p
<1>5. \/ Go(s, Idle)
      \/ \E u \in Users, sub \in Chars \cup {None}, at \in {"upsert", "insert"} :
           Go(s, o(u, sub, at)) /\ (at = "upsert" => ops[s].orig \in Row)
  <2>1. CASE ops[s].orig # None
    <3>1. ops[s].orig \in Row
      BY <1>1, <2>1 DEF Ops
    <3>2. ops[s].orig.user \in Users
      BY <3>1 DEF Row
    <3>3. users[ops[s].orig.user] \in Chars \cup {None}
      BY <3>2 DEF IInv, TypeOK
    <3>4. Go(s, Idle) \/ Go(s, o(ops[s].orig.user, users[ops[s].orig.user], "upsert"))
      BY <2>1 DEF FindAccount, End
    <3> HIDE DEF o
    <3>5. QED
      BY <3>1, <3>2, <3>3, <3>4
  <2>2. CASE ops[s].orig = None
    <3>1. PICK u \in Users : Go(s, o(u, ops[s].char, "insert"))
      BY <2>2 DEF FindAccount
    <3> HIDE DEF o
    <3>2. QED
      BY <1>2, <3>1
  <2>3. QED
    BY <2>1, <2>2
<1> HIDE DEF o
<1>6. ops' \in [Slots -> Ops \cup {Idle}] /\ OpsFilled' /\ RevokedInv'
    BY <1>3, <1>4, <1>5, GoesOnAlone
<1>7. users' \in [Users -> Chars \cup {None}] /\ uploads' \in [Users -> {"live", "revoked", "gone"}]
    BY <1>2 DEF IInv, TypeOK, FindAccount
<1>8. QED
    BY <1>3, <1>6, <1>7 DEF IInv, TypeOK

\* A row that is put in for a character.
LEMMA InsertedRow ==
    ASSUME TypeOK, NEW o \in Ops, o.char \in Chars, o.user \in Users,
           NEW b \in BOOLEAN, InsertRow(o, b)
    PROVE  /\ rows' \in [Chars -> Row \cup {None}]
           /\ \A d \in Chars \ {o.char} : rows'[d] = rows[d]
PROOF
<1>1. PICK n \in FreshIds(o.char) :
        rows' = [rows EXCEPT ![o.char] = [id |-> n, user |-> o.user, main |-> b,
                                          tok |-> o.tok, valid |-> TRUE, aff |-> o.aff]]
    BY DEF InsertRow
<1>2. n \in 0..MaxAlone /\ o.tok \in Tokens \cup {None} /\ o.aff \in BOOLEAN
    BY DEF FreshIds, Smallest, Ops
<1>3. [id |-> n, user |-> o.user, main |-> b, tok |-> o.tok, valid |-> TRUE, aff |-> o.aff] \in Row
    BY <1>2 DEF Row
<1>4. QED
    BY <1>1, <1>3 DEF TypeOK

LEMMA InsertMainStep ==
    ASSUME IInv, NEW s \in Slots, InsertMain(s)
    PROVE  IInv'
PROOF
<1>1. ops[s] # Idle /\ ops[s].at = "insert" /\ ops[s] \in Ops /\ Filled(ops[s])
    BY AtWork DEF InsertMain, At
<1>2. /\ ops[s].char \in Chars /\ ops[s].user \in Users
      /\ Overruled(ops[s]) => ops[s].late
    BY <1>1 DEF Filled, Overruled
<1>3. /\ Go(s, Idle)
      /\ UNCHANGED <<users, uploads, accepted, allowed, events, crossed, astray>>
    BY DEF InsertMain, End
<1>4. CASE InsertRow(ops[s], TRUE) /\ TokenStored(ops[s], ops[s].tok)
  <2>1. /\ rows' \in [Chars -> Row \cup {None}]
        /\ \A d \in Chars \ {ops[s].char} : rows'[d] = rows[d]
    BY <1>1, <1>2, <1>4, InsertedRow DEF IInv
  <2>2. /\ ops' \in [Slots -> Ops \cup {Idle}] /\ OpsFilled' /\ RevokedInv'
        /\ dropped' \subseteq Chars
        /\ revoked' \in [Chars -> {"no", "yes", "overtaken"}]
    BY <1>1, <1>2, <1>3, <1>4, <2>1, InsertsOn
  <2>3. QED
    BY <1>3, <2>1, <2>2 DEF IInv, TypeOK
<1>5. CASE UNCHANGED <<rows, revoked, dropped>>
  <2>1. ops' \in [Slots -> Ops \cup {Idle}] /\ OpsFilled' /\ RevokedInv'
    BY <1>3, <1>5, GoesOnAlone
  <2>2. QED
    BY <1>3, <1>5, <2>1 DEF IInv, TypeOK
<1>6. QED
    BY <1>4, <1>5 DEF InsertMain

LEMMA UpsertRowStep ==
    ASSUME IInv, NEW s \in Slots, UpsertRow(s)
    PROVE  IInv'
PROOF
<1> DEFINE cur == Upserted(ops[s], ops[s].orig, ops[s].orig.main)
           o   == [ops[s] EXCEPT !.at = "main", !.orig = cur]
<1> USE DEF UpsertRow, At
<1>1. ops[s] # Idle /\ ops[s].at = "upsert" /\ ops[s] \in Ops /\ Filled(ops[s])
    BY AtWork
<1>2. /\ ops[s].char \in Chars /\ ops[s].user \in Users /\ ops[s].orig \in Row
      /\ ops[s].do \in {"login", "link"}
      /\ Overruled(ops[s]) => ops[s].late
    BY <1>1 DEF Filled, HasRow, Overruled
<1>3. cur \in Row
  <2>1. ops[s].orig.main \in BOOLEAN
    BY <1>2 DEF Row
  <2>2. QED
    BY <1>1, <1>2, <2>1, UpsertedRow
<1> HIDE DEF cur
<1>4. CASE Save(ops[s], cur) /\ Go(s, o)
  <2>1. o \in Ops
    BY <1>1, <1>3 DEF Ops
  <2>2. /\ o.char = ops[s].char /\ o.at = "main" /\ o.orig = cur /\ o.late = ops[s].late
        /\ o.do = ops[s].do /\ o.user = ops[s].user
    BY <1>1, <1>3 DEF Ops
  <2> HIDE DEF o
  <2>3. Filled(o)
    BY <1>2, <1>3, <2>2 DEF Filled, HasRow
  <2>4. revoked[o.char] = "yes" => Overruled(o)
    BY <1>1, <1>2, <2>2, Alike
  <2>5. /\ ops' \in [Slots -> Ops \cup {Idle}] /\ OpsFilled' /\ RevokedInv'
        /\ rows' \in [Chars -> Row \cup {None}] /\ dropped' \subseteq Chars
        /\ revoked' \in [Chars -> {"no", "yes", "overtaken"}]
    BY <1>1, <1>2, <1>3, <1>4, <2>1, <2>2, <2>3, <2>4, SavesOn
  <2>6. QED
    BY <2>5 DEF IInv, TypeOK
<1>5. CASE UNCHANGED <<rows, revoked, dropped>> /\ Go(s, Idle)
  <2>1. ops' \in [Slots -> Ops \cup {Idle}] /\ OpsFilled' /\ RevokedInv'
    BY <1>5, GoesOnAlone
  <2>2. QED
    BY <1>5, <2>1 DEF IInv, TypeOK
<1>6. QED
    BY <1>4, <1>5 DEF End, cur

\* The mains a lookup finds; the accounts that left their order.
LEMMA MainLookedFor ==
    ASSUME TypeOK, NEW u \in Users, NEW mains, LookForMain(u, mains)
    PROVE  mains \subseteq MainsOf(u) /\ mains \subseteq Chars /\ events' \in Nat
PROOF
  BY DEF TypeOK, LookForMain, Fault, MainsOf, Owned

LEMMA AstrayAccounts ==
    ASSUME TypeOK, NEW u \in Users
    PROVE  /\ Astray(u) \subseteq Users /\ astray \subseteq Astray(u)
           /\ \A o, mains : o.user = u /\ Crowned(o, mains) => astray' \subseteq Users
PROOF
  BY DEF TypeOK, Astray, Crowned

LEMMA EnsureMainStep ==
    ASSUME IInv, NEW s \in Slots, EnsureMain(s)
    PROVE  IInv'
PROOF
<1> DEFINE cur == [ops[s].orig EXCEPT !.main = TRUE]
<1>1. ops[s] # Idle /\ ops[s].at = "main" /\ ops[s] \in Ops /\ Filled(ops[s])
    BY AtWork DEF EnsureMain, At
<1>2. /\ ops[s].char \in Chars /\ ops[s].user \in Users /\ ops[s].orig \in Row
      /\ ops[s].do \in {"login", "link"}
    BY <1>1 DEF Filled, HasRow
<1>3. cur \in Row /\ cur.tok = ops[s].orig.tok
    BY <1>2, RowFields
<1> HIDE DEF cur
<1>4. ASSUME NEW m \in Chars, NEW r \in Row \cup {None}, NEW at \in {"name", "mainaff"},
             at = "mainaff" => r \in Row
      PROVE  LET o == [ops[s] EXCEPT !.at = at, !.main = m, !.cur = r] IN
             /\ o \in Ops /\ Filled(o)
             /\ o.char \in Chars /\ revoked[o.char] = "yes" => Overruled(o)
  <2> DEFINE o == [ops[s] EXCEPT !.at = at, !.main = m, !.cur = r]
  <2>0. o \in Ops
    BY <1>1, <1>4 DEF Ops
  <2>1. /\ o.at = at /\ o.main = m /\ o.cur = r /\ o.char = ops[s].char
        /\ o.late = ops[s].late /\ o.do = ops[s].do /\ o.user = ops[s].user
        /\ o.orig = ops[s].orig
    BY <1>1 DEF Ops
  <2> HIDE DEF o
  <2>2. Filled(o)
    BY <1>2, <1>4, <2>1 DEF Filled, HasRow
  <2>3. o.char \in Chars /\ revoked[o.char] = "yes" => Overruled(o)
    BY <1>1, <1>2, <1>4, <2>1, Alike
  <2>4. QED
    BY <2>0, <2>2, <2>3 DEF o
<1>5. ASSUME NEW m \in Chars
      PROVE  [ops[s] EXCEPT !.at = "name", !.main = m]
               = [ops[s] EXCEPT !.at = "name", !.main = m, !.cur = ops[s].cur]
    BY <1>1 DEF Ops
<1>6. ops[s].cur \in Row \cup {None}
    BY <1>1 DEF Ops
<1>0. PICK mains :
        /\ LookForMain(ops[s].user, mains)
        /\ \/ /\ rows' = Written(ops[s].char, ops[s].orig, cur)
              /\ Go(s, [ops[s] EXCEPT !.at = "name", !.main = ops[s].char])
              /\ Crowned(ops[s], mains)
           \/ /\ \/ Go(s, Idle)
                 \/ \E m \in mains :
                      \/ Go(s, [ops[s] EXCEPT !.at = "mainaff", !.main = m, !.cur = rows[m]])
                      \/ Go(s, [ops[s] EXCEPT !.at = "name", !.main = m])
              /\ UNCHANGED <<rows, astray>>
    BY DEF EnsureMain, End, cur
<1>a. /\ UNCHANGED <<users, uploads, accepted, allowed, crossed, revoked, dropped>>
      /\ mains \subseteq MainsOf(ops[s].user) /\ mains \subseteq Chars /\ events' \in Nat
      /\ astray' \subseteq Users
  <2>1. UNCHANGED <<users, uploads, accepted, allowed, crossed, revoked, dropped>>
    BY DEF EnsureMain
  <2>2. mains \subseteq MainsOf(ops[s].user) /\ mains \subseteq Chars /\ events' \in Nat
    BY <1>0, <1>2, MainLookedFor DEF IInv
  <2>3. Crowned(ops[s], mains) => astray' \subseteq Users
    BY <1>2, AstrayAccounts DEF IInv
  <2>4. QED
    BY <1>0, <2>1, <2>2, <2>3 DEF IInv, TypeOK
<1>7. CASE Go(s, Idle) /\ UNCHANGED rows
  <2>1. ops' \in [Slots -> Ops \cup {Idle}] /\ OpsFilled' /\ RevokedInv'
    BY <1>a, <1>7, GoesOnAlone
  <2>2. QED
    BY <1>a, <1>7, <2>1 DEF IInv, TypeOK
<1>8. ASSUME NEW m \in Chars, Go(s, [ops[s] EXCEPT !.at = "name", !.main = m]), UNCHANGED rows
      PROVE  IInv'
  <2>1. ops' \in [Slots -> Ops \cup {Idle}] /\ OpsFilled' /\ RevokedInv'
    BY <1>a, <1>4, <1>5, <1>6, <1>8, GoesOnAlone
  <2>2. QED
    BY <1>a, <1>8, <2>1 DEF IInv, TypeOK
<1>9. ASSUME NEW m \in MainsOf(ops[s].user), UNCHANGED rows,
             Go(s, [ops[s] EXCEPT !.at = "mainaff", !.main = m, !.cur = rows[m]])
      PROVE  IInv'
  <2>1. m \in Chars /\ rows[m] \in Row
    BY RowOf DEF IInv, MainsOf, Owned
  <2>2. ops' \in [Slots -> Ops \cup {Idle}] /\ OpsFilled' /\ RevokedInv'
    BY <1>a, <1>4, <1>9, <2>1, GoesOnAlone
  <2>3. QED
    BY <1>a, <1>9, <2>2 DEF IInv, TypeOK
<1>10. CASE /\ rows' = Written(ops[s].char, ops[s].orig, cur)
            /\ Go(s, [ops[s] EXCEPT !.at = "name", !.main = ops[s].char])
  <2> DEFINE o == [ops[s] EXCEPT !.at = "name", !.main = ops[s].char]
  <2>0. o = [ops[s] EXCEPT !.at = "name", !.main = ops[s].char, !.cur = ops[s].cur]
    BY <1>2, <1>5
  <2>1. /\ o \in Ops /\ Filled(o)
        /\ o.char \in Chars /\ revoked[o.char] = "yes" => Overruled(o)
    <3> DEFINE p == [ops[s] EXCEPT !.at = "name", !.main = ops[s].char, !.cur = ops[s].cur]
    <3>1. /\ p \in Ops /\ Filled(p)
          /\ p.char \in Chars /\ revoked[p.char] = "yes" => Overruled(p)
      BY <1>2, <1>4, <1>6
    <3>2. o = p
      BY <2>0
    <3> HIDE DEF o, p
    <3>3. QED
      BY <3>1, <3>2
  <2> HIDE DEF o
  <2>2. Go(s, o) /\ UNCHANGED revoked
    BY <1>a, <1>10 DEF o
  <2>3. /\ ops' \in [Slots -> Ops \cup {Idle}] /\ OpsFilled' /\ RevokedInv'
        /\ rows' \in [Chars -> Row \cup {None}]
    BY <1>2, <1>3, <1>10, <2>1, <2>2, WritesOn
  <2>4. QED
    BY <1>a, <2>3 DEF IInv, TypeOK
<1>11. QED
    BY <1>0, <1>a, <1>7, <1>8, <1>9, <1>10

LEMMA RefreshMainAffiliationStep ==
    ASSUME IInv, NEW s \in Slots, RefreshMainAffiliation(s)
    PROVE  IInv'
PROOF
<1> DEFINE said == [ops[s].cur EXCEPT !.aff = ops[s].main \in allowed]
           o    == [ops[s] EXCEPT !.at = "name"]
<1> USE DEF RefreshMainAffiliation, At
<1>1. ops[s] # Idle /\ ops[s].at = "mainaff" /\ ops[s] \in Ops /\ Filled(ops[s])
    BY AtWork
<1>2. /\ ops[s].char \in Chars /\ ops[s].user \in Users /\ ops[s].orig \in Row
      /\ ops[s].main \in Chars /\ ops[s].cur \in Row /\ ops[s].do \in {"login", "link"}
    BY <1>1 DEF Filled, HasRow
<1>3. said \in Row /\ said.tok = ops[s].cur.tok
  <2>1. \A b \in BOOLEAN : [ops[s].cur EXCEPT !.aff = b] \in Row
                           /\ [ops[s].cur EXCEPT !.aff = b].tok = ops[s].cur.tok
    BY <1>2, RowFields
  <2>2. (ops[s].main \in allowed) \in BOOLEAN
    OBVIOUS
  <2>3. QED
    BY <2>1, <2>2, Zenon
<1> HIDE DEF said
<1>4. /\ o \in Ops /\ o.at = "name" /\ o.main = ops[s].main /\ o.char = ops[s].char
      /\ o.late = ops[s].late /\ o.do = ops[s].do /\ o.user = ops[s].user
    BY <1>1 DEF Ops
<1> HIDE DEF o
<1>5. Filled(o)
    BY <1>2, <1>4 DEF Filled, HasRow
<1>6. o.char \in Chars /\ revoked[o.char] = "yes" => Overruled(o)
    BY <1>1, <1>2, <1>4, Alike
<1>7. events' \in Nat /\ UNCHANGED <<users, uploads, accepted, allowed, history>>
    BY DEF IInv, TypeOK, Fault
<1>8. CASE UNCHANGED rows /\ (Go(s, o) \/ Go(s, Idle))
  <2>1. ops' \in [Slots -> Ops \cup {Idle}] /\ OpsFilled' /\ RevokedInv'
    BY <1>4, <1>5, <1>6, <1>7, <1>8, GoesOnAlone DEF history
  <2>2. QED
    BY <1>7, <1>8, <2>1 DEF IInv, TypeOK, history
<1>9. CASE rows' = Written(ops[s].main, ops[s].cur, said) /\ Go(s, o)
  <2>1. /\ ops' \in [Slots -> Ops \cup {Idle}] /\ OpsFilled' /\ RevokedInv'
        /\ rows' \in [Chars -> Row \cup {None}]
    BY <1>2, <1>3, <1>4, <1>5, <1>6, <1>7, <1>9, WritesOn DEF history
  <2>2. QED
    BY <1>7, <2>1 DEF IInv, TypeOK, history
<1>10. QED
    BY <1>8, <1>9 DEF End, said, o

LEMMA NameAccountStep ==
    ASSUME IInv, NEW s \in Slots, NameAccount(s)
    PROVE  IInv'
PROOF
<1> DEFINE o == [ops[s] EXCEPT !.at = "mark"]
<1> USE DEF NameAccount, At
<1>1. ops[s] # Idle /\ ops[s].at = "name" /\ ops[s] \in Ops /\ Filled(ops[s])
    BY AtWork
<1>2. ops[s].char \in Chars /\ ops[s].user \in Users /\ ops[s].main \in Chars
    BY <1>1 DEF Filled
<1>3. users' \in [Users -> Chars \cup {None}]
    BY <1>2 DEF IInv, TypeOK, Name
<1>7. astray' \subseteq Users /\ events' \in Nat
    BY <1>2, AstrayAccounts DEF IInv, TypeOK, Fault
<1>4. CASE Go(s, Idle)
  <2>1. ops' \in [Slots -> Ops \cup {Idle}] /\ OpsFilled' /\ RevokedInv'
    BY <1>4, GoesOnAlone
  <2>2. QED
    BY <1>3, <1>7, <2>1 DEF IInv, TypeOK
<1>5. CASE ops[s].do = "job" /\ Go(s, o)
  <2>1. ops[s].orig \in Row /\ ops[s].cur \in Row
    BY <1>1, <1>5 DEF Filled
  <2>2. /\ o \in Ops /\ o.at = "mark" /\ o.char = ops[s].char /\ o.late = ops[s].late
        /\ o.do = ops[s].do /\ o.user = ops[s].user
        /\ o.orig = ops[s].orig /\ o.cur = ops[s].cur
    BY <1>1 DEF Ops
  <2> HIDE DEF o
  <2>3. Filled(o)
    BY <1>2, <1>5, <2>1, <2>2 DEF Filled, HasRow
  <2>4. o.char \in Chars /\ revoked[o.char] = "yes" => Overruled(o)
    BY <1>1, <2>2, Alike
  <2>5. ops' \in [Slots -> Ops \cup {Idle}] /\ OpsFilled' /\ RevokedInv'
    BY <1>5, <2>2, <2>3, <2>4, GoesOnAlone
  <2>6. QED
    BY <1>3, <1>7, <2>5 DEF IInv, TypeOK
<1>6. QED
    BY <1>4, <1>5 DEF End

LEMMA CheckLinkStep ==
    ASSUME IInv, NEW s \in Slots, CheckLink(s)
    PROVE  IInv'
PROOF
<1> DEFINE o(m) == [ops[s] EXCEPT !.at = "store", !.sub = users[ops[s].user], !.main = m]
<1> USE DEF CheckLink, At
<1>1. ops[s] # Idle /\ ops[s].at = "link" /\ ops[s] \in Ops /\ Filled(ops[s])
    BY AtWork
<1>2. ops[s].char \in Chars /\ ops[s].user \in Users /\ ops[s].do \in {"login", "link"}
    BY <1>1 DEF Filled
<1>3. users[ops[s].user] \in Chars \cup {None}
    BY <1>2 DEF IInv, TypeOK
<1>4. ASSUME NEW m \in Chars \cup {None}
      PROVE  /\ o(m) \in Ops /\ Filled(o(m))
             /\ o(m).char \in Chars /\ revoked[o(m).char] = "yes" => Overruled(o(m))
  <2> DEFINE p == o(m)
  <2>0. p \in Ops
    BY <1>1, <1>3 DEF Ops
  <2>1. /\ p.at = "store" /\ p.main = m /\ p.char = ops[s].char
        /\ p.late = ops[s].late /\ p.do = ops[s].do /\ p.user = ops[s].user
    BY <1>1 DEF Ops
  <2> HIDE DEF p
  <2>2. Filled(p)
    BY <1>2, <2>1 DEF Filled, HasRow
  <2>3. p.char \in Chars /\ revoked[p.char] = "yes" => Overruled(p)
    BY <1>1, <1>2, <2>1, Alike
  <2>4. QED
    BY <2>0, <2>2, <2>3 DEF p
<1>0. PICK mains :
        /\ LookForMain(ops[s].user, mains)
        /\ Crowned(ops[s], mains) \/ UNCHANGED astray
    OBVIOUS
<1>5. Go(s, Idle) \/ \E m \in Chars \cup {None} : Go(s, o(m))
    BY <1>2 DEF End
<1>6. /\ UNCHANGED <<users, uploads, rows, accepted, allowed, crossed, revoked, dropped>>
      /\ events' \in Nat /\ astray' \subseteq Users
  <2>1. UNCHANGED <<users, uploads, rows, accepted, allowed, crossed, revoked, dropped>>
    OBVIOUS
  <2>2. events' \in Nat
    BY <1>0, <1>2, MainLookedFor DEF IInv
  <2>3. Crowned(ops[s], mains) => astray' \subseteq Users
    BY <1>2, AstrayAccounts DEF IInv
  <2>4. QED
    BY <1>0, <2>1, <2>2, <2>3 DEF IInv, TypeOK
<1> HIDE DEF o
<1>7. ops' \in [Slots -> Ops \cup {Idle}] /\ OpsFilled' /\ RevokedInv'
    BY <1>4, <1>5, <1>6, GoesOnAlone
<1>8. QED
    BY <1>6, <1>7 DEF IInv, TypeOK

LEMMA StoreLinkStep ==
    ASSUME IInv, NEW s \in Slots, StoreLink(s)
    PROVE  IInv'
PROOF
<1> DEFINE main == ops[s].main # None
           cur  == Upserted(ops[s], ops[s].orig, main)
           o    == [ops[s] EXCEPT !.at = "name"]
<1>1. ops[s] # Idle /\ ops[s].at = "store" /\ ops[s] \in Ops /\ Filled(ops[s])
    BY AtWork DEF StoreLink, At
<1>2. /\ ops[s].char \in Chars /\ ops[s].user \in Users /\ ops[s].do \in {"login", "link"}
      /\ ops[s].main \in Chars \cup {None} /\ ops[s].orig \in Row \cup {None}
      /\ Overruled(ops[s]) => ops[s].late
    BY <1>1 DEF Filled, HasRow, Overruled, Ops
<1>3. main \in BOOLEAN /\ UNCHANGED <<users, uploads, accepted, allowed, events, crossed, astray>>
    BY DEF StoreLink
<1>4. CASE UNCHANGED <<rows, revoked, dropped>> /\ Go(s, Idle)
  <2>1. ops' \in [Slots -> Ops \cup {Idle}] /\ OpsFilled' /\ RevokedInv'
    BY <1>4, GoesOnAlone
  <2>2. QED
    BY <1>3, <1>4, <2>1 DEF IInv, TypeOK
<1>5. CASE /\ IF ops[s].orig = None
              THEN InsertRow(ops[s], main) /\ TokenStored(ops[s], ops[s].tok)
              ELSE Save(ops[s], cur)
           /\ IF main THEN Go(s, o) ELSE Go(s, Idle)
  <2> HIDE DEF main
  <2>1. o \in Ops
    BY <1>1 DEF Ops
  <2>2. /\ o.char = ops[s].char /\ o.at = "name" /\ o.main = ops[s].main
        /\ o.do = ops[s].do /\ o.user = ops[s].user /\ o.late = ops[s].late
    BY <1>1 DEF Ops
  <2> HIDE DEF o
  <2>3. main => Filled(o)
    BY <1>2, <2>2 DEF Filled, HasRow, main
  <2>4. revoked[o.char] = "yes" => Overruled(o)
    BY <1>1, <1>2, <2>2, Alike
  <2>5. CASE ops[s].orig = None
    <3>1. /\ rows' \in [Chars -> Row \cup {None}]
          /\ \A d \in Chars \ {ops[s].char} : rows'[d] = rows[d]
      BY <1>1, <1>2, <1>3, <1>5, <2>5, InsertedRow DEF IInv
    <3>2. /\ ops' \in [Slots -> Ops \cup {Idle}] /\ OpsFilled' /\ RevokedInv'
          /\ dropped' \subseteq Chars
          /\ revoked' \in [Chars -> {"no", "yes", "overtaken"}]
      BY <1>1, <1>2, <1>5, <2>1, <2>2, <2>3, <2>5, <3>1, InsertsOn
    <3>3. QED
      BY <1>3, <3>1, <3>2 DEF IInv, TypeOK
  <2>6. CASE ops[s].orig # None
    <3>1. cur \in Row /\ ops[s].orig \in Row
      BY <1>1, <1>2, <1>3, <2>6, UpsertedRow
    <3> HIDE DEF cur
    <3>2. /\ ops' \in [Slots -> Ops \cup {Idle}] /\ OpsFilled' /\ RevokedInv'
          /\ rows' \in [Chars -> Row \cup {None}] /\ dropped' \subseteq Chars
          /\ revoked' \in [Chars -> {"no", "yes", "overtaken"}]
      BY <1>1, <1>2, <1>5, <2>1, <2>2, <2>3, <2>4, <2>6, <3>1, SavesOn
    <3>3. QED
      BY <1>3, <3>2 DEF IInv, TypeOK
  <2>7. QED
    BY <2>5, <2>6
<1>6. QED
    BY <1>4, <1>5 DEF StoreLink, End

\* A refresh that failed: what becomes of the handler and of its token.
LEMMA RefreshFailed ==
    ASSUME IInv, NEW s \in Slots, ops[s] # Idle,
           ops[s].at \in {"exchange", "resolve", "save"},
           NEW rotated \in BOOLEAN, Failed(s, ops[s], rotated), UNCHANGED <<rows, revoked>>
    PROVE  /\ ops' \in [Slots -> Ops \cup {Idle}] /\ OpsFilled' /\ RevokedInv'
           /\ dropped' \subseteq Chars
PROOF
<1> DEFINE o == [ops[s] EXCEPT !.at = "mark"]
<1>1. ops[s] \in Ops /\ Filled(ops[s])
    BY AtWork
<1>2. /\ ops[s].char \in Chars /\ ops[s].user \in Users /\ ops[s].orig \in Row
      /\ ops[s].cur \in Row /\ ops[s].do \in {"job", "request"}
    BY <1>1 DEF Filled, HasRow
<1>3. /\ o \in Ops /\ o.at = "mark" /\ o.char = ops[s].char /\ o.late = ops[s].late
      /\ o.do = ops[s].do /\ o.user = ops[s].user
      /\ o.orig = ops[s].orig /\ o.cur = ops[s].cur
    BY <1>1 DEF Ops
<1> HIDE DEF o
<1>4. Filled(o)
    BY <1>2, <1>3 DEF Filled, HasRow
<1>5. o.char \in Chars /\ revoked[o.char] = "yes" => Overruled(o)
    BY <1>1, <1>3, Alike
<1>6. (Go(s, o) \/ Go(s, Idle)) /\ dropped' \subseteq Chars
    BY <1>2 DEF Failed, End, o, IInv, TypeOK
<1>7. QED
    BY <1>3, <1>4, <1>5, <1>6, GoesOnAlone

LEMMA ExchangeTokenStep ==
    ASSUME IInv, NEW s \in Slots, ExchangeToken(s)
    PROVE  IInv'
PROOF
<1> DEFINE good == ops[s].cur.tok \in accepted[ops[s].char]
           Replace(n) == accepted' = [accepted EXCEPT
                           ![ops[s].char] = (@ \ {ops[s].cur.tok}) \cup {n}]
           subs == {IF ops[s].do = "job" THEN users[ops[s].user] ELSE ops[s].sub, None}
           o(n, sub) == [ops[s] EXCEPT !.at = "resolve", !.tok = n, !.sub = sub]
<1>1. ops[s] # Idle /\ ops[s].at = "exchange" /\ ops[s] \in Ops /\ Filled(ops[s])
    BY AtWork DEF ExchangeToken, At
<1>2. /\ ops[s].char \in Chars /\ ops[s].user \in Users /\ ops[s].orig \in Row
      /\ ops[s].cur \in Row /\ ops[s].do \in {"job", "request"}
    BY <1>1 DEF Filled, HasRow
<1>3. PICK n \in FreshTokens(ops[s].char) :
        \/ /\ good /\ Replace(n) /\ UNCHANGED dropped
           /\ \E sub \in subs : Go(s, o(n, sub))
           /\ UNCHANGED events \/ Fault
        \/ ~good /\ Failed(s, ops[s], FALSE) /\ UNCHANGED <<accepted, events>>
        \/ /\ good /\ Fault
           /\ \E replaced \in BOOLEAN :
                /\ IF replaced THEN Replace(n) ELSE UNCHANGED accepted
                /\ Failed(s, ops[s], replaced)
    BY <1>1 DEF ExchangeToken, Ops
<1>4. n \in Tokens
    BY DEF FreshTokens, Smallest
<1>5. UNCHANGED <<users, uploads, rows, allowed, crossed, astray, revoked>>
    BY DEF ExchangeToken
<1>6. Replace(n) => accepted' \in [Chars -> SUBSET Tokens]
    BY <1>2, <1>4 DEF IInv, TypeOK
<1>7. accepted \in [Chars -> SUBSET Tokens] /\ None \notin accepted[ops[s].char]
    BY <1>2, NoneIsNothing DEF IInv, TypeOK
<1>8. subs \subseteq Chars \cup {None}
    BY <1>1, <1>2 DEF IInv, TypeOK, Ops
<1> HIDE DEF subs, Replace
<1>9. ASSUME good, Replace(n), UNCHANGED dropped, events' \in Nat,
             NEW sub \in subs, Go(s, o(n, sub))
      PROVE  IInv'
  <2> DEFINE p == o(n, sub)
  <2>1. p \in Ops
    BY <1>1, <1>4, <1>8, <1>9 DEF Ops
  <2>2. /\ p.at = "resolve" /\ p.char = ops[s].char /\ p.late = ops[s].late
        /\ p.do = ops[s].do /\ p.user = ops[s].user
        /\ p.orig = ops[s].orig /\ p.cur = ops[s].cur
    BY <1>1 DEF Ops
  <2>3. Go(s, p)
    BY <1>9
  <2> HIDE DEF p
  <2>4. Filled(p)
    BY <1>2, <2>2 DEF Filled, HasRow
  <2>5. revoked[ops[s].char] = "yes" => Overruled(ops[s])
    BY <1>1, <1>2, AtWork
  <2>6. revoked[ops[s].char] = "yes" => ops[s].late
    BY <1>7, <1>9, <2>5 DEF Overruled
  <2>7. p.char \in Chars /\ revoked[p.char] = "yes" => Overruled(p)
    BY <2>2, <2>6 DEF Overruled
  <2>8. ops' \in [Slots -> Ops \cup {Idle}] /\ OpsFilled' /\ RevokedInv'
    BY <1>5, <2>1, <2>3, <2>4, <2>7, GoesOnAlone
  <2>9. QED
    BY <1>5, <1>6, <1>9, <2>8 DEF IInv, TypeOK
<1>10. ASSUME NEW rotated \in BOOLEAN, Failed(s, ops[s], rotated),
              Replace(n) \/ UNCHANGED accepted, events' \in Nat
       PROVE  IInv'
  <2>1. /\ ops' \in [Slots -> Ops \cup {Idle}] /\ OpsFilled' /\ RevokedInv'
        /\ dropped' \subseteq Chars
    BY <1>1, <1>5, <1>10, RefreshFailed
  <2>2. QED
    BY <1>5, <1>6, <1>7, <1>10, <2>1 DEF IInv, TypeOK
<1>11. events \in Nat /\ (Fault => events' \in Nat)
    BY DEF IInv, TypeOK, Fault
<1> HIDE DEF good, o
<1>12. QED
    BY <1>3, <1>9, <1>10, <1>11

LEMMA ResolveRefreshStep ==
    ASSUME IInv, NEW s \in Slots, ResolveRefresh(s)
    PROVE  IInv'
PROOF
<1> DEFINE aff  == ops[s].char \in allowed
           done == [ops[s] EXCEPT !.aff = aff]
           cur  == Upserted(done, ops[s].cur, ops[s].cur.main)
           o    == [ops[s] EXCEPT !.at = "save", !.aff = aff, !.cur = cur]
<1>1. ops[s] # Idle /\ ops[s].at = "resolve" /\ ops[s] \in Ops /\ Filled(ops[s])
    BY AtWork DEF ResolveRefresh, At
<1>2. /\ ops[s].char \in Chars /\ ops[s].user \in Users /\ ops[s].orig \in Row
      /\ ops[s].cur \in Row /\ ops[s].do \in {"job", "request"}
    BY <1>1 DEF Filled, HasRow
<1>3. UNCHANGED <<users, rows, accepted, allowed, crossed, astray, revoked>>
    BY DEF ResolveRefresh
<1>4. \/ Failed(s, ops[s], TRUE)
      \/ Go(s, o) /\ UNCHANGED <<uploads, dropped>>
    BY DEF ResolveRefresh
<1>5. uploads' \in [Users -> {"live", "revoked", "gone"}] /\ events' \in Nat
  <2>1. \/ UNCHANGED uploads
        \/ uploads' = [uploads EXCEPT ![ops[s].user] = "revoked"]
    BY Zenon DEF ResolveRefresh
  <2>2. Fault \/ UNCHANGED events
    BY Zenon DEF ResolveRefresh
  <2>3. QED
    BY <1>2, <2>1, <2>2 DEF Fault, IInv, TypeOK
<1>6. CASE Failed(s, ops[s], TRUE)
  <2>1. /\ ops' \in [Slots -> Ops \cup {Idle}] /\ OpsFilled' /\ RevokedInv'
        /\ dropped' \subseteq Chars
    BY <1>1, <1>3, <1>6, RefreshFailed
  <2>2. QED
    BY <1>3, <1>5, <2>1 DEF IInv, TypeOK
<1>7. CASE Go(s, o) /\ UNCHANGED <<uploads, dropped>>
  <2>1. aff \in BOOLEAN
    OBVIOUS
  <2> HIDE DEF aff
  <2>2. done \in Ops
    BY <1>1, <2>1 DEF Ops
  <2> HIDE DEF done
  <2>3. cur \in Row
    <3>1. ops[s].cur.main \in BOOLEAN
      BY <1>2 DEF Row
    <3>2. QED
      BY <1>2, <2>2, <3>1, UpsertedRow
  <2> HIDE DEF cur
  <2>4. o \in Ops
    BY <1>1, <2>1, <2>3 DEF Ops
  <2>5. /\ o.at = "save" /\ o.char = ops[s].char /\ o.late = ops[s].late
        /\ o.do = ops[s].do /\ o.user = ops[s].user /\ o.orig = ops[s].orig /\ o.cur = cur
    BY <1>1 DEF Ops
  <2>6. Go(s, o)
    BY <1>7
  <2> HIDE DEF o
  <2>7. Filled(o)
    BY <1>2, <2>3, <2>5 DEF Filled, HasRow
  <2>8. revoked[ops[s].char] = "yes" => Overruled(ops[s])
    BY <1>1, <1>2, AtWork
  <2>9. o.char \in Chars /\ revoked[o.char] = "yes" => Overruled(o)
    BY <1>1, <2>5, <2>8 DEF Overruled
  <2>10. ops' \in [Slots -> Ops \cup {Idle}] /\ OpsFilled' /\ RevokedInv'
    BY <1>3, <2>4, <2>6, <2>7, <2>9, GoesOnAlone
  <2>11. QED
    BY <1>3, <1>5, <1>7, <2>10 DEF IInv, TypeOK
<1>8. QED
    BY <1>4, <1>6, <1>7

LEMMA SaveRefreshStep ==
    ASSUME IInv, NEW s \in Slots, SaveRefresh(s)
    PROVE  IInv'
PROOF
<1> DEFINE o == [ops[s] EXCEPT !.at = "name", !.main = ops[s].char, !.orig = ops[s].cur]
<1>1. ops[s] # Idle /\ ops[s].at = "save" /\ ops[s] \in Ops /\ Filled(ops[s])
    BY AtWork DEF SaveRefresh, At
<1>2. /\ ops[s].char \in Chars /\ ops[s].user \in Users /\ ops[s].orig \in Row
      /\ ops[s].cur \in Row /\ ops[s].do \in {"job", "request"}
      /\ Overruled(ops[s]) => ops[s].late
    BY <1>1 DEF Filled, HasRow, Overruled
<1>3. /\ UNCHANGED <<users, uploads, accepted, allowed, crossed, astray>>
      /\ events' \in Nat
  <2>1. Fault \/ UNCHANGED events
    BY Zenon DEF SaveRefresh
  <2>2. QED
    BY <2>1 DEF SaveRefresh, Fault, IInv, TypeOK
<1>4. \/ Save(ops[s], ops[s].cur) /\ (Go(s, o) \/ Go(s, Idle))
      \/ Failed(s, ops[s], TRUE) /\ UNCHANGED <<rows, revoked>>
    BY DEF SaveRefresh, End
<1>5. CASE Failed(s, ops[s], TRUE) /\ UNCHANGED <<rows, revoked>>
  <2>1. /\ ops' \in [Slots -> Ops \cup {Idle}] /\ OpsFilled' /\ RevokedInv'
        /\ dropped' \subseteq Chars
    BY <1>1, <1>5, RefreshFailed
  <2>2. QED
    BY <1>3, <1>5, <2>1 DEF IInv, TypeOK
<1>6. CASE Save(ops[s], ops[s].cur) /\ (Go(s, o) \/ Go(s, Idle))
  <2>1. o \in Ops
    BY <1>1, <1>2 DEF Ops
  <2>2. /\ o.char = ops[s].char /\ o.at = "name" /\ o.main = ops[s].char
        /\ o.do = ops[s].do /\ o.user = ops[s].user /\ o.orig = ops[s].cur
        /\ o.cur = ops[s].cur /\ o.late = ops[s].late
    BY <1>1 DEF Ops
  <2> HIDE DEF o
  <2>3. Filled(o)
    BY <1>2, <2>2 DEF Filled, HasRow
  <2>4. revoked[o.char] = "yes" => Overruled(o)
    BY <1>1, <1>2, <2>2, AtWork DEF Overruled
  <2>5. /\ ops' \in [Slots -> Ops \cup {Idle}] /\ OpsFilled' /\ RevokedInv'
        /\ rows' \in [Chars -> Row \cup {None}] /\ dropped' \subseteq Chars
        /\ revoked' \in [Chars -> {"no", "yes", "overtaken"}]
    BY <1>1, <1>2, <1>6, <2>1, <2>2, <2>3, <2>4, SavesOn
  <2>6. QED
    BY <1>3, <2>5 DEF IInv, TypeOK
<1>7. QED
    BY <1>4, <1>5, <1>6

LEMMA MarkInvalidStep ==
    ASSUME IInv, NEW s \in Slots, MarkInvalid(s)
    PROVE  IInv'
PROOF
<1> DEFINE cur(b) == Marked(ops[s].cur, b)
           o == [ops[s] EXCEPT !.at = "exchange", !.tries = @ + 1,
                               !.cur = cur(ops[s].char \in allowed)]
<1>1. ops[s] # Idle /\ ops[s].at = "mark" /\ ops[s] \in Ops /\ Filled(ops[s])
    BY AtWork DEF MarkInvalid, At
<1>2. /\ ops[s].char \in Chars /\ ops[s].user \in Users /\ ops[s].orig \in Row
      /\ ops[s].cur \in Row /\ ops[s].do \in {"job", "request"}
    BY <1>1 DEF Filled, HasRow
<1>3. /\ UNCHANGED <<users, uploads, accepted, allowed, crossed, astray>>
      /\ events' \in Nat
    BY DEF MarkInvalid, Fault, IInv, TypeOK
<1>4. \A b \in BOOLEAN : cur(b) \in Row /\ cur(b).tok = ops[s].cur.tok
    BY <1>2, RowMarks
<1>5. (ops[s].char \in allowed) \in BOOLEAN /\ ops[s].cur.aff \in BOOLEAN
    BY <1>2 DEF Row
<1> HIDE DEF cur
<1>6. \/ (\E b \in BOOLEAN : Save(ops[s], cur(b))) /\ Go(s, Idle)
      \/ UNCHANGED <<rows, revoked, dropped>> /\ ops[s].tries < Retries /\ Go(s, o)
      \/ UNCHANGED <<rows, revoked>> /\ Go(s, Idle) /\ dropped' = dropped \cup {ops[s].char}
    BY <1>5, Zenon DEF MarkInvalid, End, cur
<1>7. ASSUME NEW b \in BOOLEAN, Save(ops[s], cur(b)), Go(s, Idle)
      PROVE  IInv'
  <2>1. cur(b) \in Row /\ cur(b).tok = ops[s].cur.tok
    BY <1>4
  <2>2. Overruled(ops[s]) => ops[s].late \/ cur(b).tok = ops[s].orig.tok
    BY <2>1 DEF Overruled
  <2>3. /\ ops' \in [Slots -> Ops \cup {Idle}] /\ OpsFilled' /\ RevokedInv'
        /\ rows' \in [Chars -> Row \cup {None}] /\ dropped' \subseteq Chars
        /\ revoked' \in [Chars -> {"no", "yes", "overtaken"}]
    BY <1>1, <1>2, <1>7, <2>1, <2>2, SavesOn
  <2>4. QED
    BY <1>3, <2>3 DEF IInv, TypeOK
<1>8. CASE UNCHANGED <<rows, revoked, dropped>> /\ ops[s].tries < Retries /\ Go(s, o)
  <2> DEFINE b == ops[s].char \in allowed
  <2>1. cur(b) \in Row /\ cur(b).tok = ops[s].cur.tok
    BY <1>4, <1>5, Zenon
  <2>2. ops[s].tries + 1 \in 0..Retries
    BY <1>1, <1>8 DEF Ops, Retries
  <2> HIDE DEF b
  <2>3. o = [ops[s] EXCEPT !.at = "exchange", !.tries = @ + 1, !.cur = cur(b)]
    BY Zenon DEF b
  <2> HIDE DEF o
  <2>4. o \in Ops
    BY <1>1, <2>1, <2>2, <2>3 DEF Ops
  <2>5. /\ o.at = "exchange" /\ o.char = ops[s].char /\ o.late = ops[s].late
        /\ o.do = ops[s].do /\ o.user = ops[s].user /\ o.orig = ops[s].orig /\ o.cur = cur(b)
    BY <1>1, <2>3 DEF Ops
  <2>6. Filled(o)
    BY <1>2, <2>1, <2>5 DEF Filled, HasRow
  <2>7. o.char \in Chars /\ revoked[o.char] = "yes" => Overruled(o)
    BY <1>1, <2>1, <2>5, Alike
  <2>8. ops' \in [Slots -> Ops \cup {Idle}] /\ OpsFilled' /\ RevokedInv'
    BY <1>8, <2>4, <2>6, <2>7, GoesOnAlone
  <2>9. QED
    BY <1>3, <1>8, <2>8 DEF IInv, TypeOK
<1>9. CASE UNCHANGED <<rows, revoked>> /\ Go(s, Idle) /\ dropped' = dropped \cup {ops[s].char}
  <2>1. ops' \in [Slots -> Ops \cup {Idle}] /\ OpsFilled' /\ RevokedInv'
    BY <1>9, Ends
  <2>2. QED
    BY <1>2, <1>3, <1>9, <2>1 DEF IInv, TypeOK
<1>10. QED
    BY <1>6, <1>7, <1>8, <1>9

LEMMA DeleteRowStep ==
    ASSUME IInv, NEW s \in Slots, DeleteRow(s)
    PROVE  IInv'
PROOF
<1> DEFINE o == [ops[s] EXCEPT !.at = "close"]
<1>1. ops[s] # Idle /\ ops[s].at = "delete" /\ ops[s] \in Ops /\ Filled(ops[s])
    BY AtWork DEF DeleteRow, At
<1>2. ops[s].char \in Chars /\ ops[s].user \in Users
    BY <1>1 DEF Filled
<1>3. /\ UNCHANGED <<users, uploads, accepted, allowed, events, history>>
      /\ rows' \in [Chars -> Row \cup {None}]
      /\ \A c \in Chars : rows'[c] = rows[c] \/ rows'[c] = None
    BY <1>2 DEF DeleteRow, IInv, TypeOK
<1>4. /\ o \in Ops /\ o.at = "close" /\ o.char = ops[s].char /\ o.late = ops[s].late
      /\ o.do = ops[s].do /\ o.user = ops[s].user
      /\ o.orig = ops[s].orig /\ o.cur = ops[s].cur
    BY <1>1 DEF Ops
<1>5. Go(s, o) \/ Go(s, Idle)
    BY DEF DeleteRow, End
<1> HIDE DEF o
<1>6. Filled(o)
    BY <1>1, <1>2, <1>4 DEF Filled, HasRow
<1>7. o.char \in Chars /\ revoked'[o.char] = "yes" => Overruled(o)
    BY <1>1, <1>3, <1>4, Alike DEF history
<1>8. \A c \in Chars : revoked'[c] = "yes" =>
        revoked[c] = "yes" /\ (rows'[c] # None => rows'[c].tok = None)
    BY <1>3 DEF IInv, RevokedInv, history
<1>9. ops' \in [Slots -> Ops \cup {Idle}] /\ OpsFilled' /\ RevokedInv'
    BY <1>4, <1>5, <1>6, <1>7, <1>8, GoesOn
<1>10. QED
    BY <1>3, <1>9 DEF IInv, TypeOK, history

LEMMA CloseAccountStep ==
    ASSUME IInv, NEW s \in Slots, CloseAccount(s)
    PROVE  IInv'
PROOF
<1>1. ops[s] # Idle /\ ops[s].at = "close" /\ ops[s] \in Ops /\ Filled(ops[s])
    BY AtWork DEF CloseAccount, At
<1>2. ops[s].user \in Users
    BY <1>1 DEF Filled
<1>3. users' \in [Users -> Chars \cup {None}]
    BY <1>2 DEF CloseAccount, Close, IInv, TypeOK
<1>4. UNCHANGED <<uploads, rows, accepted, allowed, events, history>> /\ Go(s, Idle)
    BY DEF CloseAccount, End
<1>5. ops' \in [Slots -> Ops \cup {Idle}] /\ OpsFilled' /\ RevokedInv'
    BY <1>4, Ends DEF history
<1>6. QED
    BY <1>3, <1>4, <1>5 DEF IInv, TypeOK, history

LEMMA SaveListedStep ==
    ASSUME IInv, NEW s \in Slots, SaveListed(s)
    PROVE  IInv'
PROOF
<1> DEFINE o(c) == [ops[s] EXCEPT !.list = [d \in DOMAIN ops[s].list \ {c} |-> ops[s].list[d]]]
           cur(c) == IF ops[s].do = "crown"
                     THEN [ops[s].list[c] EXCEPT !.main = c = ops[s].main]
                     ELSE [ops[s].list[c] EXCEPT !.user = ops[s].main, !.main = FALSE]
<1>1. ops[s] # Idle /\ ops[s].at = "rows" /\ ops[s] \in Ops /\ Filled(ops[s])
    BY AtWork DEF SaveListed, At
<1>2. ops[s].user \in Users /\ ops[s].list \in Lists
      /\ (ops[s].do # "crown" => ops[s].main \in Users)
    BY <1>1 DEF Filled, Ops
<1>3. UNCHANGED <<users, uploads, accepted, allowed, history>> /\ events' \in Nat
    BY DEF SaveListed, IInv, TypeOK, Fault
<1>4. PICK c \in DOMAIN ops[s].list :
        \/ rows' = Written(c, ops[s].list[c], cur(c)) /\ Go(s, o(c))
        \/ UNCHANGED rows /\ (Go(s, o(c)) \/ Go(s, Idle))
    BY <1>1 DEF SaveListed, End, Ops
<1> DEFINE r == ops[s].list[c]
<1>5. c \in Chars /\ r \in Row
    BY <1>2, Listed
<1>6. cur(c) \in Row /\ cur(c).tok = r.tok
  <2>1. /\ \A b \in BOOLEAN : [r EXCEPT !.main = b] \in Row /\ [r EXCEPT !.main = b].tok = r.tok
        /\ \A u \in Users : /\ [r EXCEPT !.user = u, !.main = FALSE] \in Row
                            /\ [r EXCEPT !.user = u, !.main = FALSE].tok = r.tok
    BY <1>5 DEF Row
  <2> HIDE DEF r
  <2>2. CASE ops[s].do = "crown"
    <3>1. (c = ops[s].main) \in BOOLEAN
      OBVIOUS
    <3>2. cur(c) = [r EXCEPT !.main = c = ops[s].main]
      BY <2>2 DEF r
    <3> HIDE DEF cur
    <3>3. QED
      BY <2>1, <3>1, <3>2, Zenon
  <2>3. CASE ops[s].do # "crown"
    <3>1. cur(c) = [r EXCEPT !.user = ops[s].main, !.main = FALSE]
      BY <2>3 DEF r
    <3> HIDE DEF cur
    <3>2. QED
      BY <1>2, <2>1, <2>3, <3>1
  <2>4. QED
    BY <2>2, <2>3
<1> HIDE DEF cur, r
<1> DEFINE p == o(c)
<1>7. p \in Ops
  <2>1. [d \in DOMAIN ops[s].list \ {c} |-> ops[s].list[d]] \in Lists
    BY <1>2, Listed
  <2>2. QED
    BY <1>1, <2>1 DEF Ops
<1>8. /\ p.at = "rows" /\ p.char = ops[s].char /\ p.late = ops[s].late /\ p.do = ops[s].do
      /\ p.user = ops[s].user /\ p.main = ops[s].main
      /\ p.orig = ops[s].orig /\ p.cur = ops[s].cur
    BY <1>1 DEF Ops
<1>9. \/ rows' = Written(c, r, cur(c)) /\ Go(s, p)
      \/ UNCHANGED rows /\ (Go(s, p) \/ Go(s, Idle))
    BY <1>4 DEF r
<1> HIDE DEF p
<1>10. Filled(p)
    BY <1>1, <1>2, <1>8 DEF Filled, HasRow
<1>11. p.char \in Chars /\ revoked[p.char] = "yes" => Overruled(p)
    BY <1>1, <1>8, Alike
<1>12. UNCHANGED revoked
    BY <1>3 DEF history
<1>13. /\ ops' \in [Slots -> Ops \cup {Idle}] /\ OpsFilled' /\ RevokedInv'
       /\ rows' \in [Chars -> Row \cup {None}]
  <2>1. CASE rows' = Written(c, r, cur(c)) /\ Go(s, p)
    BY <1>5, <1>6, <1>7, <1>10, <1>11, <1>12, <2>1, WritesOn DEF r
  <2>2. CASE UNCHANGED rows /\ (Go(s, p) \/ Go(s, Idle))
    <3>1. ops' \in [Slots -> Ops \cup {Idle}] /\ OpsFilled' /\ RevokedInv'
      BY <1>7, <1>10, <1>11, <1>12, <2>2, GoesOnAlone
    <3>2. QED
      BY <2>2, <3>1 DEF IInv, TypeOK
  <2>3. QED
    BY <1>9, <2>1, <2>2
<1>14. QED
    BY <1>3, <1>13 DEF IInv, TypeOK, history

LEMMA ListSavedStep ==
    ASSUME IInv, NEW s \in Slots, ListSaved(s)
    PROVE  IInv'
PROOF
<1> DEFINE o == [ops[s] EXCEPT !.at = "close"]
<1>1. ops[s] # Idle /\ ops[s].at = "rows" /\ ops[s] \in Ops /\ Filled(ops[s])
    BY AtWork DEF ListSaved, At
<1>2. ops[s].user \in Users
    BY <1>1 DEF Filled
<1>3. /\ UNCHANGED <<users, uploads, rows, accepted, allowed, events, history>>
      /\ Go(s, o) \/ Go(s, Idle)
    BY DEF ListSaved, End
<1>4. /\ o \in Ops /\ o.at = "close" /\ o.char = ops[s].char /\ o.late = ops[s].late
      /\ o.do = ops[s].do /\ o.user = ops[s].user
      /\ o.orig = ops[s].orig /\ o.cur = ops[s].cur
    BY <1>1 DEF Ops
<1> HIDE DEF o
<1>5. Filled(o)
    BY <1>1, <1>2, <1>4 DEF Filled, HasRow
<1>6. o.char \in Chars /\ revoked[o.char] = "yes" => Overruled(o)
    BY <1>1, <1>4, Alike
<1>7. ops' \in [Slots -> Ops \cup {Idle}] /\ OpsFilled' /\ RevokedInv'
    BY <1>3, <1>4, <1>5, <1>6, GoesOnAlone DEF history
<1>8. QED
    BY <1>3, <1>7 DEF IInv, TypeOK, history

\* A revocation: the row loses its token, and every other handler at work on
\* the character is late from now on.
LEMMA ClearTokensStep ==
    ASSUME IInv, NEW s \in Slots, ClearTokens(s)
    PROVE  IInv'
PROOF
<1> DEFINE o   == ops[s]
           cur == Cleared(ops[s].orig)
           Late(z) == [ops[z] EXCEPT !.late = TRUE]
<1>1. ops[s] # Idle /\ ops[s].at = "clear" /\ ops[s] \in Ops /\ Filled(ops[s])
    BY AtWork DEF ClearTokens, At
<1>2. ops[s].char \in Chars /\ ops[s].user \in Users /\ ops[s].orig \in Row
    BY <1>1 DEF Filled, HasRow
<1>3. cur \in Row /\ cur.tok = None
    BY <1>2, RowMarks
<1> HIDE DEF cur
<1>4. UNCHANGED <<users, uploads, accepted, allowed, events, crossed, astray, dropped>>
    BY DEF ClearTokens
<1>5. CASE ~CanSave(cur)
  <2>1. UNCHANGED <<rows, revoked>> /\ Go(s, Idle)
    BY <1>5 DEF ClearTokens, End, cur
  <2>2. ops' \in [Slots -> Ops \cup {Idle}] /\ OpsFilled' /\ RevokedInv'
    BY <2>1, Ends
  <2>3. QED
    BY <1>4, <2>1, <2>2 DEF IInv, TypeOK
<1>6. CASE CanSave(cur)
  <2>1. /\ rows' = Written(ops[s].char, ops[s].orig, cur)
        /\ revoked' = [revoked EXCEPT ![ops[s].char] =
                         IF ops[s].orig.tok # None /\ Present(ops[s].char, ops[s].orig)
                         THEN "yes" ELSE @]
        /\ ops' = [z \in Slots |->
                     IF z = s THEN Idle
                     ELSE IF ops[z] # Idle /\ ops[z].char = ops[s].char
                     THEN Late(z) ELSE ops[z]]
    BY <1>6 DEF ClearTokens, cur
  <2>2. /\ rows' \in [Chars -> Row \cup {None}]
        /\ \A d \in Chars \ {ops[s].char} : rows'[d] = rows[d]
        /\ ops[s].orig.tok = None /\ rows'[ops[s].char] # None
             => /\ rows[ops[s].char] # None
                /\ rows'[ops[s].char].tok = rows[ops[s].char].tok
        /\ ops[s].orig.tok # None /\ Present(ops[s].char, ops[s].orig)
             => rows'[ops[s].char].tok = None
        /\ ~Present(ops[s].char, ops[s].orig) => rows' = rows
    <3>1. ~Present(ops[s].char, ops[s].orig) => rows' = rows
      BY <2>1 DEF Written
    <3>2. QED
      BY <1>2, <1>3, <2>1, <3>1, WrittenRow DEF IInv
  <2>3. revoked \in [Chars -> {"no", "yes", "overtaken"}] /\ ops \in [Slots -> Ops \cup {Idle}]
    BY DEF IInv, TypeOK
  <2>4. revoked' \in [Chars -> {"no", "yes", "overtaken"}]
    BY <1>2, <2>1, <2>3
  <2>5. ASSUME NEW z \in Slots, ops[z] # Idle
        PROVE  /\ Late(z) \in Ops /\ Filled(Late(z)) /\ Late(z).late
               /\ Late(z).char = ops[z].char
    <3> DEFINE p == Late(z)
    <3>1. ops[z] \in Ops /\ Filled(ops[z])
      BY <2>5, AtWork
    <3>2. p \in Ops /\ p.late
      <4>1. p = [ops[z] EXCEPT !.late = TRUE]
        OBVIOUS
      <4> HIDE DEF p
      <4>2. p \in Ops
        BY <3>1, <4>1 DEF Ops
      <4>3. "late" \in DOMAIN ops[z]
        BY <3>1 DEF Ops
      <4>4. p.late
        BY <4>1, <4>3, Zenon
      <4>5. QED
        BY <4>2, <4>4
    <3>3. /\ p.at = ops[z].at /\ p.char = ops[z].char /\ p.do = ops[z].do
          /\ p.user = ops[z].user /\ p.orig = ops[z].orig /\ p.cur = ops[z].cur
          /\ p.main = ops[z].main
      BY <3>1 DEF Ops
    <3> HIDE DEF p
    <3>4. Filled(p)
      BY <3>1, <3>3 DEF Filled, HasRow
    <3>5. QED
      BY <3>2, <3>3, <3>4 DEF p
  <2> HIDE DEF Late
  <2>6. \A z \in Slots : \/ ops'[z] = Idle
                         \/ ops[z] # Idle /\ ops[z].char = ops[s].char /\ ops'[z] = Late(z)
                         \/ ops[z] # Idle /\ ops[z].char # ops[s].char /\ ops'[z] = ops[z]
    BY <2>1
  <2>7. ops' \in [Slots -> Ops \cup {Idle}]
    BY <2>1, <2>3, <2>5
  <2>8. OpsFilled'
    BY <2>5, <2>6 DEF IInv, OpsFilled
  <2>9. ASSUME NEW c \in Chars, revoked'[c] = "yes", rows'[c] # None
        PROVE  rows'[c].tok = None
    <3>1. CASE c # ops[s].char
      BY <1>2, <2>1, <2>2, <2>3, <2>9, <3>1 DEF IInv, RevokedInv
    <3>2. CASE c = ops[s].char /\ ops[s].orig.tok # None /\ Present(ops[s].char, ops[s].orig)
      BY <2>2, <3>2
    <3>3. CASE c = ops[s].char /\ ~(ops[s].orig.tok # None /\ Present(ops[s].char, ops[s].orig))
      <4>1. revoked[c] = "yes"
        BY <1>2, <2>1, <2>3, <2>9, <3>3
      <4>2. QED
        BY <2>2, <2>9, <3>3, <4>1 DEF IInv, RevokedInv
    <3>4. QED
      BY <3>1, <3>2, <3>3
  <2>10. ASSUME NEW c \in Chars, revoked'[c] = "yes", NEW z \in Slots,
                ops'[z] # Idle, ops'[z].char = c
         PROVE  Overruled(ops'[z])
    <3>1. CASE ops[z] # Idle /\ ops[z].char = ops[s].char /\ ops'[z] = Late(z)
      BY <2>5, <3>1 DEF Overruled
    <3>2. CASE ops[z] # Idle /\ ops[z].char # ops[s].char /\ ops'[z] = ops[z]
      <4>1. revoked[c] = "yes"
        BY <1>2, <2>1, <2>3, <2>10, <3>2
      <4>2. QED
        BY <2>10, <3>2, <4>1 DEF IInv, RevokedInv
    <3>3. QED
      BY <2>6, <2>10, <3>1, <3>2
  <2>11. RevokedInv'
    BY <2>9, <2>10 DEF RevokedInv
  <2>12. QED
    BY <1>4, <2>2, <2>4, <2>7, <2>8, <2>11 DEF IInv, TypeOK
<1>7. QED
    BY <1>5, <1>6

-----------------------------------------------------------------------------
LEMMA InitIInv == Init => IInv
PROOF
<1> SUFFICES ASSUME Init PROVE IInv
    OBVIOUS
<1>1. rows \in [Chars -> Row \cup {None}]
  <2>1. MaxAlone \in Nat /\ 0 \in 0..MaxAlone /\ 1 \in Tokens
    BY AccountsAssumption DEF Tokens, Retries
  <2>2. [id : {0}, user : Users, main : BOOLEAN, tok : {1}, valid : {TRUE}, aff : {TRUE}]
          \subseteq Row
    BY <2>1 DEF Row
  <2>3. QED
    BY <2>2 DEF Init
<1>2. users \in [Users -> Chars \cup {None}]
  <2>1. ASSUME NEW u \in Users, Owned(u) # {}
        PROVE  (CHOOSE c \in MainsOf(u) : TRUE) \in Chars
    <3>1. \E c \in Chars : MainsOf(u) = {c}
      BY <2>1 DEF Init
    <3>2. MainsOf(u) # {}
      BY <3>1
    <3>3. QED
      BY <3>2 DEF MainsOf, Owned
  <2>2. users = [u \in Users |-> IF Owned(u) = {} THEN None
                                 ELSE CHOOSE c \in MainsOf(u) : TRUE]
    BY DEF Init
  <2>3. QED
    BY <2>1, <2>2, Zenon
<1>3. uploads \in [Users -> {"live", "revoked", "gone"}]
    BY DEF Init
<1>4. accepted \in [Chars -> SUBSET Tokens]
  <2>1. 1 \in Tokens
    BY AccountsAssumption DEF Tokens, Retries
  <2>2. QED
    BY <2>1 DEF Init
<1>5. ops \in [Slots -> Ops \cup {Idle}] /\ \A s \in Slots : ops[s] = Idle
    BY DEF Init
<1>6. /\ allowed \subseteq Chars /\ events \in Nat /\ crossed \in BOOLEAN
      /\ astray \subseteq Users /\ dropped \subseteq Chars
      /\ revoked \in [Chars -> {"no", "yes", "overtaken"}]
      /\ \A c \in Chars : revoked[c] = "no"
    BY DEF Init
<1>7. QED
    BY <1>1, <1>2, <1>3, <1>4, <1>5, <1>6 DEF IInv, TypeOK, OpsFilled, RevokedInv

\* Every step keeps the invariant.
LEMMA GiveUpStep ==
    ASSUME IInv, NEW s \in Slots, GiveUp(s)
    PROVE  IInv'
PROOF
<1>1. ops[s] # Idle /\ ops[s] \in Ops /\ Filled(ops[s])
    BY AtWork DEF GiveUp
<1>2. /\ UNCHANGED <<users, uploads, rows, accepted, allowed, crossed, revoked>>
      /\ events' \in Nat /\ Go(s, Idle)
    BY DEF GiveUp, End, Fault, IInv, TypeOK
<1>3. ops' \in [Slots -> Ops \cup {Idle}] /\ OpsFilled' /\ RevokedInv'
    BY <1>2, Ends
<1>4. dropped' \subseteq Chars
    BY <1>1 DEF GiveUp, Filled, Refreshing, IInv, TypeOK
<1>5. astray' \subseteq Users
  <2>1. ops[s].at = "name" => ops[s].user \in Users
    BY <1>1 DEF Filled
  <2>2. QED
    BY <2>1, AstrayAccounts DEF GiveUp, IInv, TypeOK
<1>6. QED
    BY <1>2, <1>3, <1>4, <1>5 DEF IInv, TypeOK

LEMMA StepIInv == IInv /\ [Next]_vars => IInv'
PROOF
<1> SUFFICES ASSUME IInv, [Next]_vars PROVE IInv'
    OBVIOUS
<1>1. ASSUME NEW s \in Slots, Start(s) PROVE IInv'
    BY <1>1, StartStep
<1>2. ASSUME NEW s \in Slots, Continue(s) PROVE IInv'
    BY <1>2, AffiliationStep, FindAccountStep, InsertMainStep, UpsertRowStep, EnsureMainStep,
       RefreshMainAffiliationStep, NameAccountStep, CheckLinkStep, StoreLinkStep,
       ExchangeTokenStep, ResolveRefreshStep, SaveRefreshStep, MarkInvalidStep, DeleteRowStep,
       CloseAccountStep, SaveListedStep, ListSavedStep, ClearTokensStep, GiveUpStep,
       Zenon DEF Continue
<1>3. ASSUME NEW u \in Users, SweepUploads(u) PROVE IInv'
    BY <1>3 DEF SweepUploads, IInv, TypeOK, OpsFilled, RevokedInv, history
<1>4. CASE UNCHANGED vars
    BY <1>4 DEF vars, IInv, TypeOK, OpsFilled, RevokedInv
<1>5. QED
    BY <1>1, <1>2, <1>3, <1>4 DEF Next

THEOREM Invariant == Spec => []IInv
PROOF
<1>1. Init => IInv
    BY InitIInv
<1>2. IInv /\ [Next]_vars => IInv'
    BY StepIInv
<1>3. QED
    BY <1>1, <1>2, PTL DEF Spec

\* The variables keep their types.
THEOREM TypeCorrect == Spec => []TypeOK
PROOF
<1>1. IInv => TypeOK
    BY DEF IInv
<1>2. QED
    BY <1>1, Invariant, PTL

\* Tokens an administrator revoked come back only with a login or linking begun
\* later, or from a handler that had loaded the row before.
THEOREM Revocation == Spec => []RevokedStayAway
PROOF
<1>1. IInv => RevokedStayAway
    BY DEF IInv, RevokedInv, RevokedStayAway
<1>2. QED
    BY <1>1, Invariant, PTL

-----------------------------------------------------------------------------
(* Marks.                                                                  *)

MInv == UnstoredInv /\ LoadedInv /\ MarkInv

\* A row that is left with its identifier and its token and is not marked.
Kept(c) == /\ rows[c] # None /\ rows'[c].id = rows[c].id /\ rows'[c].tok = rows[c].tok
           /\ rows'[c].valid => rows[c].valid

\* What a handler holds fits the table and what the others hold.
Fits(s, n, c) ==
    /\ Unstored(n) \subseteq Tokens
    /\ HasNew(n) => n.tok \in accepted'[c]
    /\ n.orig # None => n.orig.tok \notin Unstored(n)
    /\ rows'[c] # None => rows'[c].tok \notin Unstored(n)
    /\ \A z \in Busy(c) \ {s} : /\ Unstored(n) \cap Known(ops[z]) = {}
                                /\ Unstored(ops[z]) \cap Known(n) = {}
    /\ Settled(n)
    /\ (/\ Refreshing(n) \/ NamedByJob(n)
        /\ rows'[c] # None /\ rows'[c].tok # None /\ rows'[c].tok = n.orig.tok)
       => rows'[c].id = n.orig.id /\ (rows'[c].valid => n.orig.valid)

LEMMA Others ==
    ASSUME IInv, NEW s \in Slots, NEW n, Go(s, n)
    PROVE  /\ ops'[s] = n /\ \A z \in Slots \ {s} : ops'[z] = ops[z]
           /\ \A c : \A z \in Busy(c)' : \/ z = s /\ n # Idle /\ n.char = c
                                         \/ z # s /\ z \in Busy(c)
           /\ \A c : \A z \in Busy(c) \ {s} : z \in Busy(c)'
           /\ \A c : n # Idle /\ n.char = c => s \in Busy(c)'
PROOF
  BY DEF IInv, TypeOK, Go, Busy

\* A row that a handler at work on it has loaded.
LEMMA LoadedRow ==
    ASSUME IInv, NEW c \in Chars, NEW s \in Busy(c)
    PROVE  /\ s \in Slots /\ ops[s] # Idle /\ ops[s] \in Ops /\ Filled(ops[s]) /\ ops[s].char = c
           /\ Refreshing(ops[s]) \/ NamedByJob(ops[s]) =>
                /\ ops[s].orig \in Row /\ ops[s].cur \in Row /\ ops[s].orig # None
                /\ ops[s].orig.tok \in Known(ops[s])
           /\ Unstored(ops[s]) \subseteq Known(ops[s])
PROOF
<1>1. /\ s \in Slots /\ ops[s] # Idle /\ ops[s] \in Ops /\ Filled(ops[s]) /\ ops[s].char = c
    BY AtWork DEF Busy
<1>2. ASSUME Refreshing(ops[s]) \/ NamedByJob(ops[s])
      PROVE  ops[s].orig \in Row /\ ops[s].cur \in Row /\ ops[s].orig # None
    BY <1>1, <1>2, NoneIsNothing DEF Refreshing, NamedByJob, Filled, HasRow
<1>3. QED
    BY <1>1, <1>2 DEF Known, Unstored

\* The tokens nobody has stored stay with their handlers, and what was loaded
\* stays true, when one handler goes on and either leaves a row alone, or takes
\* its token away, or stores one of its own.
LEMMA TokensGoOn ==
    ASSUME IInv, MInv, NEW s \in Slots, NEW n, Go(s, n),
           \A c \in Chars : rows'[c] # None =>
             \/ rows'[c].tok = None
             \/ Kept(c)
             \/ s \in Busy(c) /\ rows'[c].tok \in Unstored(ops[s]),
           \A c \in Chars : \A z \in Busy(c) \ {s} :
             HasNew(ops[z]) => ops[z].tok \in accepted'[c],
           n # Idle => \A c \in Chars : n.char = c => Fits(s, n, c)
    PROVE  UnstoredInv' /\ LoadedInv'
PROOF
<1>1. UnstoredInv'
  <2> SUFFICES ASSUME NEW c \in Chars, NEW z \in Busy(c)'
               PROVE  /\ Unstored(ops'[z]) \subseteq Tokens
                      /\ HasNew(ops'[z]) => ops'[z].tok \in accepted'[c]
                      /\ ops'[z].orig # None => ops'[z].orig.tok \notin Unstored(ops'[z])
                      /\ rows'[c] # None => rows'[c].tok \notin Unstored(ops'[z])
                      /\ \A y \in Busy(c)' \ {z} : Unstored(ops'[z]) \cap Known(ops'[y]) = {}
    BY DEF UnstoredInv
  <2>1. CASE z = s
    <3>1. ops'[z] = n /\ Fits(s, n, c)
      BY <2>1, Others
    <3>2. \A y \in Busy(c)' \ {z} : y \in Busy(c) \ {s} /\ ops'[y] = ops[y]
      BY <2>1, Others DEF Busy
    <3>3. QED
      BY <3>1, <3>2 DEF Fits
  <2>2. CASE z # s
    <3>1. z \in Busy(c) \ {s} /\ ops'[z] = ops[z]
      BY <2>2, Others DEF Busy
    <3>2. /\ Unstored(ops[z]) \subseteq Tokens
          /\ ops[z].orig # None => ops[z].orig.tok \notin Unstored(ops[z])
          /\ rows[c] # None => rows[c].tok \notin Unstored(ops[z])
          /\ \A y \in Busy(c) \ {z} : Unstored(ops[z]) \cap Known(ops[y]) = {}
      BY <3>1 DEF MInv, UnstoredInv
    <3>3. ASSUME rows'[c] # None PROVE rows'[c].tok \notin Unstored(ops[z])
      <4>1. CASE rows'[c].tok = None
        BY <3>2, <4>1, NoneIsNothing
      <4>2. CASE Kept(c)
        BY <3>2, <4>2 DEF Kept
      <4>3. CASE s \in Busy(c) /\ rows'[c].tok \in Unstored(ops[s])
        <5>1. rows'[c].tok \in Known(ops[s])
          BY <4>3, LoadedRow
        <5>2. QED
          BY <2>2, <3>2, <4>3, <5>1
      <4>4. QED
        BY <3>3, <4>1, <4>2, <4>3
    <3>4. ASSUME NEW y \in Busy(c)' \ {z} PROVE Unstored(ops[z]) \cap Known(ops'[y]) = {}
      <4>1. CASE y = s
        <5>1. ops'[y] = n /\ Fits(s, n, c)
          BY <4>1, Others
        <5>2. QED
          BY <3>1, <5>1 DEF Fits
      <4>2. CASE y # s
        <5>1. y \in Busy(c) \ {z} /\ ops'[y] = ops[y]
          BY <4>2, Others DEF Busy
        <5>2. QED
          BY <3>2, <5>1
      <4>3. QED
        BY <4>1, <4>2
    <3>5. QED
      BY <3>1, <3>2, <3>3, <3>4
  <2>3. QED
    BY <2>1, <2>2
<1>2. LoadedInv'
  <2> SUFFICES ASSUME NEW c \in Chars, NEW z \in Busy(c)'
               PROVE  Settled(ops'[z]) /\ Loaded(ops[z], c)'
    BY DEF LoadedInv
  <2>1. CASE z = s
    <3>1. ops'[z] = n /\ Fits(s, n, c)
      BY <2>1, Others
    <3>2. QED
      BY <3>1 DEF Fits, Loaded, Present, Refreshing, NamedByJob
  <2>2. CASE z # s
    <3>1. z \in Busy(c) \ {s} /\ ops'[z] = ops[z]
      BY <2>2, Others DEF Busy
    <3>2. Settled(ops[z]) /\ Loaded(ops[z], c)
      BY <3>1 DEF MInv, LoadedInv
    <3>3. ASSUME Refreshing(ops[z]) \/ NamedByJob(ops[z]),
                 rows'[c] # None, rows'[c].tok # None, rows'[c].tok = ops[z].orig.tok
          PROVE  rows'[c].id = ops[z].orig.id /\ (rows'[c].valid => ops[z].orig.valid)
      <4>1. CASE Kept(c)
        BY <3>2, <3>3, <4>1 DEF Kept, Loaded, Present
      <4>2. CASE s \in Busy(c) /\ rows'[c].tok \in Unstored(ops[s])
        <5>1. ops[z].orig.tok \in Known(ops[z])
          BY <3>1, <3>3, LoadedRow
        <5>2. Unstored(ops[s]) \cap Known(ops[z]) = {}
          BY <2>2, <3>1, <4>2 DEF MInv, UnstoredInv
        <5>3. QED
          BY <3>3, <4>2, <5>1, <5>2
      <4>3. QED
        BY <3>3, <4>1, <4>2
    <3>4. Loaded(ops[z], c)'
      BY <3>1, <3>3 DEF Loaded, Present, Refreshing, NamedByJob
    <3>5. QED
      BY <3>1, <3>2, <3>4
  <2>3. QED
    BY <2>1, <2>2
<1>3. QED
    BY <1>1, <1>2

\* A row that is dead after the step was so before and its refresher is still
\* there, or the handler of the step answers for it.
LEMMA MarksGoOn ==
    ASSUME IInv, MInv, NEW s \in Slots, NEW n, Go(s, n),
           \A c \in Chars \ dropped' : Dead(c)' =>
             \/ /\ c \notin dropped /\ Dead(c)
                /\ rows'[c].id = rows[c].id /\ rows'[c].tok = rows[c].tok
                /\ s \in Busy(c) /\ Answers(s, c) => n # Idle /\ n.char = c /\ Answers(s, c)'
             \/ n # Idle /\ n.char = c /\ Answers(s, c)'
    PROVE  MarkInv'
PROOF
<1> SUFFICES ASSUME NEW c \in Chars \ dropped', Dead(c)'
             PROVE  \E z \in Busy(c)' : Answers(z, c)'
    BY DEF MarkInv
<1>1. CASE n # Idle /\ n.char = c /\ Answers(s, c)'
    BY <1>1, Others
<1>2. CASE /\ c \notin dropped /\ Dead(c)
           /\ rows'[c].id = rows[c].id /\ rows'[c].tok = rows[c].tok
           /\ s \in Busy(c) /\ Answers(s, c) => n # Idle /\ n.char = c /\ Answers(s, c)'
  <2>1. PICK z \in Busy(c) : Answers(z, c)
    BY <1>2 DEF MInv, MarkInv
  <2>2. CASE z = s
    BY <1>1, <1>2, <2>1, <2>2
  <2>3. CASE z # s
    <3>1. z \in Busy(c)' /\ ops'[z] = ops[z]
      BY <2>1, <2>3, Others DEF Busy
    <3>2. rows'[c] # None
      BY DEF Dead
    <3>3. Answers(z, c)'
      BY <1>2, <2>1, <3>1, <3>2 DEF Answers, Present, Refreshing
    <3>4. QED
      BY <3>1, <3>3
  <2>4. QED
    BY <2>2, <2>3
<1>3. QED
    BY <1>1, <1>2

\* A handler that goes on without a new token.
Tame(n, o) ==
    /\ n.char = o.char
    /\ Unstored(n) \subseteq Unstored(o) /\ Known(n) \subseteq Known(o)
    /\ HasNew(n) => HasNew(o) /\ n.tok = o.tok
    /\ n.orig # None => n.orig.tok \notin Unstored(n)
    /\ Settled(n)
    /\ Refreshing(n) \/ NamedByJob(n) => /\ n.orig = o.orig
                                         /\ Refreshing(o) \/ NamedByJob(o)

LEMMA TamelyOn ==
    ASSUME IInv, MInv, NEW s \in Slots, NEW n, ops[s] # Idle, Go(s, n),
           n = Idle \/ (n.char = ops[s].char /\ (n.char \in Chars => Tame(n, ops[s]))),
           UNCHANGED accepted, dropped \subseteq dropped',
           \A c \in Chars : rows'[c] # None => Kept(c),
           \A c \in Chars \ dropped' : s \in Busy(c) /\ Answers(s, c) /\ Dead(c)' =>
             n # Idle /\ Answers(s, c)'
    PROVE  MInv'
PROOF
<1>1. \A c \in Chars : \A z \in Busy(c) \ {s} : HasNew(ops[z]) => ops[z].tok \in accepted'[c]
    BY DEF MInv, UnstoredInv
<1>2. ASSUME n # Idle, NEW c \in Chars, n.char = c PROVE Fits(s, n, c)
  <2>1. s \in Busy(c) /\ Tame(n, ops[s])
    BY <1>2 DEF Busy
  <2>2. /\ Unstored(ops[s]) \subseteq Tokens
        /\ HasNew(ops[s]) => ops[s].tok \in accepted[c]
        /\ rows[c] # None => rows[c].tok \notin Unstored(ops[s])
        /\ \A z \in Busy(c) \ {s} : /\ Unstored(ops[s]) \cap Known(ops[z]) = {}
                                    /\ Unstored(ops[z]) \cap Known(ops[s]) = {}
    BY <2>1 DEF MInv, UnstoredInv
  <2>3. Loaded(ops[s], c)
    BY <2>1 DEF MInv, LoadedInv
  <2>4. rows'[c] # None => rows'[c].tok \notin Unstored(n)
    BY <2>1, <2>2 DEF Tame, Kept
  <2>5. /\ Unstored(n) \subseteq Tokens
        /\ HasNew(n) => n.tok \in accepted'[c]
        /\ n.orig # None => n.orig.tok \notin Unstored(n)
        /\ \A z \in Busy(c) \ {s} : /\ Unstored(n) \cap Known(ops[z]) = {}
                                    /\ Unstored(ops[z]) \cap Known(n) = {}
        /\ Settled(n)
    BY <2>1, <2>2 DEF Tame
  <2>6. (/\ Refreshing(n) \/ NamedByJob(n)
         /\ rows'[c] # None /\ rows'[c].tok # None /\ rows'[c].tok = n.orig.tok)
        => rows'[c].id = n.orig.id /\ (rows'[c].valid => n.orig.valid)
    BY <2>1, <2>3 DEF Tame, Kept, Loaded, Present
  <2>7. QED
    BY <2>4, <2>5, <2>6 DEF Fits
<1>3. UnstoredInv' /\ LoadedInv'
    BY <1>1, <1>2, TokensGoOn
<1>4. ASSUME NEW c \in Chars \ dropped', Dead(c)'
      PROVE  /\ c \notin dropped /\ Dead(c)
             /\ rows'[c].id = rows[c].id /\ rows'[c].tok = rows[c].tok
             /\ s \in Busy(c) /\ Answers(s, c) => n # Idle /\ n.char = c /\ Answers(s, c)'
  <2>1. rows'[c] # None /\ Kept(c)
    BY <1>4 DEF Dead
  <2>2. Dead(c)
    BY <1>4, <2>1 DEF Dead, Kept
  <2>3. s \in Busy(c) /\ Answers(s, c) => n # Idle /\ n.char = c /\ Answers(s, c)'
    BY <1>4 DEF Busy
  <2>4. QED
    BY <2>1, <2>2, <2>3 DEF Kept
<1>5. MarkInv'
    BY <1>4, MarksGoOn
<1>6. QED
    BY <1>3, <1>5 DEF MInv

\* A handler that is no refresh never answers for a row; it goes on tamely as
\* long as it keeps its token and the row it has loaded.
LEMMA NoRefresh ==
    ASSUME IInv, MInv, NEW s \in Slots, NEW n, ops[s] # Idle, ops[s].char \in Chars,
           ops[s].do \notin {"job", "request"},
           n.do = ops[s].do, n.char = ops[s].char, n.tok = ops[s].tok, n.orig = ops[s].orig,
           n.tries = ops[s].tries, n.at \notin {"save", "mark"}, HasNew(n) => HasNew(ops[s])
    PROVE  Tame(n, ops[s])
PROOF
<1>1. s \in Busy(ops[s].char)
    BY DEF Busy
<1>2. Settled(ops[s]) /\ (ops[s].orig # None => ops[s].orig.tok \notin Unstored(ops[s]))
    BY <1>1 DEF MInv, UnstoredInv, LoadedInv
<1>3. ~Refreshing(n) /\ ~Refreshing(ops[s]) /\ ~NamedByJob(n)
    BY DEF Refreshing, NamedByJob
<1>4. Unstored(n) \subseteq Unstored(ops[s]) /\ Known(n) \subseteq Known(ops[s])
    BY <1>3 DEF Unstored, Known
<1>5. Settled(n)
    BY <1>2, <1>3 DEF Settled
<1>6. QED
    BY <1>2, <1>3, <1>4, <1>5 DEF Tame

LEMMA NoRefreshOn ==
    ASSUME IInv, MInv, NEW s \in Slots, NEW n, ops[s] # Idle, Go(s, n),
           ops[s].do \notin {"job", "request"},
           \/ n = Idle
           \/ /\ n.do = ops[s].do /\ n.char = ops[s].char /\ n.tok = ops[s].tok
              /\ n.orig = ops[s].orig /\ n.tries = ops[s].tries
              /\ n.at \notin {"save", "mark"} /\ (HasNew(n) => HasNew(ops[s])),
           UNCHANGED <<accepted, dropped>>,
           \A c \in Chars : rows'[c] # None => Kept(c)
    PROVE  MInv'
PROOF
<1>1. n = Idle \/ (n.char = ops[s].char /\ (n.char \in Chars => Tame(n, ops[s])))
    BY NoRefresh
<1>2. \A c : ~Answers(s, c)
    BY DEF Answers, Refreshing
<1>3. QED
    BY <1>1, <1>2, TamelyOn

\* What a save writes.
LEMMA WrittenFields ==
    ASSUME TypeOK, NEW c \in Chars, NEW orig \in Row, NEW cur \in Row, cur.id = orig.id
    PROVE  /\ ~Present(c, orig) => Written(c, orig, cur) = rows
           /\ \A d \in Chars \ {c} : Written(c, orig, cur)[d] = rows[d]
           /\ Present(c, orig) =>
                LET w == Written(c, orig, cur)[c] IN
                /\ w \in Row /\ w.id = rows[c].id
                /\ w.tok = IF cur.tok # orig.tok THEN cur.tok ELSE rows[c].tok
                /\ w.valid = IF cur.valid # orig.valid THEN cur.valid ELSE rows[c].valid
PROOF
<1> DEFINE New(r) == [f \in DOMAIN r |-> IF cur[f] # orig[f] THEN cur[f] ELSE r[f]]
<1>1. ASSUME NEW r \in Row
      PROVE  /\ New(r) \in Row /\ New(r).id = r.id
             /\ New(r).tok = IF cur.tok # orig.tok THEN cur.tok ELSE r.tok
             /\ New(r).valid = IF cur.valid # orig.valid THEN cur.valid ELSE r.valid
    BY <1>1 DEF Row
<1>2. rows \in [Chars -> Row \cup {None}]
    BY DEF TypeOK
<1>3. CASE ~Present(c, orig)
    BY <1>2, <1>3 DEF Written
<1>4. CASE Present(c, orig)
  <2>1. rows[c] \in Row /\ rows[c] # None
    BY <1>2, <1>4 DEF Present
  <2>2. Written(c, orig, cur) = [rows EXCEPT ![c] = New(rows[c])]
    BY <1>4, Zenon DEF Written
  <2> HIDE DEF New
  <2>3. /\ Written(c, orig, cur)[c] = New(rows[c])
        /\ \A d \in Chars \ {c} : Written(c, orig, cur)[d] = rows[d]
    BY <1>2, <2>2
  <2>4. QED
    BY <1>1, <1>4, <2>1, <2>3
<1>5. QED
    BY <1>3, <1>4

\* A save that changes neither token nor mark leaves every row kept.
LEMMA WrittenKept ==
    ASSUME TypeOK, NEW c \in Chars, NEW orig \in Row, NEW cur \in Row, cur.id = orig.id,
           cur.tok = orig.tok, cur.valid => orig.valid, rows' = Written(c, orig, cur)
    PROVE  \A d \in Chars : rows'[d] # None => Kept(d)
PROOF
<1>1. CASE ~Present(c, orig)
    BY <1>1, WrittenFields DEF Kept
<1>2. CASE Present(c, orig)
  <2>1. /\ rows[c] # None /\ rows'[c].id = rows[c].id /\ rows'[c].tok = rows[c].tok
        /\ rows'[c].valid = IF cur.valid # orig.valid THEN cur.valid ELSE rows[c].valid
    BY <1>2, WrittenFields DEF Present
  <2>2. rows'[c].valid => rows[c].valid
  <3>1. cur.valid \in BOOLEAN /\ orig.valid \in BOOLEAN
    BY DEF Row
  <3>2. QED
    BY <2>1, <3>1
  <2>3. Kept(c)
    BY <2>1, <2>2 DEF Kept
  <2>4. \A d \in Chars \ {c} : rows'[d] = rows[d]
    BY WrittenFields
  <2>5. QED
    BY <2>3, <2>4 DEF Kept
<1>3. QED
    BY <1>1, <1>2

\* Logins and links up to the place where they store their token, and after it.
LEMMA CallbackMarks ==
    ASSUME IInv, MInv, NEW s \in Slots,
           \/ Affiliation(s) \/ FindAccount(s) \/ CheckLink(s)
           \/ EnsureMain(s) \/ RefreshMainAffiliation(s)
    PROVE  MInv'
PROOF
<1> DEFINE Alike_(n) == /\ n.do = ops[s].do /\ n.char = ops[s].char /\ n.tok = ops[s].tok
                        /\ n.orig = ops[s].orig /\ n.tries = ops[s].tries
           Same(n) == \/ n = Idle
                      \/ Alike_(n) /\ n.at \notin {"save", "mark"} /\ (HasNew(n) => HasNew(ops[s]))
<1>1. ops[s] # Idle /\ ops[s] \in Ops /\ Filled(ops[s])
    BY AtWork DEF Affiliation, FindAccount, CheckLink, EnsureMain, RefreshMainAffiliation, At
<1>2. ops[s].do \in {"login", "link"}
    BY <1>1 DEF Affiliation, FindAccount, CheckLink, EnsureMain, RefreshMainAffiliation, At, Filled
<1>3. UNCHANGED <<accepted, dropped>>
    BY DEF Affiliation, FindAccount, CheckLink, EnsureMain, RefreshMainAffiliation, history
<1>4. \A c \in Chars : rows[c] # None /\ rows'[c] = rows[c] => Kept(c)
    BY DEF Kept
<1>5. CASE Affiliation(s)
  <2> DEFINE o(b) == [ops[s] EXCEPT !.aff = b,
                        !.at = IF ops[s].do = "link" THEN "link" ELSE "account"]
  <2>1. /\ ops[s].at = "affiliation" /\ UNCHANGED rows
        /\ Go(s, Idle) \/ \E b : Go(s, o(b))
    BY <1>5 DEF Affiliation, At, End
  <2>2. ASSUME NEW b PROVE Same(o(b))
    <3> DEFINE n == o(b)
    <3>1. Alike_(n) /\ n.at \in {"link", "account"}
      BY <1>1 DEF Ops
    <3> HIDE DEF n
    <3>2. Same(n)
      BY <2>1, <3>1 DEF HasNew
    <3>3. QED
      BY <3>2 DEF n
  <2> HIDE DEF o
  <2>3. PICK n : Go(s, n) /\ Same(n)
    BY <2>1, <2>2
  <2>4. QED
    BY <1>1, <1>2, <1>3, <1>4, <2>1, <2>3, NoRefreshOn
<1>6. CASE FindAccount(s)
  <2> DEFINE o(u, b, at) == [ops[s] EXCEPT !.user = u, !.sub = b, !.at = at]
  <2>1. /\ ops[s].at = "account" /\ UNCHANGED rows
        /\ \/ Go(s, Idle)
           \/ \E u, b : Go(s, o(u, b, "upsert")) \/ Go(s, o(u, b, "insert"))
    BY <1>6 DEF FindAccount, At, End
  <2>2. ASSUME NEW u, NEW b, NEW at \in {"upsert", "insert"} PROVE Same(o(u, b, at))
    <3> DEFINE n == o(u, b, at)
    <3>1. Alike_(n) /\ n.at = at
      BY <1>1 DEF Ops
    <3> HIDE DEF n
    <3>2. Same(n)
      BY <2>1, <2>2, <3>1 DEF HasNew
    <3>3. QED
      BY <3>2 DEF n
  <2> HIDE DEF o
  <2>3. PICK n : Go(s, n) /\ Same(n)
    BY <2>1, <2>2
  <2>4. QED
    BY <1>1, <1>2, <1>3, <1>4, <2>1, <2>3, NoRefreshOn
<1>7. CASE CheckLink(s)
  <2> DEFINE o(b, m) == [ops[s] EXCEPT !.at = "store", !.sub = b, !.main = m]
  <2>1. /\ ops[s].at = "link" /\ UNCHANGED rows
        /\ Go(s, Idle) \/ \E b, m : Go(s, o(b, m))
    BY <1>7 DEF CheckLink, At, End
  <2>2. ASSUME NEW b, NEW m PROVE Same(o(b, m))
    <3> DEFINE n == o(b, m)
    <3>1. Alike_(n) /\ n.at = "store"
      BY <1>1 DEF Ops
    <3> HIDE DEF n
    <3>2. Same(n)
      BY <2>1, <3>1 DEF HasNew
    <3>3. QED
      BY <3>2 DEF n
  <2> HIDE DEF o
  <2>3. PICK n : Go(s, n) /\ Same(n)
    BY <2>1, <2>2
  <2>4. QED
    BY <1>1, <1>2, <1>3, <1>4, <2>1, <2>3, NoRefreshOn
<1>8. CASE EnsureMain(s)
  <2> DEFINE cur == [ops[s].orig EXCEPT !.main = TRUE]
             o(m) == [ops[s] EXCEPT !.at = "name", !.main = m]
             p(m) == [ops[s] EXCEPT !.at = "mainaff", !.main = m, !.cur = rows[m]]
  <2>1. /\ ops[s].at = "main"
        /\ Go(s, Idle) \/ \E m : Go(s, o(m)) \/ Go(s, p(m))
        /\ UNCHANGED rows \/ rows' = Written(ops[s].char, ops[s].orig, cur)
    BY <1>8 DEF EnsureMain, At, End
  <2>2. ASSUME NEW m PROVE Same(o(m)) /\ Same(p(m))
    <3>1. Alike_(o(m)) /\ o(m).at = "name"
      BY <1>1 DEF Ops
    <3>2. Alike_(p(m)) /\ p(m).at = "mainaff"
      BY <1>1 DEF Ops
    <3> HIDE DEF o, p
    <3>3. QED
      BY <3>1, <3>2 DEF HasNew
  <2> HIDE DEF o, p
  <2>3. PICK n : Go(s, n) /\ Same(n)
    BY <2>1, <2>2
  <2>4. ops[s].orig \in Row /\ ops[s].char \in Chars
    BY <1>1, <2>1 DEF Filled, HasRow
  <2>5. cur \in Row /\ cur.id = ops[s].orig.id /\ cur.tok = ops[s].orig.tok
        /\ cur.valid = ops[s].orig.valid
    BY <2>4 DEF Row
  <2> HIDE DEF cur
  <2>6. rows' = Written(ops[s].char, ops[s].orig, cur)
          => \A c \in Chars : rows'[c] # None => Kept(c)
    BY <2>4, <2>5, WrittenKept DEF IInv
  <2>7. \A c \in Chars : rows'[c] # None => Kept(c)
    BY <1>4, <2>1, <2>6
  <2>8. QED
    BY <1>1, <1>2, <1>3, <2>3, <2>7, NoRefreshOn
<1>9. CASE RefreshMainAffiliation(s)
  <2> DEFINE said == [ops[s].cur EXCEPT !.aff = ops[s].main \in allowed]
             n    == [ops[s] EXCEPT !.at = "name"]
  <2>1. /\ ops[s].at = "mainaff"
        /\ Go(s, Idle) \/ Go(s, n)
        /\ UNCHANGED rows \/ rows' = Written(ops[s].main, ops[s].cur, said)
    BY <1>9 DEF RefreshMainAffiliation, At, End
  <2>2. Alike_(n) /\ n.at = "name"
    BY <1>1 DEF Ops
  <2> HIDE DEF n
  <2>3. Same(n)
    BY <2>2 DEF HasNew
  <2>4. ops[s].cur \in Row /\ ops[s].main \in Chars
    BY <1>1, <2>1 DEF Filled
  <2>5. said \in Row /\ said.id = ops[s].cur.id /\ said.tok = ops[s].cur.tok
        /\ said.valid = ops[s].cur.valid
    <3>1. \A b \in BOOLEAN :
            LET r == [ops[s].cur EXCEPT !.aff = b] IN
            /\ r \in Row /\ r.id = ops[s].cur.id /\ r.tok = ops[s].cur.tok
            /\ r.valid = ops[s].cur.valid
      BY <2>4 DEF Row
    <3>2. (ops[s].main \in allowed) \in BOOLEAN
      OBVIOUS
    <3>3. QED
      BY <3>1, <3>2, Zenon
  <2> HIDE DEF said
  <2>6. rows' = Written(ops[s].main, ops[s].cur, said)
          => \A c \in Chars : rows'[c] # None => Kept(c)
    BY <2>4, <2>5, WrittenKept DEF IInv
  <2>7. \A c \in Chars : rows'[c] # None => Kept(c)
    BY <1>4, <2>1, <2>6
  <2>8. QED
    BY <1>1, <1>2, <1>3, <2>1, <2>3, <2>7, NoRefreshOn
<1>10. QED
    BY <1>5, <1>6, <1>7, <1>8, <1>9

\* Removals, moves, merges and the choice of a main.
LEMMA RequestMarks ==
    ASSUME IInv, MInv, NEW s \in Slots,
           DeleteRow(s) \/ CloseAccount(s) \/ SaveListed(s) \/ ListSaved(s)
    PROVE  MInv'
PROOF
<1> DEFINE Alike_(n) == /\ n.do = ops[s].do /\ n.char = ops[s].char /\ n.tok = ops[s].tok
                        /\ n.orig = ops[s].orig /\ n.tries = ops[s].tries
                        /\ n.at \in {"close", "rows"}
<1>1. ops[s] # Idle /\ ops[s] \in Ops /\ Filled(ops[s]) /\ ops[s].at \in {"delete", "close", "rows"}
    BY AtWork DEF DeleteRow, CloseAccount, SaveListed, ListSaved, At
<1>2. ops[s].do \notin {"job", "request"}
    BY <1>1 DEF Filled
<1>3. UNCHANGED <<accepted, dropped>>
    BY DEF DeleteRow, CloseAccount, SaveListed, ListSaved, history
<1>4. \A c \in Chars : rows[c] # None /\ rows'[c] = rows[c] => Kept(c)
    BY DEF Kept
<1>5. ASSUME NEW n, Go(s, n), n = Idle \/ Alike_(n), \A c \in Chars : rows'[c] # None => Kept(c)
      PROVE  MInv'
  <2>1. n # Idle => ~HasNew(n)
    BY <1>5 DEF HasNew
  <2>2. QED
    BY <1>1, <1>2, <1>3, <1>5, <2>1, NoRefreshOn
<1>6. CASE DeleteRow(s) \/ CloseAccount(s) \/ ListSaved(s)
  <2> DEFINE o == [ops[s] EXCEPT !.at = "close"]
  <2>1. Alike_(o)
    BY <1>1 DEF Ops
  <2>2. Go(s, o) \/ Go(s, Idle)
    BY <1>6 DEF DeleteRow, CloseAccount, ListSaved, End
  <2>3. \A c \in Chars : rows'[c] # None => rows'[c] = rows[c]
    BY <1>6 DEF DeleteRow, CloseAccount, ListSaved, IInv, TypeOK
  <2> HIDE DEF o, Alike_
  <2>4. QED
    BY <1>4, <1>5, <2>1, <2>2, <2>3
<1>7. CASE SaveListed(s)
  <2> DEFINE o(c) == [ops[s] EXCEPT !.list = [d \in DOMAIN ops[s].list \ {c} |-> ops[s].list[d]]]
             cur(c) == IF ops[s].do = "crown"
                       THEN [ops[s].list[c] EXCEPT !.main = c = ops[s].main]
                       ELSE [ops[s].list[c] EXCEPT !.user = ops[s].main, !.main = FALSE]
  <2>1. ops[s].at = "rows"
    BY <1>7 DEF SaveListed, At
  <2>2. PICK c \in DOMAIN ops[s].list :
          /\ Go(s, o(c)) \/ Go(s, Idle)
          /\ UNCHANGED rows \/ rows' = Written(c, ops[s].list[c], cur(c))
    BY <1>1, <1>7 DEF SaveListed, End, Ops
  <2> DEFINE r == ops[s].list[c]
  <2>3. c \in Chars /\ r \in Row
    <3>1. ops[s].list \in Lists
      BY <1>1 DEF Ops
    <3>2. QED
      BY <3>1, Listed
  <2>4. cur(c) \in Row /\ cur(c).id = r.id /\ cur(c).tok = r.tok /\ cur(c).valid = r.valid
    <3>1. ops[s].do # "crown" => ops[s].main \in Users
      BY <1>1, <2>1 DEF Filled
    <3>2. /\ \A b \in BOOLEAN : LET q == [r EXCEPT !.main = b] IN
               q \in Row /\ q.id = r.id /\ q.tok = r.tok /\ q.valid = r.valid
          /\ \A u \in Users : LET q == [r EXCEPT !.user = u, !.main = FALSE] IN
               q \in Row /\ q.id = r.id /\ q.tok = r.tok /\ q.valid = r.valid
      BY <2>3 DEF Row
    <3> HIDE DEF r
    <3>3. CASE ops[s].do = "crown"
      <4>1. (c = ops[s].main) \in BOOLEAN
        OBVIOUS
      <4>2. cur(c) = [r EXCEPT !.main = c = ops[s].main]
        BY <3>3 DEF r
      <4> HIDE DEF cur
      <4>3. QED
        BY <3>2, <4>1, <4>2, Zenon
    <3>4. CASE ops[s].do # "crown"
      <4>1. cur(c) = [r EXCEPT !.user = ops[s].main, !.main = FALSE]
        BY <3>4 DEF r
      <4> HIDE DEF cur
      <4>2. QED
        BY <3>1, <3>2, <3>4, <4>1
    <3>5. QED
      BY <3>3, <3>4
  <2> HIDE DEF cur, r
  <2> DEFINE p == o(c)
  <2>5. Alike_(p)
    BY <1>1, <2>1 DEF Ops
  <2>6. Go(s, p) \/ Go(s, Idle)
    BY <2>2
  <2> HIDE DEF p, Alike_
  <2>7. rows' = Written(c, r, cur(c)) => \A d \in Chars : rows'[d] # None => Kept(d)
    BY <2>3, <2>4, WrittenKept DEF IInv
  <2>8. \A d \in Chars : rows'[d] # None => Kept(d)
    BY <1>4, <2>2, <2>7 DEF r
  <2>9. QED
    BY <1>5, <2>5, <2>6, <2>8
<1>8. QED
    BY <1>6, <1>7

\* A token the handler alone knows is stored, or the row is not there any more:
\* the handler goes on without it.
LEMMA StoresOn ==
    ASSUME IInv, MInv, NEW s \in Slots, NEW n, NEW c \in Chars, NEW t,
           s \in Busy(c), Go(s, n), UNCHANGED accepted,
           t \in Unstored(ops[s]),
           \A d \in Chars \ {c} : rows'[d] = rows[d],
           dropped' \subseteq dropped \cup {c}, dropped \subseteq dropped' \cup {c},
           rows'[c] # None,
           rows'[c].tok = t, t \in accepted[c] \/ c \in dropped' \/ ~rows'[c].valid,
           n # Idle => /\ n.char = c /\ Unstored(n) = {} /\ ~HasNew(n) /\ Settled(n)
                       /\ Known(n) \subseteq Known(ops[s])
                       /\ ~Refreshing(n)
                       /\ NamedByJob(n) => rows'[c].id = n.orig.id
    PROVE  MInv'
PROOF
<1>1. \A d \in Chars : rows'[d] # None =>
        \/ Kept(d)
        \/ s \in Busy(d) /\ rows'[d].tok \in Unstored(ops[s])
    BY DEF Kept
<1>2. \A d \in Chars : \A z \in Busy(d) \ {s} : HasNew(ops[z]) => ops[z].tok \in accepted'[d]
    BY DEF MInv, UnstoredInv
<1>3. \A z \in Busy(c) \ {s} : Unstored(ops[z]) \cap Known(ops[s]) = {}
    BY DEF MInv, UnstoredInv
<1>4. ASSUME n # Idle PROVE Fits(s, n, c)
    BY <1>3, <1>4 DEF Fits, Settled
<1>5. UnstoredInv' /\ LoadedInv'
    BY <1>1, <1>2, <1>4, TokensGoOn
<1>6. ASSUME NEW d \in Chars \ dropped', Dead(d)'
      PROVE  /\ d \notin dropped /\ Dead(d)
             /\ rows'[d].id = rows[d].id /\ rows'[d].tok = rows[d].tok
             /\ s \in Busy(d) /\ Answers(s, d) => n # Idle /\ n.char = d /\ Answers(s, d)'
  <2>1. d # c
    BY <1>6 DEF Dead
  <2>2. rows'[d] = rows[d] /\ d \notin dropped /\ s \notin Busy(d)
    BY <2>1 DEF Busy
  <2>3. QED
    BY <1>6, <2>2 DEF Dead
<1>7. MarkInv'
    BY <1>6, MarksGoOn
<1>8. QED
    BY <1>5, <1>7 DEF MInv

\* A save of the handler's own token.
LEMMA SavesMark ==
    ASSUME IInv, MInv, NEW s \in Slots, NEW n, NEW c \in Chars, NEW cur \in Row,
           s \in Busy(c), Go(s, n), UNCHANGED accepted, ops[s].orig \in Row,
           Save(ops[s], cur), cur.id = ops[s].orig.id,
           cur.tok \in Unstored(ops[s]),
           cur.tok \in accepted[c] \/ ~Refreshing(ops[s]) \/ ops[s].at = "mark",
           n # Idle => /\ n.char = c /\ Unstored(n) = {} /\ ~HasNew(n) /\ Settled(n)
                       /\ Known(n) \subseteq Known(ops[s])
                       /\ ~Refreshing(n)
                       /\ NamedByJob(n) => n.orig = cur
    PROVE  MInv'
PROOF
<1>1. ops[s].char = c /\ rows' = Written(c, ops[s].orig, cur)
    BY DEF Busy, Save
<1>2. cur.tok # ops[s].orig.tok
    BY NoneIsNothing DEF MInv, UnstoredInv
<1>3. CASE Present(c, ops[s].orig)
  <2>1. /\ \A d \in Chars \ {c} : rows'[d] = rows[d]
        /\ rows'[c] \in Row /\ rows'[c].id = rows[c].id /\ rows'[c].tok = cur.tok
    BY <1>1, <1>2, <1>3, WrittenFields DEF IInv
  <2>2. dropped' = IF cur.tok \in accepted[c] THEN dropped \ {c} ELSE dropped \cup {c}
    BY <1>1, <1>2, <1>3 DEF Save, TokenStored
  <2>3. rows'[c] # None /\ rows'[c].id = ops[s].orig.id
    BY <1>3, <2>1, NoneIsNothing DEF Present
  <2>4. QED
    BY <2>1, <2>2, <2>3, StoresOn
<1>4. CASE ~Present(c, ops[s].orig)
  <2>1. rows' = rows /\ UNCHANGED dropped
    BY <1>1, <1>4, WrittenFields DEF IInv, Save
  <2>2. \A d \in Chars : rows'[d] # None => Kept(d)
    BY <2>1 DEF Kept
  <2>3. \A d \in Chars : \A z \in Busy(d) \ {s} : HasNew(ops[z]) => ops[z].tok \in accepted'[d]
    BY DEF MInv, UnstoredInv
  <2>4. \A z \in Busy(c) \ {s} : Unstored(ops[z]) \cap Known(ops[s]) = {}
    BY DEF MInv, UnstoredInv
  <2>5. rows[c] # None => rows[c].tok # cur.tok
    BY DEF MInv, UnstoredInv
  <2>6. ASSUME n # Idle PROVE Fits(s, n, c)
    BY <2>1, <2>4, <2>5, <2>6 DEF Fits, Settled
  <2>7. UnstoredInv' /\ LoadedInv'
    BY <2>2, <2>3, <2>6, TokensGoOn
  <2>8. ~Answers(s, c) /\ \A d \in Chars \ {c} : s \notin Busy(d)
    BY <1>4 DEF Answers, Busy
  <2>9. \A d \in Chars \ dropped' : Dead(d)' =>
          /\ d \notin dropped /\ Dead(d)
          /\ rows'[d].id = rows[d].id /\ rows'[d].tok = rows[d].tok
          /\ ~(s \in Busy(d) /\ Answers(s, d))
    BY <1>1, <2>1, <2>8 DEF Dead, Busy
  <2>10. MarkInv'
    BY <2>9, MarksGoOn
  <2>11. QED
    BY <2>7, <2>10 DEF MInv
<1>5. QED
    BY <1>3, <1>4

\* A fresh token is new to everyone.
LEMMA Fresh ==
    ASSUME IInv, NEW c \in Chars, NEW t \in FreshTokens(c)
    PROVE  /\ t \in Tokens /\ t \notin accepted[c]
           /\ rows[c] # None => rows[c].tok # t
           /\ \A z \in Busy(c) : t \notin Known(ops[z])
PROOF
<1>1. /\ t \in Tokens /\ t \notin accepted[c]
      /\ t \notin {r.tok : r \in Held(c) \cup ({rows[c]} \ {None})}
      /\ t \notin {ops[s].tok : s \in Busy(c)}
    BY DEF FreshTokens, Smallest
<1>2. ASSUME NEW z \in Busy(c) PROVE t \notin Known(ops[z])
  <2>1. z \in Slots /\ ops[z] # Idle /\ ops[z].char = c
    BY LoadedRow
  <2>2. Copies(ops[z], c) \ {None} \subseteq Held(c)
    <3> DEFINE C == {Copies(ops[s], c) : s \in {y \in Slots : ops[y] # Idle}}
    <3>1. Copies(ops[z], c) \in C
      BY <2>1
    <3>2. Held(c) = (UNION C) \ {None}
      BY DEF Held
    <3> HIDE DEF C
    <3>3. ASSUME NEW r \in Copies(ops[z], c), r # None PROVE r \in Held(c)
      <4>1. r \in UNION C
        BY <3>1
      <4>2. QED
        BY <3>2, <3>3, <4>1
    <3>4. QED
      BY <3>3
  <2>3. {ops[z].orig, ops[z].cur} \subseteq Copies(ops[z], c)
    BY <2>1 DEF Copies
  <2>4. ops[z].orig # None => t # ops[z].orig.tok
    BY <1>1, <2>2, <2>3
  <2>5. Refreshing(ops[z]) => t # ops[z].cur.tok
    <3>1. Refreshing(ops[z]) => ops[z].cur # None
      BY LoadedRow, NoneIsNothing
    <3>2. QED
      BY <1>1, <2>2, <2>3, <3>1
  <2>6. QED
    BY <1>1, <2>4, <2>5 DEF Known
<1>3. QED
    BY <1>1, <1>2

\* A handler that begins with the row in the table, or with none.
LEMMA BeginsMarks ==
    ASSUME IInv, MInv, NEW s \in Slots, NEW n, ops[s] = Idle, Go(s, n),
           UNCHANGED <<rows, dropped>>,
           \A c \in Chars : accepted[c] \subseteq accepted'[c],
           \A c \in Chars : n.char = c =>
             /\ n.orig = rows[c] \/ (n.orig = None /\ ~Refreshing(n) /\ ~NamedByJob(n))
             /\ Settled(n)
             /\ Known(n) \subseteq Unstored(n) \cup {None} \cup
                                   (IF rows[c] # None THEN {rows[c].tok} ELSE {})
             /\ Unstored(n) \subseteq Tokens /\ (HasNew(n) => n.tok \in accepted'[c])
             /\ rows[c] # None => rows[c].tok \notin Unstored(n)
             /\ \A z \in Busy(c) : Unstored(n) \cap Known(ops[z]) = {}
    PROVE  MInv'
PROOF
<1>1. \A c : s \notin Busy(c)
    BY DEF Busy
<1>2. \A c \in Chars : \A z \in Busy(c) \ {s} : HasNew(ops[z]) => ops[z].tok \in accepted'[c]
    BY DEF MInv, UnstoredInv
<1>3. \A c \in Chars : rows'[c] # None => Kept(c)
    BY DEF Kept
<1>4. ASSUME NEW c \in Chars, n.char = c PROVE Fits(s, n, c)
  <2>1. \A z \in Busy(c) : /\ Unstored(ops[z]) \subseteq Known(ops[z])
                           /\ None \notin Unstored(ops[z])
                           /\ rows[c] # None => rows[c].tok \notin Unstored(ops[z])
    BY LoadedRow, NoneIsNothing DEF MInv, UnstoredInv
  <2>2. ASSUME NEW z \in Busy(c)
        PROVE  Unstored(n) \cap Known(ops[z]) = {} /\ Unstored(ops[z]) \cap Known(n) = {}
    BY <1>4, <2>1
  <2>3. Refreshing(n) \/ NamedByJob(n) =>
          (rows'[c] # None => rows'[c].id = n.orig.id /\ (rows'[c].valid => n.orig.valid))
    BY <1>4
  <2>4. QED
    BY <1>4, <2>2, <2>3 DEF Fits
<1>5. UnstoredInv' /\ LoadedInv'
    BY <1>2, <1>3, <1>4, TokensGoOn
<1>6. ASSUME NEW c \in Chars, Dead(c)' PROVE Dead(c)
    BY <1>6 DEF Dead
<1>7. MarkInv'
    BY <1>1, <1>6, MarksGoOn
<1>8. QED
    BY <1>5, <1>7 DEF MInv

\* The handlers that begin without a token.
LEMMA LoadsMarks ==
    ASSUME IInv, MInv, NEW s \in Slots, NEW n, ops[s] = Idle, Go(s, n),
           UNCHANGED <<rows, dropped, accepted>>,
           n.char \in Chars =>
             /\ n.orig = rows[n.char] /\ n.cur = rows[n.char] /\ rows[n.char] # None
             /\ n.tok = None /\ n.tries = 0 /\ n.at \in {"exchange", "delete", "clear"}
    PROVE  MInv'
PROOF
<1>1. ASSUME NEW c \in Chars, n.char = c
      PROVE  /\ n.orig = rows[c] /\ Settled(n) /\ Unstored(n) = {} /\ ~HasNew(n)
             /\ Known(n) \subseteq {None, rows[c].tok}
    BY <1>1 DEF Settled, Unstored, Known, HasNew, Refreshing, NamedByJob
<1>2. QED
    BY <1>1, BeginsMarks

LEMMA CallbackBeginsMarks ==
    ASSUME IInv, MInv, NEW s \in Slots, NEW do \in {"login", "link"}, NEW u, NEW c \in Chars,
           BeginCallback(s, do, u, c)
    PROVE  MInv'
PROOF
<1>1. PICK t \in FreshTokens(c), row \in {rows[c], None} :
        /\ Begin(s, [Op(do, "affiliation", u, c, row) EXCEPT !.tok = t],
                 IF row = rows[c] THEN 0 ELSE 1)
        /\ accepted' = [accepted EXCEPT ![c] = @ \cup {t}]
    BY DEF BeginCallback
<1> DEFINE n == [Op(do, "affiliation", u, c, row) EXCEPT !.tok = t]
<1>2. ops[s] = Idle /\ Go(s, n)
    BY <1>1 DEF Begin, Go
<1>3. /\ n.do = do /\ n.at = "affiliation" /\ n.char = c /\ n.orig \in {rows[c], None}
      /\ n.tok = t /\ n.tries = 0
    BY DEF Op
<1> HIDE DEF n
<1>4. ~Refreshing(n) /\ ~NamedByJob(n) /\ Settled(n) /\ HasNew(n)
    BY <1>3 DEF Refreshing, NamedByJob, Settled, HasNew
<1>5. Unstored(n) = {t}
    BY <1>3, <1>4 DEF Unstored
<1>6. Known(n) \subseteq Unstored(n) \cup (IF rows[c] # None THEN {rows[c].tok} ELSE {})
    BY <1>3, <1>4, <1>5 DEF Known
<1>7. /\ t \in accepted'[c]
      /\ \A d \in Chars : accepted[d] \subseteq accepted'[d]
    BY <1>1 DEF IInv, TypeOK
<1>8. UNCHANGED <<rows, dropped>>
    BY DEF BeginCallback
<1>9. QED
    BY <1>2, <1>3, <1>4, <1>5, <1>6, <1>7, <1>8, Fresh, BeginsMarks

LEMMA StartMarks ==
    ASSUME IInv, MInv, NEW s \in Slots, Start(s)
    PROVE  MInv'
PROOF
<1>1. CASE \/ \E c \in Chars : BeginLogin(s, c)
           \/ \E u \in Users, c \in Chars : BeginLink(s, u, c)
    BY <1>1, CallbackBeginsMarks DEF BeginLogin, BeginLink
<1>2. CASE \E c \in Chars : \/ BeginJobRefresh(s, c) \/ BeginRequestRefresh(s, c)
                            \/ BeginRemove(s, c) \/ BeginRevoke(s, c)
  <2>1. PICK c \in Chars : \/ \E do : BeginRefresh(s, do, c)
                           \/ BeginRemove(s, c) \/ BeginRevoke(s, c)
    BY <1>2 DEF BeginJobRefresh, BeginRequestRefresh
  <2>2. rows[c] # None /\ UNCHANGED <<rows, dropped, accepted>>
    BY <2>1 DEF BeginRefresh, BeginRemove, BeginRevoke
  <2> DEFINE p(do, at) == Op(do, at, rows[c].user, c, rows[c])
             o(do) == [p(do, "exchange") EXCEPT !.sub = users[rows[c].user]]
  <2>3. PICK n : /\ \E misses : Begin(s, n, misses)
                 /\ \/ \E do : n = o(do)
                    \/ n = p("remove", "delete") \/ n = p("revoke", "clear")
    BY <2>1 DEF BeginRefresh, BeginRemove, BeginRevoke
  <2>4. /\ n.char = c /\ n.orig = rows[c] /\ n.cur = rows[c] /\ n.tok = None /\ n.tries = 0
        /\ n.at \in {"exchange", "delete", "clear"}
    <3>1. CASE \E do : n = o(do)
      <4>1. PICK do : n = o(do)
        BY <3>1
      <4>2. QED
        BY <4>1 DEF Op
    <3>2. CASE n = p("remove", "delete")
      BY <3>2 DEF Op
    <3>3. CASE n = p("revoke", "clear")
      BY <3>3 DEF Op
    <3>4. QED
      BY <2>3, <3>1, <3>2, <3>3
  <2>5. ops[s] = Idle /\ Go(s, n)
    BY <2>3 DEF Begin, Go
  <2>6. QED
    BY <2>2, <2>4, <2>5, LoadsMarks
<1>3. CASE \/ \E c \in Chars : BeginSetMain(s, c)
           \/ \E u, v : \E C : BeginMove(s, u, v, C)
  <2>1. PICK do, u, m, l :
          Begin(s, [Op(do, "rows", u, None, None) EXCEPT !.main = m, !.list = l], 0)
    BY <1>3 DEF BeginSetMain, BeginMove
  <2>2. UNCHANGED <<rows, dropped, accepted>>
    BY <1>3 DEF BeginSetMain, BeginMove
  <2> DEFINE n == [Op(do, "rows", u, None, None) EXCEPT !.main = m, !.list = l]
  <2>3. n.char \notin Chars
    BY AccountsAssumption DEF Op
  <2>4. ops[s] = Idle /\ Go(s, n)
    BY <2>1 DEF Begin, Go
  <2> HIDE DEF n
  <2>5. QED
    BY <2>2, <2>3, <2>4, LoadsMarks
<1>4. QED
    BY <1>1, <1>2, <1>3 DEF Start, MoveOne, MergeInto

\* A login and a linking store their token.
LEMMA CallbackStores ==
    ASSUME IInv, MInv, NEW s \in Slots, InsertMain(s) \/ UpsertRow(s) \/ StoreLink(s)
    PROVE  MInv'
PROOF
<1> DEFINE c == ops[s].char
<1>1. /\ ops[s] # Idle /\ ops[s] \in Ops /\ Filled(ops[s])
      /\ ops[s].at \in {"insert", "upsert", "store"}
    BY AtWork DEF InsertMain, UpsertRow, StoreLink, At
<1>2. /\ c \in Chars /\ ops[s].do \in {"login", "link"}
      /\ s \in Busy(c) /\ HasNew(ops[s]) /\ ~Refreshing(ops[s])
    BY <1>1 DEF Filled, Busy, HasNew, Refreshing
<1>3. ops[s].tok \in Unstored(ops[s]) /\ ops[s].tok \in accepted[c] /\ ops[s].tok \in Tokens
    BY <1>2 DEF Unstored, MInv, UnstoredInv
<1>4. Settled(ops[s])
    BY <1>2 DEF MInv, LoadedInv
<1>5. UNCHANGED accepted
    BY DEF InsertMain, UpsertRow, StoreLink
<1>6. ASSUME NEW n, n.do = ops[s].do, n.char = c, n.tok = ops[s].tok, n.at \in {"main", "name"},
             n.tries = ops[s].tries, n.orig = ops[s].orig \/ n.orig.tok = ops[s].tok
      PROVE  /\ Unstored(n) = {} /\ ~HasNew(n) /\ Settled(n) /\ ~Refreshing(n) /\ ~NamedByJob(n)
             /\ Known(n) \subseteq Known(ops[s])
  <2>1. /\ ~HasNew(n) /\ ~Refreshing(n) /\ ~NamedByJob(n)
        /\ ops[s].tries > 0 => ops[s].do = "job"
    BY <1>2, <1>4, <1>6 DEF HasNew, Refreshing, NamedByJob, Settled
  <2>2. Unstored(n) = {} /\ Settled(n)
    BY <1>2, <1>6, <2>1 DEF Unstored, Settled
  <2>3. Known(n) \subseteq Known(ops[s])
    BY <1>6, <2>1 DEF Known
  <2>4. QED
    BY <2>1, <2>2, <2>3
<1>7. ASSUME UNCHANGED <<rows, dropped>>, End(s)
      PROVE  MInv'
  <2>1. \A d \in Chars : rows'[d] # None => Kept(d)
    BY <1>7 DEF Kept
  <2>2. QED
    BY <1>1, <1>2, <1>5, <1>7, <2>1, NoRefreshOn DEF End
<1>8. ASSUME NEW main \in BOOLEAN, NEW n, Go(s, n), InsertRow(ops[s], main), CanInsert(ops[s]),
             TokenStored(ops[s], ops[s].tok),
             n = Idle \/ (/\ n.do = ops[s].do /\ n.char = c /\ n.tok = ops[s].tok
                          /\ n.at \in {"main", "name"} /\ n.tries = ops[s].tries
                          /\ n.orig = ops[s].orig)
      PROVE  MInv'
  <2>1. /\ rows'[c] # None /\ rows'[c].tok = ops[s].tok
        /\ \A d \in Chars \ {c} : rows'[d] = rows[d]
    <3>1. PICK i \in FreshIds(c) :
            rows' = [rows EXCEPT ![c] = [id |-> i, user |-> ops[s].user, main |-> main,
                                         tok |-> ops[s].tok, valid |-> TRUE, aff |-> ops[s].aff]]
      BY <1>8 DEF InsertRow
    <3> DEFINE r == [id |-> i, user |-> ops[s].user, main |-> main,
                     tok |-> ops[s].tok, valid |-> TRUE, aff |-> ops[s].aff]
    <3>2. rows'[c] = r /\ \A d \in Chars \ {c} : rows'[d] = rows[d]
      BY <1>2, <3>1 DEF IInv, TypeOK
    <3>3. r.tok = ops[s].tok /\ r \in Row
      <4>1. /\ ops[s].user \in Users /\ ops[s].aff \in BOOLEAN
            /\ i \in 0..MaxAlone
        BY <1>1 DEF Filled, Ops, FreshIds, Smallest
      <4>2. QED
        BY <1>3, <4>1 DEF Row
    <3>4. QED
      BY <3>2, <3>3, NoneIsNothing
  <2>2. dropped' = dropped \ {c}
    BY <1>3, <1>8 DEF TokenStored
  <2>3. QED
    BY <1>2, <1>3, <1>5, <1>6, <1>8, <2>1, <2>2, StoresOn
<1>9. ASSUME NEW main \in BOOLEAN, ops[s].orig \in Row, NEW n, Go(s, n),
             Save(ops[s], Upserted(ops[s], ops[s].orig, main)),
             n = Idle \/ (/\ n.do = ops[s].do /\ n.char = c /\ n.tok = ops[s].tok
                          /\ n.at \in {"main", "name"} /\ n.tries = ops[s].tries
                          /\ n.orig = ops[s].orig \/ n.orig.tok = ops[s].tok)
      PROVE  MInv'
  <2> DEFINE cur == Upserted(ops[s], ops[s].orig, main)
  <2>1. cur \in Row /\ cur.tok = ops[s].tok /\ cur.id = ops[s].orig.id
    <3>1. cur \in Row
      BY <1>1, <1>9, UpsertedRow
    <3>2. QED
      BY <1>9, <3>1 DEF Upserted, Row
  <2> HIDE DEF cur
  <2>2. Save(ops[s], cur)
    BY <1>9 DEF cur
  <2>3. QED
    BY <1>2, <1>3, <1>5, <1>6, <1>9, <2>1, <2>2, SavesMark
<1>10. CASE InsertMain(s)
  <2>1. \/ InsertRow(ops[s], TRUE) /\ CanInsert(ops[s]) /\ TokenStored(ops[s], ops[s].tok)
        \/ UNCHANGED <<rows, dropped>>
    BY <1>10 DEF InsertMain
  <2>2. End(s)
    BY <1>10 DEF InsertMain
  <2>3. QED
    BY <1>7, <1>8, <2>1, <2>2 DEF End
<1>11. CASE UpsertRow(s)
  <2> DEFINE cur == Upserted(ops[s], ops[s].orig, ops[s].orig.main)
             n   == [ops[s] EXCEPT !.at = "main", !.orig = cur]
  <2>1. \/ Save(ops[s], cur) /\ Go(s, n)
        \/ UNCHANGED <<rows, dropped>> /\ End(s)
    BY <1>11 DEF UpsertRow
  <2>2. ops[s].orig \in Row /\ ops[s].orig.main \in BOOLEAN
    <3>1. ops[s].orig \in Row
      BY <1>1, <1>11 DEF UpsertRow, At, Filled, HasRow
    <3>2. QED
      BY <3>1 DEF Row
  <2>3. cur.tok = ops[s].tok
    BY <2>2 DEF Upserted, Row
  <2> HIDE DEF cur
  <2>4. /\ n.do = ops[s].do /\ n.char = c /\ n.tok = ops[s].tok /\ n.at = "main"
        /\ n.tries = ops[s].tries /\ n.orig.tok = ops[s].tok
    BY <1>1, <2>3 DEF Ops
  <2> HIDE DEF n
  <2>5. QED
    BY <1>7, <1>9, <2>1, <2>2, <2>4 DEF cur
<1>12. CASE StoreLink(s)
  <2> DEFINE main == ops[s].main # None
             n    == [ops[s] EXCEPT !.at = "name"]
  <2>1. \/ /\ ops[s].orig = None /\ CanInsert(ops[s]) /\ InsertRow(ops[s], main)
           /\ TokenStored(ops[s], ops[s].tok) /\ (Go(s, n) \/ Go(s, Idle))
        \/ /\ ops[s].orig # None /\ Save(ops[s], Upserted(ops[s], ops[s].orig, main))
           /\ Go(s, n) \/ Go(s, Idle)
        \/ UNCHANGED <<rows, dropped>> /\ End(s)
    BY <1>12 DEF StoreLink, End
  <2>2. main \in BOOLEAN
    OBVIOUS
  <2> HIDE DEF main
  <2>3. ops[s].orig # None => ops[s].orig \in Row
    BY <1>1 DEF Ops
  <2>4. /\ n.do = ops[s].do /\ n.char = c /\ n.tok = ops[s].tok /\ n.at = "name"
        /\ n.tries = ops[s].tries /\ n.orig = ops[s].orig
    BY <1>1 DEF Ops
  <2> HIDE DEF n
  <2>5. QED
    BY <1>7, <1>8, <1>9, <2>1, <2>2, <2>3, <2>4
<1>13. QED
    BY <1>10, <1>11, <1>12

\* The name is given, or a job marks the row.
LEMMA NameMarks ==
    ASSUME IInv, MInv, NEW s \in Slots, NameAccount(s)
    PROVE  MInv'
PROOF
<1> DEFINE n == [ops[s] EXCEPT !.at = "mark"]
<1>1. ops[s] # Idle /\ ops[s] \in Ops /\ Filled(ops[s]) /\ ops[s].at = "name"
    BY AtWork DEF NameAccount, At
<1>2. /\ (ops[s].do = "job" /\ Go(s, n)) \/ Go(s, Idle)
      /\ UNCHANGED <<rows, accepted, dropped>>
    BY DEF NameAccount, End, history
<1>3. /\ n.do = ops[s].do /\ n.char = ops[s].char /\ n.tok = ops[s].tok /\ n.at = "mark"
      /\ n.tries = ops[s].tries /\ n.orig = ops[s].orig /\ n.cur = ops[s].cur
    BY <1>1 DEF Ops
<1> HIDE DEF n
<1>4. ASSUME ops[s].do = "job", ops[s].char \in Chars PROVE Tame(n, ops[s])
  <2>1. s \in Busy(ops[s].char) /\ NamedByJob(ops[s])
    BY <1>1, <1>4 DEF Busy, NamedByJob
  <2>2. Settled(ops[s]) /\ ops[s].cur = ops[s].orig /\ ops[s].orig # None
    <3>1. Settled(ops[s])
      BY <1>4, <2>1 DEF MInv, LoadedInv
    <3>2. ops[s].orig # None
      BY <1>4, <2>1, LoadedRow
    <3>3. QED
      BY <2>1, <3>1, <3>2 DEF Settled
  <2>3. Refreshing(n) /\ ~HasNew(n) /\ ~NamedByJob(n)
    BY <1>3, <1>4 DEF Refreshing, HasNew, NamedByJob
  <2>4. Unstored(n) = {} /\ Known(n) \subseteq Known(ops[s])
    BY <1>3, <2>2, <2>3 DEF Unstored, Known
  <2>5. Settled(n)
    BY <1>3, <1>4, <2>2, <2>3 DEF Settled
  <2>6. QED
    BY <1>3, <2>1, <2>3, <2>4, <2>5 DEF Tame
<1>5. \A c : ~Answers(s, c)
    BY <1>1 DEF Answers, Refreshing
<1>6. \A c \in Chars : rows'[c] # None => Kept(c)
    BY <1>2 DEF Kept
<1>7. QED
    BY <1>1, <1>2, <1>3, <1>4, <1>5, <1>6, TamelyOn

\* A handler gives up: a refresher's token is thrown away.
LEMMA GiveUpMarks ==
    ASSUME IInv, MInv, NEW s \in Slots, GiveUp(s)
    PROVE  MInv'
PROOF
<1>1. ops[s] # Idle /\ Go(s, Idle) /\ UNCHANGED <<rows, accepted>>
    BY DEF GiveUp, End
<1>2. \A c \in Chars : rows'[c] # None => Kept(c)
    BY <1>1 DEF Kept
<1>3. \A c \in Chars : s \in Busy(c) /\ Answers(s, c) => c \in dropped'
    BY DEF GiveUp, Busy, Answers
<1>4. dropped \subseteq dropped'
    BY DEF GiveUp
<1>5. QED
    BY <1>1, <1>2, <1>3, <1>4, TamelyOn

\* A refresh that goes on with the row it has loaded.
LEMMA Refreshers ==
    ASSUME IInv, MInv, NEW s \in Slots, ops[s] # Idle, Refreshing(ops[s]), NEW n,
           n.do = ops[s].do, n.char = ops[s].char, n.orig = ops[s].orig,
           \/ n.tok = ops[s].tok
           \/ n.at = "resolve",
           \/ /\ n.at \in {"resolve", "mark"} /\ n.cur = ops[s].cur /\ n.tries = ops[s].tries
              /\ n.at = "mark" => n.do = "job"
           \/ /\ n.at = "save" /\ ops[s].at = "resolve" /\ n.tries = ops[s].tries
              /\ n.cur.id = ops[s].cur.id /\ n.cur.tok = n.tok /\ n.cur.valid
           \/ /\ n.at = "exchange" /\ n.tries = ops[s].tries + 1 /\ n.do = "job"
              /\ n.cur.id = ops[s].cur.id /\ n.cur.tok = ops[s].cur.tok
    PROVE  LET c == ops[s].char IN
           /\ c \in Chars /\ s \in Busy(c) /\ Settled(n) /\ Refreshing(n)
           /\ Unstored(n) \subseteq Unstored(ops[s]) \cup (IF HasNew(n) THEN {n.tok} ELSE {})
           /\ Known(n) \subseteq Known(ops[s]) \cup {n.tok}
           /\ n.at # "resolve" => Tame(n, ops[s])
           /\ \A d : Answers(s, d) =>
                /\ Refreshing(n) /\ (n.at = "exchange" => n.tries > 0)
                /\ Present(d, n.orig) /\ n.orig.tok = rows[d].tok /\ n.orig.valid
PROOF
<1> DEFINE c == ops[s].char
<1>1. ops[s] \in Ops /\ Filled(ops[s])
    BY AtWork
<1>2. c \in Chars /\ s \in Busy(c)
    BY <1>1 DEF Refreshing, Filled, Busy
<1>3. /\ Settled(ops[s])
      /\ ops[s].orig # None => ops[s].orig.tok \notin Unstored(ops[s])
    BY <1>2 DEF MInv, UnstoredInv, LoadedInv
<1>4. Refreshing(n) /\ ~NamedByJob(n) /\ ops[s].tries \in Nat
    BY <1>1 DEF Refreshing, NamedByJob, Ops, Retries
<1>5. Settled(n)
    BY <1>3, <1>4 DEF Settled
<1>6. n.at = "save" => HasNew(n) /\ HasNew(ops[s]) /\ n.tok = ops[s].tok
    BY DEF HasNew
<1>7. /\ Unstored(n) \subseteq Unstored(ops[s]) \cup (IF HasNew(n) THEN {n.tok} ELSE {})
      /\ Known(n) \subseteq Known(ops[s]) \cup {n.tok}
  <2>1. Refreshing(n) => n.cur.tok \in {ops[s].cur.tok, n.tok}
    OBVIOUS
  <2>2. n.cur.tok # ops[s].cur.tok => HasNew(n)
    BY <1>6
  <2>3. QED
    BY <1>4, <2>1, <2>2 DEF Unstored, Known
<1>8. ASSUME n.at # "resolve" PROVE Tame(n, ops[s])
  <2>1. n.tok = ops[s].tok /\ n.tok \in Known(ops[s])
    BY <1>8 DEF Known
  <2>2. HasNew(n) => HasNew(ops[s])
    BY <1>6, <1>8 DEF HasNew
  <2>3. Unstored(n) \subseteq Unstored(ops[s])
    BY <1>7, <2>1, <2>2 DEF Unstored
  <2>4. Known(n) \subseteq Known(ops[s])
    BY <1>7, <2>1
  <2>5. QED
    BY <1>3, <1>4, <1>5, <2>1, <2>2, <2>3, <2>4 DEF Tame
<1>9. ASSUME NEW d, Answers(s, d)
      PROVE  /\ Refreshing(n) /\ (n.at = "exchange" => n.tries > 0)
             /\ Present(d, n.orig) /\ n.orig.tok = rows[d].tok /\ n.orig.valid
    BY <1>4, <1>9 DEF Answers
<1>10. QED
    BY <1>2, <1>4, <1>5, <1>7, <1>8, <1>9

\* Such a step without an exchange, after which the rows are as they were.
LEMMA RefreshersOn ==
    ASSUME IInv, MInv, NEW s \in Slots, ops[s] # Idle, Refreshing(ops[s]), NEW n,
           n.do = ops[s].do, n.char = ops[s].char, n.orig = ops[s].orig, n.tok = ops[s].tok,
           \/ /\ n.at = "mark" /\ n.cur = ops[s].cur /\ n.tries = ops[s].tries /\ n.do = "job"
           \/ /\ n.at = "save" /\ ops[s].at = "resolve" /\ n.tries = ops[s].tries
              /\ n.cur.id = ops[s].cur.id /\ n.cur.tok = n.tok /\ n.cur.valid
           \/ /\ n.at = "exchange" /\ n.tries = ops[s].tries + 1 /\ n.do = "job"
              /\ n.cur.id = ops[s].cur.id /\ n.cur.tok = ops[s].cur.tok,
           Go(s, n), UNCHANGED <<rows, accepted, dropped>>
    PROVE  MInv'
PROOF
<1>1. Tame(n, ops[s])
    BY Refreshers
<1>2. \A c \in Chars : rows'[c] # None => Kept(c)
    BY DEF Kept
<1>3. ASSUME NEW c \in Chars, n # Idle, Answers(s, c) PROVE Answers(s, c)'
  <2>1. /\ Refreshing(n) /\ (n.at = "exchange" => n.tries > 0)
        /\ Present(c, n.orig) /\ n.orig.tok = rows[c].tok /\ n.orig.valid
    BY <1>3, Refreshers
  <2>2. ops'[s] = n
    BY Others
  <2>3. QED
    BY <2>1, <2>2 DEF Answers, Present, Refreshing
<1>4. n # Idle
    BY DEF Idle, Refreshing
<1>5. QED
    BY <1>1, <1>2, <1>3, <1>4, TamelyOn

\* A refresh that failed marks the row next, or has lost its token, or, before
\* the provider replaced anything, leaves a row as it is.
LEMMA FailedMarks ==
    ASSUME IInv, MInv, NEW s \in Slots, ops[s] # Idle,
           ops[s].at \in {"exchange", "resolve", "save"}, NEW rotated \in BOOLEAN,
           rotated \/ ops[s].at = "exchange",
           Failed(s, ops[s], rotated), UNCHANGED <<rows, accepted>>
    PROVE  MInv'
PROOF
<1> DEFINE n == [ops[s] EXCEPT !.at = "mark"]
<1>1. ops[s] \in Ops /\ Filled(ops[s])
    BY AtWork
<1>2. Refreshing(ops[s]) /\ ops[s].char \in Chars
    BY <1>1 DEF Filled, Refreshing
<1>3. CASE ops[s].do = "job"
  <2>1. /\ n.do = ops[s].do /\ n.char = ops[s].char /\ n.orig = ops[s].orig
        /\ n.tok = ops[s].tok /\ n.at = "mark" /\ n.cur = ops[s].cur /\ n.tries = ops[s].tries
    BY <1>1 DEF Ops
  <2>2. Go(s, n) /\ UNCHANGED dropped
    BY <1>3 DEF Failed
  <2> HIDE DEF n
  <2>3. QED
    BY <1>2, <1>3, <2>1, <2>2, RefreshersOn
<1>4. CASE ops[s].do # "job"
  <2>1. Go(s, Idle) /\ dropped' = IF rotated THEN dropped \cup {ops[s].char} ELSE dropped
    BY <1>4 DEF Failed, End
  <2>2. \A c \in Chars : rows'[c] # None => Kept(c)
    BY DEF Kept
  <2>3. ASSUME NEW c \in Chars \ dropped', s \in Busy(c), Answers(s, c) PROVE FALSE
    <3>1. ~rotated
      BY <2>1, <2>3 DEF Busy
    <3>2. ops[s].tries > 0
      BY <2>3, <3>1 DEF Answers
    <3>3. QED
      BY <1>4, <2>3, <3>2 DEF MInv, LoadedInv, Settled
  <2>4. QED
    BY <2>1, <2>2, <2>3, TamelyOn
<1>5. QED
    BY <1>3, <1>4

\* The provider replaces a token: the handler has the new one, or marks the row
\* next, or has lost it.
LEMMA ReplacedMarks ==
    ASSUME IInv, MInv, NEW s \in Slots, ops[s] # Idle, ops[s].at = "exchange",
           NEW t \in FreshTokens(ops[s].char), NEW n, Go(s, n), UNCHANGED rows,
           accepted' = [accepted EXCEPT ![ops[s].char] = (@ \ {ops[s].cur.tok}) \cup {t}],
           \/ n = Idle /\ dropped' = dropped \cup {ops[s].char}
           \/ /\ dropped' = dropped
              /\ n.do = ops[s].do /\ n.char = ops[s].char /\ n.orig = ops[s].orig
              /\ n.cur = ops[s].cur /\ n.tries = ops[s].tries
              /\ \/ n.at = "resolve" /\ n.tok = t
                 \/ n.at = "mark" /\ n.do = "job" /\ n.tok = ops[s].tok
    PROVE  MInv'
PROOF
<1> DEFINE c == ops[s].char
<1>1. ops[s] \in Ops /\ Filled(ops[s])
    BY AtWork
<1>2. /\ c \in Chars /\ s \in Busy(c) /\ Refreshing(ops[s]) /\ ~HasNew(ops[s])
      /\ ops[s].cur.tok \in Known(ops[s]) /\ ops[s].orig \in Row
    BY <1>1 DEF Filled, Refreshing, Busy, HasNew, Known, HasRow
<1>3. /\ t \in Tokens /\ t \notin accepted[c] /\ (rows[c] # None => rows[c].tok # t)
      /\ \A z \in Busy(c) : t \notin Known(ops[z])
    BY <1>2, Fresh
<1>4. /\ accepted'[c] = (accepted[c] \ {ops[s].cur.tok}) \cup {t}
      /\ \A d \in Chars \ {c} : accepted'[d] = accepted[d]
    BY <1>2 DEF IInv, TypeOK
<1>5. /\ Unstored(ops[s]) \subseteq Tokens
      /\ ops[s].orig.tok \notin Unstored(ops[s])
      /\ rows[c] # None => rows[c].tok \notin Unstored(ops[s])
      /\ \A z \in Busy(c) \ {s} : /\ Unstored(ops[s]) \cap Known(ops[z]) = {}
                                  /\ Unstored(ops[z]) \cap Known(ops[s]) = {}
    BY <1>2, NoneIsNothing DEF MInv, UnstoredInv
<1>6. Loaded(ops[s], c)
    BY <1>2 DEF MInv, LoadedInv
<1>7. \A d \in Chars : rows'[d] # None => Kept(d)
    BY DEF Kept
<1>8. ASSUME NEW d \in Chars, NEW z \in Busy(d) \ {s}, HasNew(ops[z])
      PROVE  ops[z].tok \in accepted'[d]
  <2>1. ops[z].tok \in accepted[d]
    BY <1>8 DEF MInv, UnstoredInv
  <2>2. CASE d # c
    BY <1>4, <2>1, <2>2
  <2>3. CASE d = c
    <3>1. ops[z].tok \in Unstored(ops[z])
      BY <1>8 DEF Unstored
    <3>2. ops[z].tok # ops[s].cur.tok
      BY <1>2, <1>5, <2>3, <3>1
    <3>3. QED
      BY <1>4, <2>1, <2>3, <3>2
  <2>4. QED
    BY <2>2, <2>3
<1>9. n # Idle =>
        /\ n.char = c /\ Settled(n) /\ Refreshing(n) /\ n.orig = ops[s].orig
        /\ dropped' = dropped /\ n.at # "exchange"
        /\ HasNew(n) => n.tok = t
        /\ n.tok \in Known(ops[s]) \cup {t}
        /\ Unstored(n) \subseteq Unstored(ops[s]) \cup (IF HasNew(n) THEN {n.tok} ELSE {})
        /\ Known(n) \subseteq Known(ops[s]) \cup {n.tok}
  <2>1. CASE n # Idle
    <3>1. /\ Settled(n) /\ Refreshing(n)
          /\ Unstored(n) \subseteq Unstored(ops[s]) \cup (IF HasNew(n) THEN {n.tok} ELSE {})
          /\ Known(n) \subseteq Known(ops[s]) \cup {n.tok}
      BY <1>2, <2>1, Refreshers
    <3>2. (HasNew(n) => n.tok = t) /\ n.tok \in Known(ops[s]) \cup {t}
      BY <2>1 DEF HasNew, Known
    <3>3. QED
      BY <2>1, <3>1, <3>2
  <2>2. QED
    BY <2>1
<1>10. ASSUME n # Idle PROVE Fits(s, n, c)
  <2>1. Unstored(n) \subseteq Unstored(ops[s]) \cup {t} /\ Known(n) \subseteq Known(ops[s]) \cup {t}
    BY <1>9, <1>10
  <2>2. ops[s].orig.tok # t
    BY <1>2, <1>3, LoadedRow
  <2>3. \A z \in Busy(c) \ {s} : /\ Unstored(n) \cap Known(ops[z]) = {}
                                 /\ Unstored(ops[z]) \cap Known(n) = {}
    <3>1. ASSUME NEW z \in Busy(c) \ {s}
          PROVE  /\ t \notin Known(ops[z]) /\ t \notin Unstored(ops[z])
                 /\ Unstored(ops[s]) \cap Known(ops[z]) = {}
                 /\ Unstored(ops[z]) \cap Known(ops[s]) = {}
      BY <1>2, <1>3, <1>5, LoadedRow
    <3>2. QED
      BY <2>1, <3>1
  <2>4. /\ Unstored(n) \subseteq Tokens /\ n.orig.tok \notin Unstored(n)
        /\ rows'[c] # None => rows'[c].tok \notin Unstored(n)
        /\ HasNew(n) => n.tok \in accepted'[c]
    BY <1>3, <1>4, <1>5, <1>9, <1>10, <2>1, <2>2
  <2>5. /\ rows'[c] # None /\ rows'[c].tok # None /\ rows'[c].tok = n.orig.tok
        => rows'[c].id = n.orig.id /\ (rows'[c].valid => n.orig.valid)
    BY <1>2, <1>6, <1>9, <1>10 DEF Loaded, Present
  <2>6. QED
    BY <1>9, <1>10, <2>3, <2>4, <2>5 DEF Fits
<1>11. UnstoredInv' /\ LoadedInv'
    BY <1>2, <1>7, <1>8, <1>9, <1>10, TokensGoOn
<1>12. ops'[s] = n
    BY Others
<1>13. ASSUME NEW d \in Chars \ dropped', Dead(d)'
       PROVE  \/ /\ d \notin dropped /\ Dead(d)
                 /\ rows'[d].id = rows[d].id /\ rows'[d].tok = rows[d].tok
                 /\ s \in Busy(d) /\ Answers(s, d) => n # Idle /\ n.char = d /\ Answers(s, d)'
              \/ n # Idle /\ n.char = d /\ Answers(s, d)'
  <2>1. d \notin dropped /\ rows'[d] # None
    BY <1>9, <1>13 DEF Dead
  <2>2. CASE d # c
    <3>1. s \notin Busy(d)
      BY <2>2 DEF Busy
    <3>2. QED
      BY <1>4, <1>13, <2>1, <2>2, <3>1 DEF Dead
  <2>3. CASE d = c
    <3>1. n # Idle
      <4>1. n = Idle => dropped' = dropped \cup {c}
        BY <1>2 DEF Idle, Refreshing
      <4>2. QED
        BY <1>13, <2>3, <4>1
    <3>2. Present(d, n.orig) /\ n.orig.tok = rows[d].tok /\ n.orig.valid => Answers(s, d)'
      BY <1>9, <1>12, <3>1 DEF Answers, Refreshing, Present
    <3>3. CASE Dead(d)
      <4>1. Answers(s, d) => Answers(s, d)'
        BY <1>9, <3>1, <3>2 DEF Answers
      <4>2. QED
        BY <1>9, <2>1, <2>3, <3>1, <3>3, <4>1
    <3>4. CASE ~Dead(d)
      <4>1. rows[d].tok = ops[s].cur.tok /\ rows[d].tok # None /\ rows[d].valid
        BY <1>4, <1>13, <2>1, <2>3, <3>4 DEF Dead
      <4>2. ops[s].cur.tok = ops[s].orig.tok
        BY <1>2, <1>5, <2>1, <2>3, <4>1 DEF Unstored
      <4>3. Present(d, ops[s].orig) /\ ops[s].orig.valid
        BY <1>2, <1>6, <2>1, <2>3, <4>1, <4>2 DEF Loaded
      <4>4. QED
        BY <1>9, <2>3, <3>1, <3>2, <4>1, <4>2, <4>3
    <3>5. QED
      BY <3>3, <3>4
  <2>4. QED
    BY <2>2, <2>3
<1>14. MarkInv'
    BY <1>13, MarksGoOn
<1>15. QED
    BY <1>11, <1>14 DEF MInv

LEMMA ExchangeMarks ==
    ASSUME IInv, MInv, NEW s \in Slots, ExchangeToken(s)
    PROVE  MInv'
PROOF
<1> DEFINE good == ops[s].cur.tok \in accepted[ops[s].char]
           Replace(t) == accepted' = [accepted EXCEPT
                           ![ops[s].char] = (@ \ {ops[s].cur.tok}) \cup {t}]
           o(t, sub) == [ops[s] EXCEPT !.at = "resolve", !.tok = t, !.sub = sub]
           p == [ops[s] EXCEPT !.at = "mark"]
<1>1. ops[s] # Idle /\ ops[s].at = "exchange" /\ ops[s] \in Ops
    BY AtWork DEF ExchangeToken, At
<1>2. PICK t \in FreshTokens(ops[s].char) :
        \/ Replace(t) /\ (\E sub : Go(s, o(t, sub))) /\ UNCHANGED dropped
        \/ \E replaced \in BOOLEAN :
             /\ IF replaced THEN Replace(t) ELSE UNCHANGED accepted
             /\ Failed(s, ops[s], replaced)
    BY <1>1 DEF ExchangeToken, Ops
<1>3. UNCHANGED rows
    BY DEF ExchangeToken
<1> HIDE DEF Replace
<1>4. ASSUME Replace(t), NEW sub, Go(s, o(t, sub)), UNCHANGED dropped PROVE MInv'
  <2> DEFINE n == o(t, sub)
  <2>1. /\ n.do = ops[s].do /\ n.char = ops[s].char /\ n.orig = ops[s].orig
        /\ n.cur = ops[s].cur /\ n.tries = ops[s].tries /\ n.at = "resolve" /\ n.tok = t
    BY <1>1 DEF Ops
  <2>2. Go(s, n)
    BY <1>4
  <2> HIDE DEF n
  <2>3. QED
    BY <1>1, <1>3, <1>4, <2>1, <2>2, ReplacedMarks DEF Replace
<1>5. ASSUME Replace(t), Failed(s, ops[s], TRUE) PROVE MInv'
  <2>1. /\ p.do = ops[s].do /\ p.char = ops[s].char /\ p.orig = ops[s].orig
        /\ p.cur = ops[s].cur /\ p.tries = ops[s].tries /\ p.at = "mark" /\ p.tok = ops[s].tok
    BY <1>1 DEF Ops
  <2>2. \/ ops[s].do = "job" /\ Go(s, p) /\ UNCHANGED dropped
        \/ Go(s, Idle) /\ dropped' = dropped \cup {ops[s].char}
    BY <1>5 DEF Failed, End
  <2> HIDE DEF p
  <2>3. QED
    BY <1>1, <1>3, <1>5, <2>1, <2>2, ReplacedMarks DEF Replace
<1>6. ASSUME UNCHANGED accepted, Failed(s, ops[s], FALSE) PROVE MInv'
    BY <1>1, <1>3, <1>6, FailedMarks
<1> HIDE DEF o
<1>7. QED
    BY <1>2, <1>4, <1>5, <1>6

LEMMA ResolveMarks ==
    ASSUME IInv, MInv, NEW s \in Slots, ResolveRefresh(s)
    PROVE  MInv'
PROOF
<1> DEFINE aff  == ops[s].char \in allowed
           done == [ops[s] EXCEPT !.aff = aff]
           cur  == Upserted(done, ops[s].cur, ops[s].cur.main)
           n    == [ops[s] EXCEPT !.at = "save", !.aff = aff, !.cur = cur]
<1>1. ops[s] # Idle /\ ops[s].at = "resolve" /\ ops[s] \in Ops /\ Filled(ops[s])
    BY AtWork DEF ResolveRefresh, At
<1>2. ops[s].cur \in Row /\ Refreshing(ops[s])
    BY <1>1 DEF Filled, Refreshing
<1>3. UNCHANGED <<rows, accepted>>
    BY DEF ResolveRefresh
<1>4. \/ Failed(s, ops[s], TRUE)
      \/ Go(s, n) /\ UNCHANGED dropped
    BY DEF ResolveRefresh
<1>5. CASE Failed(s, ops[s], TRUE)
    BY <1>1, <1>3, <1>5, FailedMarks
<1>6. CASE Go(s, n) /\ UNCHANGED dropped
  <2>1. done.tok = ops[s].tok
    BY <1>1 DEF Ops
  <2> HIDE DEF done
  <2>2. cur.id = ops[s].cur.id /\ cur.tok = ops[s].tok /\ cur.valid
    BY <1>2, <2>1 DEF Upserted, Row
  <2> HIDE DEF cur, aff
  <2>3. /\ n.do = ops[s].do /\ n.char = ops[s].char /\ n.orig = ops[s].orig
        /\ n.tok = ops[s].tok /\ n.at = "save" /\ n.tries = ops[s].tries /\ n.cur = cur
    BY <1>1 DEF Ops
  <2>4. Go(s, n)
    BY <1>6
  <2> HIDE DEF n
  <2>5. QED
    BY <1>1, <1>2, <1>3, <1>6, <2>2, <2>3, <2>4, RefreshersOn
<1>7. QED
    BY <1>4, <1>5, <1>6

LEMMA SaveMarks ==
    ASSUME IInv, MInv, NEW s \in Slots, SaveRefresh(s)
    PROVE  MInv'
PROOF
<1> DEFINE c == ops[s].char
           n == [ops[s] EXCEPT !.at = "name", !.main = ops[s].char, !.orig = ops[s].cur]
<1>1. ops[s] # Idle /\ ops[s].at = "save" /\ ops[s] \in Ops /\ Filled(ops[s])
    BY AtWork DEF SaveRefresh, At
<1>2. /\ ops[s].cur \in Row /\ ops[s].orig \in Row /\ Refreshing(ops[s]) /\ c \in Chars
      /\ s \in Busy(c) /\ HasNew(ops[s])
    BY <1>1 DEF Filled, Refreshing, HasRow, Busy, HasNew
<1>3. UNCHANGED accepted
    BY DEF SaveRefresh
<1>4. \/ Save(ops[s], ops[s].cur) /\ (Go(s, n) \/ Go(s, Idle))
      \/ Failed(s, ops[s], TRUE) /\ UNCHANGED rows
    BY DEF SaveRefresh, End
<1>5. CASE Failed(s, ops[s], TRUE) /\ UNCHANGED rows
    BY <1>1, <1>3, <1>5, FailedMarks
<1>6. CASE Save(ops[s], ops[s].cur) /\ (Go(s, n) \/ Go(s, Idle))
  <2>1. /\ Settled(ops[s]) /\ ops[s].cur.tok = ops[s].tok /\ ops[s].cur.valid
        /\ ops[s].cur.id = ops[s].orig.id
    <3>1. Settled(ops[s])
      BY <1>2 DEF MInv, LoadedInv
    <3>2. QED
      BY <1>1, <1>2, <3>1 DEF Settled
  <2>2. ops[s].cur.tok \in Unstored(ops[s]) /\ ops[s].cur.tok \in accepted[c]
    BY <1>2, <2>1 DEF Unstored, MInv, UnstoredInv
  <2>3. /\ n.do = ops[s].do /\ n.char = c /\ n.orig = ops[s].cur /\ n.cur = ops[s].cur
        /\ n.tok = ops[s].tok /\ n.at = "name" /\ n.tries = ops[s].tries
    BY <1>1 DEF Ops
  <2> HIDE DEF n
  <2>4. ~HasNew(n) /\ ~Refreshing(n) /\ Unstored(n) = {} /\ Known(n) \subseteq Known(ops[s])
    BY <2>1, <2>3 DEF HasNew, Refreshing, Unstored, Known
  <2>5. Settled(n)
    BY <2>1, <2>3, <2>4 DEF Settled
  <2>6. QED
    BY <1>2, <1>3, <1>6, <2>1, <2>2, <2>3, <2>4, <2>5, SavesMark
<1>7. QED
    BY <1>4, <1>5, <1>6

\* The row is marked, with the token the record holds by now, or the refresh is
\* tried again, or the record is thrown away.
LEMMA InvalidMarks ==
    ASSUME IInv, MInv, NEW s \in Slots, MarkInvalid(s)
    PROVE  MInv'
PROOF
<1> DEFINE c == ops[s].char
           cur(b) == Marked(ops[s].cur, b)
           n(b) == [ops[s] EXCEPT !.at = "exchange", !.tries = @ + 1, !.cur = cur(b)]
<1>1. ops[s] # Idle /\ ops[s].at = "mark" /\ ops[s] \in Ops /\ Filled(ops[s])
    BY AtWork DEF MarkInvalid, At
<1>2. /\ ops[s].cur \in Row /\ ops[s].orig \in Row /\ Refreshing(ops[s]) /\ c \in Chars
      /\ s \in Busy(c)
    BY <1>1 DEF Filled, Refreshing, HasRow, Busy
<1>3. Settled(ops[s])
    BY <1>2 DEF MInv, LoadedInv
<1>4. ops[s].do = "job" /\ ops[s].cur.id = ops[s].orig.id
    BY <1>1, <1>2, <1>3 DEF Settled
<1>5. UNCHANGED accepted
    BY DEF MarkInvalid
<1>6. ASSUME NEW b \in BOOLEAN
      PROVE  /\ cur(b) \in Row /\ cur(b).id = ops[s].cur.id
             /\ cur(b).tok = ops[s].cur.tok /\ cur(b).valid = FALSE
    BY <1>2 DEF Marked, Row
<1>7. PICK b \in BOOLEAN :
        \/ Save(ops[s], cur(b)) /\ Go(s, Idle)
        \/ Go(s, n(b)) /\ UNCHANGED <<rows, dropped>>
        \/ Go(s, Idle) /\ dropped' = dropped \cup {c} /\ UNCHANGED rows
  <2>1. ops[s].cur.aff \in BOOLEAN /\ (c \in allowed) \in BOOLEAN
    BY <1>2 DEF Row
  <2>2. PICK b \in {(c \in allowed), ops[s].cur.aff} :
        \/ Save(ops[s], cur(b)) /\ Go(s, Idle)
        \/ Go(s, n(b)) /\ UNCHANGED <<rows, dropped>>
        \/ Go(s, Idle) /\ dropped' = dropped \cup {c} /\ UNCHANGED rows
    BY DEF MarkInvalid, End
  <2>3. b \in BOOLEAN
    BY <2>1, <2>2, Zenon
  <2>4. QED
    BY <2>2, <2>3
<1>8. CASE Save(ops[s], cur(b)) /\ Go(s, Idle)
  <2> DEFINE r == cur(b)
  <2>1. /\ r \in Row /\ r.id = ops[s].orig.id /\ r.tok = ops[s].cur.tok /\ r.valid = FALSE
        /\ Save(ops[s], r)
    BY <1>4, <1>6, <1>8
  <2> HIDE DEF r, cur
  <2>2. CASE ops[s].cur.tok # ops[s].orig.tok
    <3>1. r.tok \in Unstored(ops[s])
      BY <1>2, <2>1, <2>2 DEF Unstored
    <3>2. QED
      BY <1>1, <1>2, <1>5, <1>8, <2>1, <3>1, SavesMark
  <2>3. CASE ops[s].cur.tok = ops[s].orig.tok
    <3>1. rows' = Written(c, ops[s].orig, r) /\ UNCHANGED dropped
      BY <2>1, <2>3 DEF Save
    <3>2. \A d \in Chars : rows'[d] # None => Kept(d)
      BY <1>2, <2>1, <2>3, <3>1, WrittenKept DEF IInv
    <3>3. ASSUME NEW d \in Chars, s \in Busy(d), Answers(s, d) PROVE ~Dead(d)'
      <4>1. d = c /\ Present(c, ops[s].orig) /\ ops[s].orig.valid
        BY <3>3 DEF Busy, Answers
      <4>2. rows'[c].valid = FALSE
        <5>1. rows'[c].valid = IF r.valid # ops[s].orig.valid THEN r.valid ELSE rows[c].valid
          <6> DEFINE q == ops[s].orig
          <6>1. q \in Row /\ r \in Row /\ r.id = q.id /\ Present(c, q) /\ c \in Chars
            BY <1>2, <2>1, <4>1
          <6> HIDE DEF q
          <6>2. Written(c, q, r)[c].valid = IF r.valid # q.valid THEN r.valid ELSE rows[c].valid
            BY <6>1, WrittenFields DEF IInv
          <6>3. QED
            BY <3>1, <6>2 DEF q
        <5>2. ops[s].orig.valid = TRUE
          BY <1>2, <4>1 DEF Row
        <5>3. QED
          BY <2>1, <5>1, <5>2
      <4>3. QED
        BY <4>1, <4>2 DEF Dead
    <3>4. QED
      BY <1>1, <1>5, <1>8, <3>1, <3>2, <3>3, TamelyOn
  <2>4. QED
    BY <2>2, <2>3
<1>9. CASE Go(s, n(b)) /\ UNCHANGED <<rows, dropped>>
  <2> DEFINE p == n(b)
  <2>1. cur(b).id = ops[s].cur.id /\ cur(b).tok = ops[s].cur.tok
    BY <1>6
  <2> HIDE DEF cur
  <2>2. /\ p.do = ops[s].do /\ p.char = c /\ p.orig = ops[s].orig /\ p.tok = ops[s].tok
        /\ p.at = "exchange" /\ p.tries = ops[s].tries + 1 /\ p.cur = cur(b)
    BY <1>1 DEF Ops
  <2>3. Go(s, p)
    BY <1>9
  <2> HIDE DEF p
  <2>4. QED
    BY <1>1, <1>2, <1>4, <1>5, <1>9, <2>1, <2>2, <2>3, RefreshersOn
<1>10. CASE Go(s, Idle) /\ dropped' = dropped \cup {c} /\ UNCHANGED rows
  <2>1. \A d \in Chars : rows'[d] # None => Kept(d)
    BY <1>10 DEF Kept
  <2>2. \A d \in Chars \ dropped' : s \notin Busy(d)
    BY <1>10 DEF Busy
  <2>3. QED
    BY <1>1, <1>5, <1>10, <2>1, <2>2, TamelyOn
<1> HIDE DEF n, cur
<1>11. QED
    BY <1>7, <1>8, <1>9, <1>10

\* A revocation: the row has no token, or none it did not have before, and the
\* others hold what they held.
LEMMA ClearMarks ==
    ASSUME IInv, MInv, NEW s \in Slots, ClearTokens(s)
    PROVE  MInv'
PROOF
<1> DEFINE c == ops[s].char
           cur == Cleared(ops[s].orig)
<1>1. ops[s] # Idle /\ ops[s].at = "clear" /\ ops[s] \in Ops /\ Filled(ops[s])
    BY AtWork DEF ClearTokens, At
<1>2. /\ ops[s].orig \in Row /\ c \in Chars /\ ops[s].do \notin {"job", "request"}
    BY <1>1 DEF Filled, HasRow
<1>3. UNCHANGED <<accepted, dropped>>
    BY DEF ClearTokens
<1>4. CASE ~CanSave(cur)
  <2>1. Go(s, Idle) /\ UNCHANGED rows
    BY <1>4 DEF ClearTokens, End
  <2>2. \A d \in Chars : rows'[d] # None => Kept(d)
    BY <2>1 DEF Kept
  <2>3. QED
    BY <1>1, <1>2, <1>3, <2>1, <2>2, NoRefreshOn
<1>5. CASE CanSave(cur)
  <2>1. /\ rows' = Written(c, ops[s].orig, cur)
        /\ ops' = [z \in Slots |->
                     IF z = s THEN Idle
                     ELSE IF ops[z] # Idle /\ ops[z].char = c
                     THEN [ops[z] EXCEPT !.late = TRUE] ELSE ops[z]]
    BY <1>5 DEF ClearTokens
  <2>2. cur \in Row /\ cur.id = ops[s].orig.id /\ cur.tok = None /\ cur.valid = FALSE
    <3>1. cur \in Row
      BY <1>2, RowMarks
    <3>2. QED
      BY <1>2, <3>1 DEF Cleared, Row
  <2> HIDE DEF cur
  <2>3. ASSUME NEW d \in Chars, rows'[d] # None
        PROVE  /\ rows[d] # None /\ rows'[d].id = rows[d].id
               /\ rows'[d].tok = None \/ rows'[d].tok = rows[d].tok
               /\ rows'[d].valid => rows[d].valid
    <3>1. CASE d # c \/ ~Present(c, ops[s].orig)
      <4>1. rows'[d] = rows[d]
        BY <1>2, <2>1, <2>2, <3>1, WrittenFields DEF IInv
      <4>2. QED
        BY <2>3, <4>1
    <3>2. CASE d = c /\ Present(c, ops[s].orig)
      <4> DEFINE q == ops[s].orig
      <4>1. q \in Row /\ cur.id = q.id /\ Present(c, q)
        BY <1>2, <2>2, <3>2
      <4>2. rows'[c] = Written(c, q, cur)[c]
        BY <2>1
      <4> HIDE DEF q
      <4>3. /\ rows'[c].id = rows[c].id
            /\ rows'[c].tok = IF cur.tok # q.tok THEN cur.tok ELSE rows[c].tok
            /\ rows'[c].valid = IF cur.valid # q.valid THEN cur.valid ELSE rows[c].valid
        BY <1>2, <2>2, <4>1, <4>2, WrittenFields DEF IInv
      <4>4. rows[c] # None
        BY <4>1 DEF Present
      <4>5. rows'[c].valid => rows[c].valid
        <5>1. q.valid \in BOOLEAN
          BY <4>1 DEF Row
        <5>2. QED
          BY <2>2, <4>3, <5>1
      <4>6. QED
        BY <2>2, <3>2, <4>3, <4>4, <4>5
    <3>3. QED
      BY <3>1, <3>2
  <2>4. ASSUME NEW d, NEW z \in Busy(d)'
        PROVE  /\ z \in Busy(d) /\ z # s
               /\ ops'[z] \in Ops
               /\ ops'[z].do = ops[z].do /\ ops'[z].at = ops[z].at /\ ops'[z].tok = ops[z].tok
               /\ ops'[z].orig = ops[z].orig /\ ops'[z].cur = ops[z].cur
               /\ ops'[z].tries = ops[z].tries
    <3>1. z \in Slots /\ ops'[z] # Idle /\ ops'[z].char = d
      BY DEF Busy
    <3>2. z # s
      BY <2>1, <3>1
    <3>3. CASE ops[z] # Idle /\ ops[z].char = c
      <4>1. ops[z] \in Ops
        BY <3>1, <3>3, AtWork
      <4>2. ops'[z] = [ops[z] EXCEPT !.late = TRUE]
        BY <2>1, <3>1, <3>2, <3>3
      <4>3. /\ [ops[z] EXCEPT !.late = TRUE] \in Ops
            /\ ops'[z].do = ops[z].do /\ ops'[z].at = ops[z].at /\ ops'[z].tok = ops[z].tok
            /\ ops'[z].orig = ops[z].orig /\ ops'[z].cur = ops[z].cur
            /\ ops'[z].tries = ops[z].tries /\ ops'[z].char = ops[z].char
        <5>1. [ops[z] EXCEPT !.late = TRUE] \in Ops
          BY <4>1 DEF Ops
        <5>2. /\ ops'[z].do = ops[z].do /\ ops'[z].at = ops[z].at /\ ops'[z].tok = ops[z].tok
              /\ ops'[z].orig = ops[z].orig /\ ops'[z].cur = ops[z].cur
              /\ ops'[z].tries = ops[z].tries /\ ops'[z].char = ops[z].char
          BY <4>1, <4>2 DEF Ops
        <5>3. QED
          BY <5>1, <5>2
      <4>4. QED
        BY <3>1, <3>2, <3>3, <4>2, <4>3 DEF Busy
    <3>4. CASE ~(ops[z] # Idle /\ ops[z].char = c)
      <4>1. ops'[z] = ops[z]
        BY <2>1, <3>1, <3>2, <3>4
      <4>2. QED
        BY <3>1, <3>2, <4>1, AtWork DEF Busy
    <3>5. QED
      BY <3>3, <3>4
  <2>5. ASSUME NEW d, NEW z \in Busy(d)'
        PROVE  /\ Unstored(ops'[z]) = Unstored(ops[z]) /\ Known(ops'[z]) = Known(ops[z])
               /\ HasNew(ops'[z]) = HasNew(ops[z]) /\ Refreshing(ops'[z]) = Refreshing(ops[z])
               /\ NamedByJob(ops'[z]) = NamedByJob(ops[z])
               /\ Settled(ops'[z]) = Settled(ops[z])
    BY <2>4, <2>5 DEF Unstored, Known, HasNew, Refreshing, NamedByJob, Settled
  <2>6. UnstoredInv'
    <3> SUFFICES ASSUME NEW d \in Chars, NEW z \in Busy(d)'
                 PROVE  /\ Unstored(ops'[z]) \subseteq Tokens
                        /\ HasNew(ops'[z]) => ops'[z].tok \in accepted'[d]
                        /\ ops'[z].orig # None => ops'[z].orig.tok \notin Unstored(ops'[z])
                        /\ rows'[d] # None => rows'[d].tok \notin Unstored(ops'[z])
                        /\ \A y \in Busy(d)' \ {z} : Unstored(ops'[z]) \cap Known(ops'[y]) = {}
      BY DEF UnstoredInv
    <3>1. /\ Unstored(ops[z]) \subseteq Tokens
          /\ HasNew(ops[z]) => ops[z].tok \in accepted[d]
          /\ ops[z].orig # None => ops[z].orig.tok \notin Unstored(ops[z])
          /\ rows[d] # None => rows[d].tok \notin Unstored(ops[z])
          /\ \A y \in Busy(d) \ {z} : Unstored(ops[z]) \cap Known(ops[y]) = {}
      BY <2>4 DEF MInv, UnstoredInv
    <3>2. rows'[d] # None => rows'[d].tok \notin Unstored(ops[z])
      BY <2>3, <3>1, NoneIsNothing
    <3>3. QED
      BY <1>3, <2>4, <2>5, <3>1, <3>2
  <2>7. LoadedInv'
    <3> SUFFICES ASSUME NEW d \in Chars, NEW z \in Busy(d)'
                 PROVE  Settled(ops'[z]) /\ Loaded(ops[z], d)'
      BY DEF LoadedInv
    <3>1. Settled(ops[z]) /\ Loaded(ops[z], d)
      BY <2>4 DEF MInv, LoadedInv
    <3>2. Loaded(ops[z], d)'
      BY <2>3, <2>4, <2>5, <3>1 DEF Loaded, Present
    <3>3. QED
      BY <2>5, <3>1, <3>2
  <2>8. MarkInv'
    <3> SUFFICES ASSUME NEW d \in Chars \ dropped', Dead(d)'
                 PROVE  \E z \in Busy(d)' : Answers(z, d)'
      BY DEF MarkInv
    <3>1. /\ rows'[d] # None /\ rows[d] # None /\ rows'[d].id = rows[d].id
          /\ rows'[d].tok = rows[d].tok /\ Dead(d)
      BY <1>3, <2>3 DEF Dead
    <3>2. PICK z \in Busy(d) : Answers(z, d)
      BY <1>3, <3>1 DEF MInv, MarkInv
    <3>3. z # s
      BY <1>1, <3>2 DEF Answers, Refreshing
    <3>4. z \in Busy(d)'
      <4>1. ops[z] \in Ops /\ z \in Slots /\ ops[z] # Idle /\ ops[z].char = d
        BY LoadedRow
      <4>2. CASE d = c
        <5>1. ops'[z] = [ops[z] EXCEPT !.late = TRUE]
          BY <2>1, <3>3, <4>1, <4>2
        <5>2. ops'[z].char = d /\ ops'[z].do = ops[z].do
          BY <4>1, <5>1 DEF Ops
        <5>3. ops[z].do \in {"job", "request"}
          BY <3>2 DEF Answers, Refreshing
        <5>4. ops'[z] # Idle
          BY <5>2, <5>3 DEF Idle
        <5>5. QED
          BY <4>1, <5>2, <5>4 DEF Busy
      <4>3. CASE d # c
        <5>1. ops'[z] = ops[z]
          BY <2>1, <3>3, <4>1, <4>3
        <5>2. QED
          BY <4>1, <5>1 DEF Busy
      <4>4. QED
        BY <4>2, <4>3
    <3>5. Answers(z, d)'
      BY <2>4, <2>5, <3>1, <3>2, <3>4 DEF Answers, Present
    <3>6. QED
      BY <3>4, <3>5
  <2>9. QED
    BY <2>6, <2>7, <2>8 DEF MInv
<1>6. QED
    BY <1>4, <1>5

\* Steps that touch neither rows nor tokens nor handlers.
LEMMA SameMarks ==
    ASSUME MInv, UNCHANGED <<rows, accepted, ops, dropped>>
    PROVE  MInv'
PROOF
  BY DEF MInv, UnstoredInv, LoadedInv, MarkInv, Busy, Loaded, Present, Dead, Answers

LEMMA InitMarks == Init => MInv
PROOF
<1> SUFFICES ASSUME Init PROVE MInv
    OBVIOUS
<1>1. \A c : Busy(c) = {}
    BY DEF Init, Busy
<1>2. ASSUME NEW c \in Chars PROVE ~Dead(c)
  <2>1. rows[c] # None => rows[c].tok = 1
    BY DEF Init
  <2>2. rows[c] # None => accepted[c] = {1}
    BY DEF Init
  <2>3. QED
    BY <2>1, <2>2 DEF Dead
<1>3. QED
    BY <1>1, <1>2 DEF MInv, UnstoredInv, LoadedInv, MarkInv

LEMMA StepMarks == IInv /\ MInv /\ [Next]_vars => MInv'
PROOF
<1> SUFFICES ASSUME IInv, MInv, [Next]_vars PROVE MInv'
    OBVIOUS
<1>1. ASSUME NEW s \in Slots, Start(s) PROVE MInv'
    BY <1>1, StartMarks
<1>2. ASSUME NEW s \in Slots, Continue(s) PROVE MInv'
    BY <1>2, CallbackMarks, CallbackStores, NameMarks, ExchangeMarks, ResolveMarks, SaveMarks,
       InvalidMarks, RequestMarks, ClearMarks, GiveUpMarks DEF Continue
<1>3. ASSUME NEW u \in Users, SweepUploads(u) PROVE MInv'
    BY <1>3, SameMarks DEF SweepUploads, history
<1>4. CASE UNCHANGED vars
    BY <1>4, SameMarks DEF vars
<1>5. QED
    BY <1>1, <1>2, <1>3, <1>4 DEF Next

\* While a row is marked valid over a token the provider does not take, a
\* refresh that had loaded it so is still at work on it: the mark is taken away
\* or the new token stored, unless it was thrown away.
THEOREM MarksHaveACause == Spec => []ValidMarkHasACause
PROOF
<1>1. IInv /\ MInv => ValidMarkHasACause
  <2> SUFFICES ASSUME IInv, MInv, NEW c \in Chars, Dead(c), c \notin dropped
               PROVE  \E s \in Busy(c) :
                        /\ ops[s].do \in {"job", "request"}
                        /\ ops[s].tok # None \/ ops[s].at = "mark" \/ ops[s].tries > 0
    BY DEF ValidMarkHasACause, Dead
  <2>1. PICK s \in Busy(c) : Answers(s, c)
    BY DEF MInv, MarkInv
  <2>2. Refreshing(ops[s]) /\ (ops[s].at = "exchange" => ops[s].tries > 0)
    BY <2>1 DEF Answers
  <2>3. ASSUME ops[s].at \in {"resolve", "save"} PROVE ops[s].tok # None
    <3>1. ops[s].tok \in Unstored(ops[s])
      BY <2>3 DEF Unstored, HasNew
    <3>2. QED
      BY <3>1, NoneIsNothing DEF MInv, UnstoredInv
  <2>4. QED
    BY <2>2, <2>3 DEF Refreshing
<1>2. Init /\ [][Next]_vars /\ []IInv => []MInv
    BY InitMarks, StepMarks, PTL
<1>3. QED
    BY <1>1, <1>2, Invariant, PTL DEF Spec

-----------------------------------------------------------------------------
(* Accounts in order.                                                      *)

\* The mains of an account in a table, and an order of accounts in which every main has
\* given its account the name, but for one that handler o is about to name it after.
MainsIn(R, u) == {c \in Chars : R[c] # None /\ R[c].user = u /\ R[c].main}
InOrder(o, R, U, M) ==
    \A u \in Users \ M : \A c \in MainsIn(R, u) :
       \/ U[u] = c
       \/ o # Idle /\ o.at = "name" /\ o.user = u /\ o.main = c /\ MainsIn(R, u) = {c}
Exist(R, U) == \A c \in Chars : R[c] # None => U[R[c].user] # None
Differ(U) == \A u, v \in Users : U[u] # None /\ U[u] = U[v] => u = v

\* What handler o knows, of a table, the accounts' names and the astray ones.
KnowsOf(o, R, U, M) ==
    /\ o.at \notin {"name", "close", "rows"} \/ NamedByJob(o) =>
         o.orig = R[o.char] \/ (o.orig = None /\ o.do \in {"login", "link"})
    /\ o.at \in {"insert", "upsert", "main", "mainaff", "name", "store"} => o.sub = U[o.user]
    /\ Refreshing(o) => o.sub \in {U[o.user], None}
    /\ o.at = "insert" => U[o.user] = o.char
    /\ o.at \in {"upsert", "main", "exchange", "resolve", "save", "mark"} => o.orig.user = o.user
    /\ o.at = "mainaff" => o.cur = R[o.main]
    /\ o.at \in {"mainaff", "name"} => o.main \in MainsIn(R, o.user)
    /\ o.at = "store" =>
         /\ o.orig # None => o.orig.user = o.user /\ (o.orig.main => o.main # None)
         /\ o.main # None => o.main = o.char /\ (o.user \in M \/ MainsIn(R, o.user) \subseteq {o.char})
    /\ Refreshing(o) => /\ o.cur.id = o.orig.id /\ o.cur.user = o.orig.user
                        /\ o.cur.main = o.orig.main
    /\ NamedByJob(o) => o.cur = o.orig /\ o.orig.user = o.user
    /\ o.at = "rows" => \A c \in DOMAIN o.list : o.list[c] = R[c]
    /\ o.at = "rows" /\ o.do = "crown" =>
         o.user \in M /\ \A c \in DOMAIN o.list : o.list[c].user = o.user

LEMMA MainsAre ==
    \A u : MainsOf(u) = MainsIn(rows, u)
PROOF
  BY DEF MainsOf, Owned, MainsIn

\* The invariant for a handler alone at work, and when none is.
LEMMA OneAtWork ==
    ASSUME OrderInv, ~crossed, NEW s \in Slots, ops[s] # Idle
    PROVE  /\ \A z \in Slots \ {s} : ops[z] = Idle
           /\ InOrder(ops[s], rows, users, astray) /\ KnowsOf(ops[s], rows, users, astray)
PROOF
<1>1. \A z \in Slots \ {s} : ops[z] = Idle
    BY DEF OrderInv
<1>2. Knows(ops[s])
    BY DEF OrderInv
<1>3. InOrder(ops[s], rows, users, astray)
    BY <1>1, MainsAre DEF OrderInv, InOrder, Naming
<1>4. KnowsOf(ops[s], rows, users, astray)
    BY <1>2, MainsAre DEF Knows, KnowsOf
<1>5. QED
    BY <1>1, <1>3, <1>4

LEMMA NoneAtWork ==
    ASSUME OrderInv, ~crossed, \A s \in Slots : ops[s] = Idle
    PROVE  InOrder(Idle, rows, users, astray)
PROOF
  BY MainsAre DEF OrderInv, InOrder

\* The names and the owners, whoever overlaps.
LEMMA TableStays ==
    ASSUME OrderInv
    PROVE  Exist(rows, users) /\ Differ(users)
PROOF
  BY DEF OrderInv, AccountsExist, NamesDiffer, Exist, Differ

\* Handler s goes on as n.
LEMMA OrderGoesOn ==
    ASSUME IInv, NEW s \in Slots, NEW n, Go(s, n),
           Exist(rows', users') /\ Differ(users'),
           crossed' \/ ( /\ \A z \in Slots \ {s} : ops[z] = Idle
                         /\ InOrder(n, rows', users', astray')
                         /\ n # Idle => KnowsOf(n, rows', users', astray') )
    PROVE  OrderInv'
PROOF
<1>1. AccountsExist' /\ NamesDiffer'
    BY DEF AccountsExist, NamesDiffer, Exist, Differ
<1>2. ops'[s] = n /\ \A z \in Slots \ {s} : ops'[z] = ops[z]
    BY DEF IInv, TypeOK, Go
<1>3. ASSUME ~crossed' PROVE
        /\ \A y, z \in Slots : ops'[y] # Idle /\ ops'[z] # Idle => y = z
        /\ \A u \in Users \ astray' : \A c \in MainsOf(u)' :
             users'[u] = c \/ \E z \in Slots : ops'[z] # Idle /\ Naming(ops[z], u, c)'
        /\ \A z \in Slots : ops'[z] # Idle => Knows(ops[z])'
  <2>1. \A z \in Slots \ {s} : ops'[z] = Idle
    BY <1>2, <1>3
  <2>2. \A u : MainsOf(u)' = MainsIn(rows', u)
    BY DEF MainsOf, Owned, MainsIn
  <2>3. ASSUME NEW u \in Users \ astray', NEW c \in MainsOf(u)', users'[u] # c
        PROVE  ops'[s] # Idle /\ Naming(ops[s], u, c)'
    BY <1>2, <1>3, <2>2, <2>3 DEF InOrder, Naming
  <2>4. ASSUME ops'[s] # Idle PROVE Knows(ops[s])'
    <3>1. KnowsOf(ops'[s], rows', users', astray')
      BY <1>2, <1>3, <2>4
    <3>2. QED
      BY <2>2, <3>1 DEF Knows, KnowsOf, NamedByJob, Refreshing
  <2>5. QED
    BY <2>1, <2>3, <2>4
<1>4. QED
    BY <1>1, <1>3 DEF OrderInv

\* Where no account is being named every main has given its account the name.
LEMMA Strictly ==
    ASSUME NEW o, NEW R, NEW U, NEW M, InOrder(o, R, U, M), o = Idle \/ o.at # "name"
    PROVE  /\ \A u \in Users \ M : \A c \in MainsIn(R, u) : U[u] = c
           /\ \A n : InOrder(n, R, U, M)
PROOF
  BY DEF InOrder

\* The same once a naming has failed and the account counts as astray, or had the name.
LEMMA NamingFails ==
    ASSUME NEW o, NEW R, NEW U, NEW M, NEW N, InOrder(o, R, U, M), KnowsOf(o, R, U, M),
           o.at = "name", M \subseteq N, o.sub = o.main \/ o.user \in N
    PROVE  \A n : InOrder(n, R, U, N)
PROOF
<1>1. ASSUME NEW u \in Users \ N, NEW c \in MainsIn(R, u) PROVE U[u] = c
  <2>1. U[u] = c \/ (o.user = u /\ o.main = c)
    BY DEF InOrder
  <2>2. o.sub = U[o.user]
    BY DEF KnowsOf
  <2>3. QED
    BY <2>1, <2>2
<1>2. QED
    BY <1>1 DEF InOrder

\* More accounts may have left their order.
LEMMA MoreAstray ==
    ASSUME NEW o, NEW R, NEW U, NEW M, NEW N, M \subseteq N
    PROVE  InOrder(o, R, U, M) => InOrder(o, R, U, N)
PROOF
  BY DEF InOrder

\* A handler makes a character main where a lookup has found no main.
LEMMA CrownedAstray ==
    ASSUME NEW o, NEW mains \in {MainsOf(o.user), {}}, Crowned(o, mains)
    PROVE  /\ astray \subseteq astray'
           /\ ~crossed /\ mains = {} => o.user \in astray' \/ MainsIn(rows, o.user) \subseteq {o.char}
PROOF
  BY MainsAre DEF Crowned, Astray

\* The same when the handler leaves tables and names alone.
LEMMA OrderStrays ==
    ASSUME IInv, OrderInv, NEW s \in Slots, NEW n, ops[s] # Idle, ops[s].at # "name", Go(s, n),
           UNCHANGED <<rows, users, crossed>>, astray \subseteq astray',
           ~crossed => n = Idle \/ KnowsOf(n, rows, users, astray')
    PROVE  OrderInv'
PROOF
<1>1. Exist(rows', users') /\ Differ(users')
    BY TableStays
<1>2. ASSUME ~crossed
      PROVE  /\ \A z \in Slots \ {s} : ops[z] = Idle
             /\ InOrder(n, rows', users', astray')
             /\ n # Idle => KnowsOf(n, rows', users', astray')
  <2>1. (\A z \in Slots \ {s} : ops[z] = Idle) /\ InOrder(n, rows, users, astray)
    BY <1>2, OneAtWork, Strictly
  <2>2. QED
    BY <1>2, <2>1, MoreAstray
<1>3. QED
    BY <1>1, <1>2, OrderGoesOn

LEMMA OrderGoesOnAlone ==
    ASSUME IInv, OrderInv, NEW s \in Slots, NEW n, ops[s] # Idle, ops[s].at # "name", Go(s, n),
           UNCHANGED <<rows, users, astray, crossed>>,
           ~crossed => n = Idle \/ KnowsOf(n, rows, users, astray)
    PROVE  OrderInv'
PROOF
<1>1. ~crossed => n = Idle \/ KnowsOf(n, rows, users, astray')
    OBVIOUS
<1>2. QED
    BY <1>1, OrderStrays

LEMMA OrderEnds ==
    ASSUME IInv, OrderInv, NEW s \in Slots, ops[s] # Idle, ops[s].at # "name", Go(s, Idle),
           UNCHANGED <<rows, users, astray, crossed>>
    PROVE  OrderInv'
PROOF
  BY OrderGoesOnAlone

LEMMA AffiliationOrder ==
    ASSUME IInv, OrderInv, NEW s \in Slots, Affiliation(s)
    PROVE  OrderInv'
PROOF
<1> DEFINE n(aff) == [ops[s] EXCEPT !.aff = aff, !.at = IF ops[s].do = "link" THEN "link" ELSE "account"]
<1>1. /\ ops[s] # Idle /\ ops[s].at = "affiliation" /\ ops[s] \in Ops
      /\ UNCHANGED <<rows, users, astray, crossed>>
    BY AtWork DEF Affiliation, At, history
<1>2. Go(s, Idle) \/ \E aff : Go(s, n(aff))
    BY DEF Affiliation, End
<1>3. ASSUME NEW aff, ~crossed PROVE KnowsOf(n(aff), rows, users, astray)
  <2>1. KnowsOf(ops[s], rows, users, astray)
    BY <1>1, <1>3, OneAtWork
  <2>2. /\ n(aff).at \in {"link", "account"} /\ n(aff).orig = ops[s].orig
        /\ n(aff).char = ops[s].char /\ n(aff).do = ops[s].do
    BY <1>1 DEF Ops
  <2> HIDE DEF n
  <2>3. QED
    BY <1>1, <2>1, <2>2 DEF KnowsOf, NamedByJob, Refreshing
<1> HIDE DEF n
<1>4. QED
    BY <1>1, <1>2, <1>3, OrderGoesOnAlone

LEMMA CheckLinkOrder ==
    ASSUME IInv, OrderInv, NEW s \in Slots, CheckLink(s)
    PROVE  OrderInv'
PROOF
<1> DEFINE link(main) == [ops[s] EXCEPT !.at = "store", !.sub = users[ops[s].user],
                                        !.main = IF main THEN ops[s].char ELSE None]
<1>1. /\ ops[s] # Idle /\ ops[s].at = "link" /\ ops[s] \in Ops /\ Filled(ops[s])
      /\ UNCHANGED <<rows, users, crossed>>
    BY AtWork DEF CheckLink, At
<1>2. PICK mains \in {MainsOf(ops[s].user), {}} :
        \/ Go(s, Idle) /\ UNCHANGED astray
        \/ /\ Go(s, link(LinksAsMain(ops[s], mains))) /\ Crowned(ops[s], mains)
           /\ ~(ops[s].orig # None /\ ops[s].orig.user # ops[s].user)
    BY DEF CheckLink, End
<1> DEFINE main == LinksAsMain(ops[s], mains)
           n == link(main)
<1>3. /\ n.at = "store" /\ n.orig = ops[s].orig /\ n.char = ops[s].char /\ n.user = ops[s].user
      /\ n.sub = users[n.user] /\ n.main = (IF main THEN n.char ELSE None) /\ n.do = ops[s].do
    BY <1>1 DEF Ops
<1> HIDE DEF n
<1>4. ASSUME ~crossed, ops[s].orig = None \/ ops[s].orig.user = ops[s].user,
             Crowned(ops[s], mains)
      PROVE  KnowsOf(n, rows, users, astray')
  <2>1. KnowsOf(ops[s], rows, users, astray) /\ InOrder(ops[s], rows, users, astray)
    BY <1>1, <1>4, OneAtWork
  <2>2. ops[s].char \in Chars /\ ops[s].user \in Users
    BY <1>1 DEF Filled
  <2>3. n.orig = rows[n.char] \/ (n.orig = None /\ n.do \in {"login", "link"})
    BY <1>1, <1>3, <2>1 DEF KnowsOf, NamedByJob
  <2>a. /\ astray \subseteq astray'
        /\ mains = {} => n.user \in astray' \/ MainsIn(rows, n.user) \subseteq {n.char}
    BY <1>3, <1>4, CrownedAstray
  <2>4. ASSUME n.main # None
        PROVE  n.main = n.char /\ (n.user \in astray' \/ MainsIn(rows, n.user) \subseteq {n.char})
    <3>1. main /\ n.main = n.char
      BY <1>3, <2>4
    <3>2. CASE mains = {}
      BY <2>a, <3>1, <3>2
    <3>3. CASE ops[s].orig # None /\ ops[s].orig.main /\ n.user \notin astray'
      <4>1. n.char \in MainsIn(rows, n.user)
        BY <1>3, <1>4, <2>2, <2>3, <3>3 DEF MainsIn
      <4>2. \A c \in MainsIn(rows, n.user) : users[n.user] = c
        BY <1>1, <1>3, <2>1, <2>2, <2>a, <3>3, Strictly
      <4>3. QED
        BY <3>1, <4>1, <4>2
    <3>4. QED
      BY <3>1, <3>2, <3>3 DEF LinksAsMain
  <2>5. ASSUME n.orig # None PROVE n.orig.user = n.user /\ (n.orig.main => n.main # None)
    <3>1. n.orig.main => main
      BY <1>3, <2>5 DEF LinksAsMain
    <3>2. n.char # None
      BY <1>3, <2>2, AccountsAssumption
    <3>3. QED
      BY <1>3, <1>4, <2>5, <3>1, <3>2
  <2>6. QED
    BY <1>3, <2>3, <2>4, <2>5 DEF KnowsOf, NamedByJob, Refreshing
<1>5. CASE Go(s, Idle) /\ UNCHANGED astray
    BY <1>1, <1>5, OrderEnds
<1>6. CASE /\ Go(s, n) /\ Crowned(ops[s], mains)
           /\ ~(ops[s].orig # None /\ ops[s].orig.user # ops[s].user)
  <2>1. astray \subseteq astray'
    BY <1>6, CrownedAstray
  <2>2. QED
    BY <1>1, <1>4, <1>6, <2>1, OrderStrays
<1>7. QED
    BY <1>2, <1>5, <1>6 DEF n

\* A refresh and what follows it knows the same of the row.
LEMMA RefreshKnows ==
    ASSUME NEW o, NEW n, NEW R, NEW U, NEW M, KnowsOf(o, R, U, M),
           Refreshing(o) \/ NamedByJob(o), Refreshing(n),
           n.char = o.char /\ n.user = o.user /\ n.orig = o.orig,
           n.cur.id = o.cur.id /\ n.cur.user = o.cur.user /\ n.cur.main = o.cur.main,
           n.sub \in {o.sub, U[n.user], None}
    PROVE  KnowsOf(n, R, U, M)
PROOF
  BY DEF KnowsOf, NamedByJob, Refreshing

LEMMA FailedOrder ==
    ASSUME IInv, OrderInv, NEW s \in Slots, ops[s] # Idle, Refreshing(ops[s]),
           NEW b, Failed(s, ops[s], b), UNCHANGED <<rows, users, astray, crossed>>
    PROVE  OrderInv'
PROOF
<1> DEFINE n == [ops[s] EXCEPT !.at = "mark"]
<1>1. ops[s] \in Ops /\ ops[s].at # "name"
    BY AtWork DEF Refreshing
<1>2. Go(s, Idle) \/ (ops[s].do = "job" /\ Go(s, n))
    BY DEF Failed, End
<1>3. /\ n.at = "mark" /\ n.do = ops[s].do /\ n.char = ops[s].char /\ n.user = ops[s].user
      /\ n.orig = ops[s].orig /\ n.cur = ops[s].cur /\ n.sub = ops[s].sub
    BY <1>1 DEF Ops
<1> HIDE DEF n
<1>4. ASSUME ~crossed, ops[s].do = "job" PROVE KnowsOf(n, rows, users, astray)
    BY <1>1, <1>3, <1>4, OneAtWork, RefreshKnows DEF Refreshing, NamedByJob
<1>5. QED
    BY <1>1, <1>2, <1>4, OrderGoesOnAlone

LEMMA ExchangeTokenOrder ==
    ASSUME IInv, OrderInv, NEW s \in Slots, ExchangeToken(s)
    PROVE  OrderInv'
PROOF
<1> DEFINE subs == {IF ops[s].do = "job" THEN users[ops[s].user] ELSE ops[s].sub, None}
           n(t, sub) == [ops[s] EXCEPT !.at = "resolve", !.tok = t, !.sub = sub]
<1>1. /\ ops[s] # Idle /\ ops[s].at = "exchange" /\ ops[s] \in Ops /\ Refreshing(ops[s])
      /\ UNCHANGED <<rows, users, astray, crossed>>
    BY AtWork DEF ExchangeToken, At, Refreshing, Filled
<1>2. (\E t : \E sub \in subs : Go(s, n(t, sub))) \/ \E b : Failed(s, ops[s], b)
    BY <1>1 DEF ExchangeToken, Ops
<1>3. ASSUME NEW t, NEW sub \in subs
      PROVE  LET m == n(t, sub) IN
             /\ m.at = "resolve" /\ m.do = ops[s].do /\ m.char = ops[s].char
             /\ m.user = ops[s].user /\ m.orig = ops[s].orig /\ m.cur = ops[s].cur
             /\ m.sub \in {ops[s].sub, users[ops[s].user], None}
    BY <1>1 DEF Ops
<1> HIDE DEF n
<1>4. ASSUME NEW t, NEW sub \in subs, ~crossed PROVE KnowsOf(n(t, sub), rows, users, astray)
    BY <1>1, <1>3, <1>4, OneAtWork, RefreshKnows DEF Refreshing, NamedByJob
<1>5. QED
    BY <1>1, <1>2, <1>4, OrderGoesOnAlone, FailedOrder

LEMMA ResolveRefreshOrder ==
    ASSUME IInv, OrderInv, NEW s \in Slots, ResolveRefresh(s)
    PROVE  OrderInv'
PROOF
<1> DEFINE aff == ops[s].char \in allowed
           o == [ops[s] EXCEPT !.aff = aff]
           cur == Upserted(o, ops[s].cur, ops[s].cur.main)
           n == [ops[s] EXCEPT !.at = "save", !.aff = aff, !.cur = cur]
<1>1. /\ ops[s] # Idle /\ ops[s].at = "resolve" /\ ops[s] \in Ops /\ Refreshing(ops[s])
      /\ ops[s].cur \in Row /\ UNCHANGED <<rows, users, astray, crossed>>
    BY AtWork DEF ResolveRefresh, At, Refreshing, Filled
<1>2. Go(s, n) \/ Failed(s, ops[s], TRUE)
    BY DEF ResolveRefresh
<1>3. cur.id = ops[s].cur.id /\ cur.user = ops[s].cur.user /\ cur.main = ops[s].cur.main
    BY <1>1 DEF Upserted, Row
<1> HIDE DEF cur
<1>4. /\ n.at = "save" /\ n.do = ops[s].do /\ n.char = ops[s].char /\ n.user = ops[s].user
      /\ n.orig = ops[s].orig /\ n.cur = cur /\ n.sub = ops[s].sub
    BY <1>1 DEF Ops
<1> HIDE DEF n
<1>5. ASSUME ~crossed PROVE KnowsOf(n, rows, users, astray)
    BY <1>1, <1>3, <1>4, <1>5, OneAtWork, RefreshKnows DEF Refreshing, NamedByJob
<1>6. QED
    BY <1>1, <1>2, <1>5, OrderGoesOnAlone, FailedOrder

LEMMA ListSavedOrder ==
    ASSUME IInv, OrderInv, NEW s \in Slots, ListSaved(s)
    PROVE  OrderInv'
PROOF
<1> DEFINE n == [ops[s] EXCEPT !.at = "close"]
<1>1. /\ ops[s] # Idle /\ ops[s].at = "rows" /\ ops[s] \in Ops
      /\ UNCHANGED <<rows, users, astray, crossed>>
    BY AtWork DEF ListSaved, At, history
<1>2. Go(s, Idle) \/ Go(s, n)
    BY DEF ListSaved, End
<1>3. n.at = "close"
    BY <1>1 DEF Ops
<1> HIDE DEF n
<1>4. KnowsOf(n, rows, users, astray)
    BY <1>3 DEF KnowsOf, NamedByJob, Refreshing
<1>5. QED
    BY <1>1, <1>2, <1>4, OrderGoesOnAlone

-----------------------------------------------------------------------------
(* Handlers begin.                                                         *)

\* A handler that begins while none is at work, or else crosses another.
LEMMA OrderBegins ==
    ASSUME IInv, OrderInv, NEW s \in Slots, NEW n, NEW misses \in Nat, Begin(s, n, misses),
           UNCHANGED <<rows, users>>,
           astray \subseteq astray',
           \A M : M = astray' => KnowsOf(n, rows, users, M)
    PROVE  OrderInv'
PROOF
<1>1. Go(s, n) /\ ops[s] = Idle
    BY Began DEF IInv, Begin
<1>2. Exist(rows', users') /\ Differ(users')
    BY TableStays
<1>3. ASSUME ~crossed'
      PROVE  /\ \A z \in Slots \ {s} : ops[z] = Idle
             /\ InOrder(n, rows', users', astray') /\ KnowsOf(n, rows', users', astray')
  <2>1. ~crossed /\ \A z \in Slots : ops[z] = Idle
    BY <1>3, Zenon DEF Begin
  <2>2. InOrder(Idle, rows, users, astray)
    BY <2>1, NoneAtWork
  <2>3. InOrder(n, rows, users, astray')
    BY <2>2 DEF InOrder
  <2>4. QED
    BY <2>1, <2>3
<1>4. QED
    BY <1>1, <1>2, <1>3, OrderGoesOn

LEMMA StartOrder ==
    ASSUME IInv, OrderInv, NEW s \in Slots, Start(s)
    PROVE  OrderInv'
PROOF
<1> USE AccountsAssumption
<1>1. ASSUME NEW do \in {"login", "link"}, NEW u \in Users \cup {None}, NEW c \in Chars,
             BeginCallback(s, do, u, c)
      PROVE  OrderInv'
  <2> DEFINE n(t, row) == [Op(do, "affiliation", u, c, row) EXCEPT !.tok = t]
  <2>0. \A row : (IF row = rows[c] THEN 0 ELSE 1) \in Nat
    OBVIOUS
  <2>1. PICK t \in FreshTokens(c), row \in {rows[c], None}, misses \in Nat :
          Begin(s, n(t, row), misses)
    BY <1>1, <2>0, Zenon DEF BeginCallback
  <2>2. /\ n(t, row).at = "affiliation" /\ n(t, row).orig \in {rows[c], None}
        /\ n(t, row).char = c /\ n(t, row).do = do
    BY DEF Op
  <2>3. UNCHANGED <<rows, users, astray>>
    BY <1>1 DEF BeginCallback
  <2> HIDE DEF n
  <2>4. \A M : KnowsOf(n(t, row), rows, users, M)
    BY <2>2 DEF KnowsOf, NamedByJob, Refreshing
  <2>5. QED
    BY <2>1, <2>3, <2>4, OrderBegins
<1>2. ASSUME NEW do \in {"job", "request"}, NEW c \in Chars, BeginRefresh(s, do, c)
      PROVE  OrderInv'
  <2> DEFINE n == [Op(do, "exchange", rows[c].user, c, rows[c]) EXCEPT !.sub = users[rows[c].user]]
  <2>1. Begin(s, n, 0) /\ UNCHANGED <<rows, users, astray>>
    BY <1>2 DEF BeginRefresh
  <2>2. /\ n.at = "exchange" /\ n.orig = rows[c] /\ n.cur = rows[c] /\ n.char = c
        /\ n.user = rows[c].user /\ n.sub = users[n.user]
    BY DEF Op
  <2> HIDE DEF n
  <2>3. \A M : KnowsOf(n, rows, users, M)
    BY <2>2 DEF KnowsOf, NamedByJob, Refreshing
  <2>4. QED
    BY <2>1, <2>3, OrderBegins
<1>3. ASSUME NEW do \in {"remove", "revoke"}, NEW at \in {"delete", "clear"}, NEW c \in Chars,
             NEW misses \in Nat, Begin(s, Op(do, at, rows[c].user, c, rows[c]), misses),
             UNCHANGED <<rows, users, astray>>
      PROVE  OrderInv'
  <2> DEFINE n == Op(do, at, rows[c].user, c, rows[c])
  <2>1. n.at \in {"delete", "clear"} /\ n.orig = rows[c] /\ n.char = c
    BY DEF Op
  <2>2. Begin(s, n, misses)
    BY <1>3
  <2> HIDE DEF n
  <2>3. \A M : KnowsOf(n, rows, users, M)
    BY <2>1 DEF KnowsOf, NamedByJob, Refreshing
  <2>4. QED
    BY <1>3, <2>2, <2>3, OrderBegins
<1>4. ASSUME NEW u \in Users, NEW v \in Users, NEW cs, BeginMove(s, u, v, cs)
      PROVE  OrderInv'
  <2> DEFINE n == [Op("move", "rows", u, None, None) EXCEPT
                     !.main = v, !.list = [c \in cs |-> rows[c]]]
  <2>1. Begin(s, n, 0) /\ UNCHANGED <<rows, users, astray>>
    BY <1>4 DEF BeginMove
  <2>2. n.at = "rows" /\ n.do = "move" /\ n.list = [c \in cs |-> rows[c]]
    BY DEF Op
  <2> HIDE DEF n
  <2>3. \A M : KnowsOf(n, rows, users, M)
    BY <2>2 DEF KnowsOf, NamedByJob, Refreshing
  <2>4. QED
    BY <2>1, <2>3, OrderBegins
<1>5. ASSUME NEW c \in Chars, BeginSetMain(s, c)
      PROVE  OrderInv'
  <2> DEFINE u == rows[c].user
             n == [Op("crown", "rows", u, None, None) EXCEPT
                     !.main = c, !.list = [d \in Owned(u) |-> rows[d]]]
  <2>1. Begin(s, n, 0) /\ UNCHANGED <<rows, users>>
    BY <1>5 DEF BeginSetMain
  <2>2. n.at = "rows" /\ n.user = u /\ n.list = [d \in Owned(u) |-> rows[d]]
    BY DEF Op
  <2>3. astray' = IF crossed' THEN astray ELSE astray \cup {u}
    BY <1>5 DEF BeginSetMain
  <2>4. \A d \in Owned(u) : rows[d].user = u
    BY DEF Owned
  <2> HIDE DEF n, u
  <2>5. \A M : u \in M => KnowsOf(n, rows, users, M)
    BY <2>2, <2>4 DEF KnowsOf, NamedByJob, Refreshing
  <2>6. CASE ~crossed'
    BY <2>1, <2>3, <2>5, <2>6, OrderBegins
  <2>7. CASE crossed'
    <3>1. Go(s, n)
      BY <2>1, Began DEF IInv
    <3>2. QED
      BY <2>1, <2>7, <3>1, TableStays, OrderGoesOn
  <2>8. QED
    BY <2>6, <2>7
<1>6. ASSUME NEW c \in Chars, BeginRemove(s, c) \/ BeginRevoke(s, c)
      PROVE  OrderInv'
    BY <1>3, <1>6 DEF BeginRemove, BeginRevoke
<1>7. ASSUME NEW c \in Chars, BeginJobRefresh(s, c) \/ BeginRequestRefresh(s, c)
      PROVE  OrderInv'
    BY <1>2, <1>7 DEF BeginJobRefresh, BeginRequestRefresh
<1>8. ASSUME NEW c \in Chars, BeginLogin(s, c)
      PROVE  OrderInv'
    BY <1>1, <1>8 DEF BeginLogin
<1>9. ASSUME NEW u \in Users, NEW c \in Chars, BeginLink(s, u, c)
      PROVE  OrderInv'
    BY <1>1, <1>9 DEF BeginLink
<1>10. ASSUME NEW c \in Chars, NEW v \in Users, MoveOne(s, c, v)
      PROVE  OrderInv'
  <2>1. rows[c].user \in Users
    BY <1>10, RowOf DEF IInv, MoveOne
  <2>2. QED
    BY <1>4, <1>10, <2>1 DEF MoveOne
<1>11. QED
    BY <1>4, <1>5, <1>6, <1>7, <1>8, <1>9, <1>10 DEF Start, MergeInto

-----------------------------------------------------------------------------
(* Accounts are found, named and closed.                                   *)

\* A new name that no other account has, of one that owns nothing or is being named.
LEMMA NewName ==
    ASSUME Exist(rows, users), Differ(users), NEW u \in Users, NEW m \in Chars,
           users \in [Users -> Chars \cup {None}],
           \A v \in Users \ {u} : users[v] # m,
           users' = [users EXCEPT ![u] = m]
    PROVE  Exist(rows, users') /\ Differ(users')
PROOF
<1>1. \A v \in Users : users'[v] = IF v = u THEN m ELSE users[v]
    OBVIOUS
<1>2. m # None
    BY AccountsAssumption
<1>3. Differ(users')
    BY <1>1 DEF Differ
<1>4. Exist(rows, users')
  <2> SUFFICES ASSUME NEW c \in Chars, rows[c] # None PROVE users'[rows[c].user] # None
    BY DEF Exist
  <2>1. users[rows[c].user] # None
    BY DEF Exist
  <2>2. QED
    BY <1>2, <2>1
<1>5. QED
    BY <1>3, <1>4

LEMMA FindAccountOrder ==
    ASSUME IInv, OrderInv, NEW s \in Slots, FindAccount(s)
    PROVE  OrderInv'
PROOF
<1> DEFINE o == ops[s]
           n(u, sub, at) == [ops[s] EXCEPT !.user = u, !.sub = sub, !.at = at]
<1>1. /\ ops[s] # Idle /\ o.at = "account" /\ o \in Ops /\ o.char \in Chars
      /\ o.do \in {"login", "link"}
      /\ UNCHANGED <<rows, crossed>> /\ users \in [Users -> Chars \cup {None}]
    BY AtWork DEF FindAccount, At, Filled, IInv, TypeOK
<1>2. ASSUME NEW u, NEW sub, NEW at \in {"upsert", "insert"}
      PROVE  /\ n(u, sub, at).at = at /\ n(u, sub, at).orig = o.orig
             /\ n(u, sub, at).char = o.char /\ n(u, sub, at).user = u /\ n(u, sub, at).sub = sub
             /\ n(u, sub, at).do = o.do
    BY <1>1 DEF Ops
<1>3. ~crossed => (o.orig = rows[o.char] \/ o.orig = None) /\ InOrder(o, rows, users, astray)
    BY <1>1, OneAtWork DEF KnowsOf
<1>4. CASE o.orig # None
  <2>1. UNCHANGED <<users, astray>>
    BY <1>4 DEF FindAccount
  <2>2. Go(s, Idle) \/ Go(s, n(o.orig.user, users[o.orig.user], "upsert"))
    BY <1>4 DEF FindAccount, End
  <2> HIDE DEF n, o
  <2>3. ~crossed => KnowsOf(n(o.orig.user, users[o.orig.user], "upsert"), rows, users, astray)
    BY <1>2, <1>3, <1>4 DEF KnowsOf, NamedByJob, Refreshing
  <2>4. QED
    BY <1>1, <2>1, <2>2, <2>3, OrderGoesOnAlone DEF o
<1>5. CASE o.orig = None /\ {u \in Users : users[u] = o.char} # {}
  <2>1. PICK u \in Users : users[u] = o.char /\ Go(s, n(u, o.char, "insert"))
    BY <1>5 DEF FindAccount
  <2>2. UNCHANGED <<users, astray>>
    BY <1>5 DEF FindAccount
  <2> HIDE DEF n, o
  <2>3. ~crossed => KnowsOf(n(u, o.char, "insert"), rows, users, astray)
    BY <1>1, <1>2, <1>5, <2>1 DEF KnowsOf, NamedByJob, Refreshing
  <2>4. QED
    BY <1>1, <2>1, <2>2, <2>3, OrderGoesOnAlone DEF o
<1>6. CASE o.orig = None /\ {u \in Users : users[u] = o.char} = {}
  <2>1. PICK u \in Users : /\ users[u] = None /\ users' = [users EXCEPT ![u] = o.char]
                           /\ Go(s, n(u, o.char, "insert")) /\ astray' = astray \ {u}
    BY <1>6 DEF FindAccount
  <2>2. Exist(rows', users') /\ Differ(users')
    BY <1>1, <1>6, <2>1, TableStays, NewName
  <2>3. \A c \in Chars : rows[c] # None => rows[c].user # u
    BY <2>1, TableStays DEF Exist
  <2>4. \A v \in Users : users'[v] = IF v = u THEN o.char ELSE users[v]
    BY <1>1, <2>1
  <2> HIDE DEF n, o
  <2>5. ASSUME ~crossed
        PROVE  /\ \A z \in Slots \ {s} : ops[z] = Idle
               /\ InOrder(n(u, o.char, "insert"), rows', users', astray')
               /\ KnowsOf(n(u, o.char, "insert"), rows', users', astray')
    <3>1. \A z \in Slots \ {s} : ops[z] = Idle
      BY <1>1, <2>5, OneAtWork DEF o
    <3>2. \A v \in Users \ astray : \A c \in MainsIn(rows, v) : users[v] = c
      BY <1>1, <1>3, <2>5, Strictly DEF o
    <3>3. InOrder(n(u, o.char, "insert"), rows', users', astray')
      BY <1>1, <2>1, <2>3, <2>4, <3>2 DEF InOrder, MainsIn
    <3>4. KnowsOf(n(u, o.char, "insert"), rows', users', astray')
      BY <1>1, <1>2, <1>6, <2>4, <2>5 DEF KnowsOf, NamedByJob, Refreshing
    <3>5. QED
      BY <3>1, <3>3, <3>4
  <2>6. QED
    BY <1>1, <2>1, <2>2, <2>5, OrderGoesOn DEF o
<1>7. QED
    BY <1>4, <1>5, <1>6

LEMMA NameAccountOrder ==
    ASSUME IInv, OrderInv, NEW s \in Slots, NameAccount(s)
    PROVE  OrderInv'
PROOF
<1> DEFINE o == ops[s]
           n == [ops[s] EXCEPT !.at = "mark"]
<1>1. /\ ops[s] # Idle /\ o.at = "name" /\ o \in Ops /\ o.user \in Users /\ o.main \in Chars
      /\ UNCHANGED <<rows, crossed>> /\ users \in [Users -> Chars \cup {None}]
    BY AtWork DEF NameAccount, At, Filled, IInv, TypeOK
<1>2. /\ n.at = "mark" /\ n.do = o.do /\ n.char = o.char /\ n.user = o.user
      /\ n.orig = o.orig /\ n.cur = o.cur /\ n.sub = o.sub
    BY <1>1 DEF Ops
<1>3. ~crossed => /\ \A z \in Slots \ {s} : ops[z] = Idle
                  /\ InOrder(o, rows, users, astray) /\ KnowsOf(o, rows, users, astray)
    BY <1>1, OneAtWork
<1>4. Exist(rows, users) /\ Differ(users)
    BY TableStays
<1>5. CASE /\ UNCHANGED users /\ astray' = IF o.sub = o.main THEN astray ELSE Astray(o.user)
           /\ IF o.do = "job" THEN Go(s, n) ELSE Go(s, Idle)
  <2>1. astray \subseteq astray' /\ (~crossed => o.sub = o.main \/ o.user \in astray')
    BY <1>5 DEF Astray
  <2> HIDE DEF n, o
  <2>2. \A m : ~crossed => InOrder(m, rows', users', astray')
    BY <1>1, <1>3, <1>5, <2>1, NamingFails
  <2>3. ASSUME ~crossed, o.do = "job" PROVE KnowsOf(n, rows', users', astray')
    <3>1. NamedByJob(o)
      BY <1>1, <2>3 DEF NamedByJob
    <3>2. /\ o.orig = rows[o.char] /\ o.cur = o.orig /\ o.orig.user = o.user
          /\ o.sub = users[o.user]
      BY <1>1, <1>3, <2>3, <3>1 DEF KnowsOf
    <3>3. QED
      BY <1>1, <1>2, <1>5, <2>3, <3>2 DEF KnowsOf, NamedByJob, Refreshing
  <2>4. QED
    BY <1>1, <1>3, <1>4, <1>5, <2>2, <2>3, OrderGoesOn
<1>6. CASE ~NameTaken(o, o.main) /\ Name(o, o.main) /\ Go(s, Idle) /\ astray' = astray
  <2>1. Name(o, o.main) /\ Go(s, Idle) /\ astray' = astray
    BY <1>6
  <2> HIDE DEF n, o
  <2>2. CASE users' = users
    <3>1. ASSUME ~crossed PROVE InOrder(Idle, rows', users', astray')
      <4>1. o.sub = o.main \/ users[o.user] = None \/ users[o.user] = o.main
        BY <1>1, <2>1, <2>2 DEF Name
      <4>2. o.sub = users[o.user] /\ o.main \in MainsIn(rows, o.user)
        BY <1>1, <1>3, <3>1 DEF KnowsOf
      <4>3. users[o.user] = o.main
        BY <1>4, <4>1, <4>2 DEF Exist, MainsIn
      <4>4. QED
        BY <1>1, <1>3, <2>1, <2>2, <3>1, <4>3 DEF InOrder
    <3>2. QED
      BY <1>1, <1>3, <1>4, <2>1, <2>2, <3>1, OrderGoesOn
  <2>3. CASE users' # users
    <3>1. o.sub # o.main /\ users' = [users EXCEPT ![o.user] = o.main]
      BY <2>1, <2>3 DEF Name
    <3>2. \A v \in Users \ {o.user} : users[v] # o.main
      BY <1>6, <3>1 DEF NameTaken
    <3>3. Exist(rows', users') /\ Differ(users')
      BY <1>1, <1>4, <3>1, <3>2, NewName
    <3>4. \A v \in Users : users'[v] = IF v = o.user THEN o.main ELSE users[v]
      BY <1>1, <3>1
    <3>5. ASSUME ~crossed PROVE InOrder(Idle, rows', users', astray')
      <4>1. o.sub = users[o.user] /\ o.main \in MainsIn(rows, o.user)
        BY <1>1, <1>3, <3>5 DEF KnowsOf
      <4>2. ASSUME NEW c \in MainsIn(rows, o.user), o.user \notin astray PROVE c = o.main
        <5>1. \/ users[o.user] = o.main
              \/ MainsIn(rows, o.user) = {o.main}
          BY <1>1, <1>3, <3>5, <4>1, <4>2 DEF InOrder
        <5>2. QED
          BY <3>1, <4>1, <4>2, <5>1
      <4>3. QED
        BY <1>1, <1>3, <2>1, <3>4, <3>5, <4>2 DEF InOrder
    <3>6. QED
      BY <1>1, <1>3, <2>1, <3>3, <3>5, OrderGoesOn
  <2>4. QED
    BY <2>2, <2>3
<1>7. QED
    BY <1>5, <1>6 DEF NameAccount, End

LEMMA CloseAccountOrder ==
    ASSUME IInv, OrderInv, NEW s \in Slots, CloseAccount(s)
    PROVE  OrderInv'
PROOF
<1> DEFINE u == ops[s].user
<1>1. /\ ops[s] # Idle /\ ops[s].at = "close" /\ u \in Users /\ Go(s, Idle)
      /\ UNCHANGED <<rows, crossed, astray>> /\ users \in [Users -> Chars \cup {None}]
    BY AtWork DEF CloseAccount, At, Filled, IInv, TypeOK, End, history
<1>2. CASE users' = users
    BY <1>1, <1>2, OrderEnds
<1>3. CASE users' # users
  <2>1. users' = [users EXCEPT ![u] = None] /\ Owned(u) = {}
    BY <1>3 DEF CloseAccount, Close
  <2>2. \A v \in Users : users'[v] = IF v = u THEN None ELSE users[v]
    BY <1>1, <2>1
  <2>3. \A c \in Chars : rows[c] # None => rows[c].user # u
    BY <2>1 DEF Owned
  <2> HIDE DEF u
  <2>4. Differ(users')
    BY <2>2, TableStays DEF Differ
  <2>5. Exist(rows', users')
    <3>1. \A c \in Chars : rows[c] # None => users'[rows[c].user] = users[rows[c].user]
      BY <1>1, <2>1, <2>3
    <3>2. QED
      BY <1>1, <3>1, TableStays DEF Exist
  <2>6. ASSUME ~crossed
        PROVE  (\A z \in Slots \ {s} : ops[z] = Idle) /\ InOrder(Idle, rows', users', astray')
    <3>1. /\ \A z \in Slots \ {s} : ops[z] = Idle
          /\ \A v \in Users \ astray : \A c \in MainsIn(rows, v) : users[v] = c
      BY <1>1, <2>6, OneAtWork, Strictly
    <3>2. QED
      BY <1>1, <2>2, <2>3, <3>1 DEF InOrder, MainsIn
  <2>7. QED
    BY <1>1, <2>4, <2>5, <2>6, OrderGoesOn
<1>4. QED
    BY <1>2, <1>3

-----------------------------------------------------------------------------
(* Rows are written.                                                       *)

\* A save of a row that is still as it was loaded.
LEMMA WrittenWhole ==
    ASSUME TypeOK, NEW c \in Chars, rows[c] \in Row, NEW cur \in Row
    PROVE  Written(c, rows[c], cur) = [rows EXCEPT ![c] = cur]
PROOF
<1> DEFINE r == rows[c]
           new == [f \in DOMAIN r |-> IF cur[f] # r[f] THEN cur[f] ELSE r[f]]
<1>1. Present(c, r)
    BY NoneIsNothing DEF Present
<1>2. Written(c, r, cur) = [rows EXCEPT ![c] = new]
    BY <1>1, Zenon DEF Written
<1>3. new = cur
  <2>1. DOMAIN r = {"id", "user", "main", "tok", "valid", "aff"} /\ DOMAIN cur = DOMAIN r
    BY DEF Row
  <2>2. new = [f \in DOMAIN cur |-> cur[f]]
    BY <2>1
  <2>3. [f \in DOMAIN cur |-> cur[f]] = cur
    BY DEF Row
  <2>4. QED
    BY <2>2, <2>3
<1>4. QED
    BY <1>2, <1>3

\* A save leaves every row with an owner that exists.
LEMMA WrittenOwned ==
    ASSUME TypeOK, Exist(rows, users), NEW c \in Chars, NEW orig \in Row, NEW cur \in Row,
           CanSave(cur)
    PROVE  Exist(Written(c, orig, cur), users)
PROOF
<1> DEFINE New(r) == [f \in DOMAIN r |-> IF cur[f] # orig[f] THEN cur[f] ELSE r[f]]
<1>1. ASSUME NEW r \in Row
      PROVE  New(r).user = IF cur.user # orig.user THEN cur.user ELSE r.user
    BY <1>1 DEF Row
<1>2. CASE ~Present(c, orig)
    BY <1>2 DEF Written
<1>3. CASE Present(c, orig)
  <2>1. rows[c] \in Row /\ rows[c] # None
    BY <1>3 DEF Present, TypeOK
  <2>2. Written(c, orig, cur) = [rows EXCEPT ![c] = New(rows[c])]
    BY <1>3, Zenon DEF Written
  <2> HIDE DEF New
  <2>3. /\ Written(c, orig, cur)[c] = New(rows[c])
        /\ \A d \in Chars \ {c} : Written(c, orig, cur)[d] = rows[d]
    BY <2>2 DEF TypeOK
  <2>4. users[New(rows[c]).user] # None
    BY <1>1, <2>1 DEF Exist, CanSave
  <2>5. QED
    BY <2>3, <2>4 DEF Exist
<1>4. QED
    BY <1>2, <1>3

\* A row that is no main, or is one where it was one, makes no disorder.
LEMMA NoNewMain ==
    ASSUME TypeOK, NEW c \in Chars, NEW r, NEW R, R = [rows EXCEPT ![c] = r],
           \A u \in Users \ astray : \A d \in MainsIn(rows, u) : users[u] = d,
           r = None \/ ~r.main \/ r.user \in astray
             \/ (rows[c] # None /\ r.user = rows[c].user /\ r.main = rows[c].main)
    PROVE  \A n : InOrder(n, R, users, astray)
PROOF
<1>0. R[c] = r /\ \A d \in Chars \ {c} : R[d] = rows[d]
    BY DEF TypeOK
<1>1. \A u : \A d \in Chars : d \in MainsIn(R, u) <=>
        IF d = c THEN r # None /\ r.user = u /\ r.main ELSE d \in MainsIn(rows, u)
    BY <1>0 DEF MainsIn
<1>2. ASSUME NEW u \in Users \ astray, NEW d \in MainsIn(R, u)
      PROVE  users[u] = d
  <2>1. d \in Chars
    BY DEF MainsIn
  <2>2. CASE d # c
    BY <1>1, <2>1, <2>2
  <2>3. CASE d = c
    <3>1. r # None /\ r.user = u /\ r.main
      BY <1>1, <2>3
    <3>2. rows[c] # None /\ rows[c].user = u
      BY <3>1
    <3>3. rows[c].main
      BY <3>1, Zenon
    <3>4. QED
      BY <2>3, <3>2, <3>3 DEF MainsIn
  <2>4. QED
    BY <2>2, <2>3
<1>3. QED
    BY <1>2 DEF InOrder

\* Handler s saves the row of c as cur and goes on as n.
LEMMA OrderWrites ==
    ASSUME IInv, OrderInv, NEW s \in Slots, ops[s] # Idle, NEW n, Go(s, n),
           UNCHANGED <<users, crossed>>,
           NEW c \in Chars, NEW orig \in Row, NEW cur \in Row, CanSave(cur),
           rows' = Written(c, orig, cur),
           ~crossed => rows[c] = orig,
           ~crossed /\ rows' = [rows EXCEPT ![c] = cur] =>
             /\ InOrder(n, rows', users, astray')
             /\ n = Idle \/ KnowsOf(n, rows', users, astray')
    PROVE  OrderInv'
PROOF
<1>1. Exist(rows', users') /\ Differ(users')
    BY TableStays, WrittenOwned DEF IInv
<1>2. ~crossed => rows' = [rows EXCEPT ![c] = cur]
    BY WrittenWhole DEF IInv
<1>3. QED
    BY <1>1, <1>2, OneAtWork, OrderGoesOn

\* The row keeps its owner and whether it is a main.
LEMMA OrderKeeps ==
    ASSUME IInv, OrderInv, NEW s \in Slots, ops[s] # Idle, ops[s].at # "name", NEW n, Go(s, n),
           UNCHANGED <<users, astray, crossed>>,
           NEW c \in Chars, NEW orig \in Row, NEW cur \in Row, CanSave(cur),
           rows' = Written(c, orig, cur),
           ~crossed => rows[c] = orig,
           ~crossed => ~cur.main \/ cur.user \in astray
                         \/ (cur.user = orig.user /\ cur.main = orig.main),
           ~crossed /\ rows' = [rows EXCEPT ![c] = cur] =>
             n = Idle \/ KnowsOf(n, rows', users, astray)
    PROVE  OrderInv'
PROOF
<1>1. orig # None
    BY NoneIsNothing
<1>2. ASSUME ~crossed, rows' = [rows EXCEPT ![c] = cur]
      PROVE  InOrder(n, rows', users, astray)
  <2>1. \A u \in Users \ astray : \A d \in MainsIn(rows, u) : users[u] = d
    BY <1>2, OneAtWork, Strictly
  <2>2. QED
    BY <1>1, <1>2, <2>1, NoNewMain DEF IInv
<1>3. QED
    BY <1>2, OrderWrites

\* A new row for the character of a handler.
LEMMA InsertedOrder ==
    ASSUME IInv, OrderInv, NEW s \in Slots, ops[s] # Idle, ops[s].char \in Chars,
           NEW n, Go(s, n), UNCHANGED <<users, astray, crossed>>,
           CanInsert(ops[s]), ops[s].user \in Users,
           NEW r, r # None, r.user = ops[s].user, rows' = [rows EXCEPT ![ops[s].char] = r],
           ~crossed => InOrder(n, rows', users, astray) /\ (n = Idle \/ KnowsOf(n, rows', users, astray))
    PROVE  OrderInv'
PROOF
<1>1. rows'[ops[s].char] = r /\ \A d \in Chars \ {ops[s].char} : rows'[d] = rows[d]
    BY DEF IInv, TypeOK
<1>2. Exist(rows', users') /\ Differ(users')
    BY <1>1, TableStays DEF Exist, CanInsert
<1>3. QED
    BY <1>2, OneAtWork, OrderGoesOn

\* The row a handler inserts.
LEMMA InsertIs ==
    ASSUME NEW o \in Ops, o.char \in Chars, o.user \in Users, NEW b \in BOOLEAN, InsertRow(o, b)
    PROVE  \E r : /\ r # None /\ r.user = o.user /\ r.main = b
                  /\ rows' = [rows EXCEPT ![o.char] = r]
PROOF
<1> DEFINE r(n) == [id |-> n, user |-> o.user, main |-> b, tok |-> o.tok, valid |-> TRUE, aff |-> o.aff]
<1>1. PICK n \in FreshIds(o.char) : rows' = [rows EXCEPT ![o.char] = r(n)]
    BY DEF InsertRow
<1>2. r(n).user = o.user /\ r(n).main = b
    OBVIOUS
<1>3. r(n) \in Row
  <2>1. n \in 0..MaxAlone /\ o.tok \in Tokens \cup {None} /\ o.aff \in BOOLEAN
    BY DEF FreshIds, Smallest, Ops
  <2>2. QED
    BY <2>1 DEF Row
<1> HIDE DEF r
<1>4. r(n) # None
    BY <1>3, NoneIsNothing
<1>5. QED
    BY <1>1, <1>2, <1>4

LEMMA InsertMainOrder ==
    ASSUME IInv, OrderInv, NEW s \in Slots, InsertMain(s)
    PROVE  OrderInv'
PROOF
<1> DEFINE o == ops[s]
<1>1. /\ o # Idle /\ o.at = "insert" /\ o \in Ops /\ o.char \in Chars /\ o.user \in Users
      /\ Go(s, Idle) /\ UNCHANGED <<users, astray, crossed>>
    BY AtWork DEF InsertMain, At, Filled, End
<1>2. CASE UNCHANGED rows
    BY <1>1, <1>2, OrderEnds
<1>3. CASE CanInsert(o) /\ InsertRow(o, TRUE)
  <2>1. PICK r : r # None /\ r.user = o.user /\ r.main = TRUE /\ rows' = [rows EXCEPT ![o.char] = r]
    BY <1>1, <1>3, InsertIs
  <2>2. ASSUME ~crossed PROVE InOrder(Idle, rows', users, astray)
    <3>1. /\ \A u \in Users \ astray : \A c \in MainsIn(rows, u) : users[u] = c
          /\ users[o.user] = o.char
      BY <1>1, <2>2, OneAtWork, Strictly DEF KnowsOf
    <3>2. /\ rows'[o.char] = r /\ \A d \in Chars \ {o.char} : rows'[d] = rows[d]
      BY <1>1, <2>1 DEF IInv, TypeOK
    <3>3. QED
      BY <1>1, <2>1, <3>1, <3>2 DEF InOrder, MainsIn
  <2>3. QED
    BY <1>1, <1>3, <2>1, <2>2, InsertedOrder
<1>4. QED
    BY <1>2, <1>3 DEF InsertMain

\* The record of a login or a refresh that is complete.
LEMMA UpsertedFields ==
    ASSUME NEW o, NEW r \in Row, NEW b
    PROVE  /\ Upserted(o, r, b).id = r.id /\ Upserted(o, r, b).user = r.user
           /\ Upserted(o, r, b).main = b
PROOF
  BY DEF Upserted, Row

LEMMA UpsertRowOrder ==
    ASSUME IInv, OrderInv, NEW s \in Slots, UpsertRow(s)
    PROVE  OrderInv'
PROOF
<1> DEFINE o == ops[s]
           cur == Upserted(o, o.orig, o.orig.main)
           n == [o EXCEPT !.at = "main", !.orig = cur]
<1>1. /\ o # Idle /\ o.at = "upsert" /\ o \in Ops /\ o.char \in Chars /\ o.user \in Users
      /\ o.orig \in Row /\ UNCHANGED <<users, astray, crossed>>
    BY AtWork DEF UpsertRow, At, Filled, HasRow
<1>2. CASE UNCHANGED rows /\ Go(s, Idle)
    BY <1>1, <1>2, OrderEnds
<1>3. CASE CanSave(cur) /\ Save(o, cur) /\ Go(s, n)
  <2>1. rows' = Written(o.char, o.orig, cur)
    BY <1>3 DEF Save
  <2>2. cur.user = o.orig.user /\ cur.main = o.orig.main
    BY <1>1, UpsertedFields
  <2>3. cur \in Row
    BY <1>1, UpsertedRow DEF Row
  <2> HIDE DEF cur
  <2>4. n.at = "main" /\ n.orig = cur /\ n.user = o.user /\ n.sub = o.sub /\ n.char = o.char
    BY <1>1 DEF Ops
  <2> HIDE DEF n
  <2>5. ~crossed => rows[o.char] = o.orig /\ o.sub = users[o.user] /\ o.orig.user = o.user
    BY <1>1, OneAtWork, NoneIsNothing DEF KnowsOf
  <2>6. ASSUME ~crossed, rows' = [rows EXCEPT ![o.char] = cur]
        PROVE  KnowsOf(n, rows', users, astray)
    <3>1. rows'[o.char] = cur
      BY <1>1, <2>6 DEF IInv, TypeOK
    <3>2. QED
      BY <2>2, <2>4, <2>5, <2>6, <3>1 DEF KnowsOf, NamedByJob, Refreshing
  <2>7. QED
    BY <1>1, <1>3, <2>1, <2>2, <2>3, <2>5, <2>6, OrderKeeps
<1>4. QED
    BY <1>2, <1>3 DEF UpsertRow, End

LEMMA EnsureMainOrder ==
    ASSUME IInv, OrderInv, NEW s \in Slots, EnsureMain(s)
    PROVE  OrderInv'
PROOF
<1> DEFINE o == ops[s]
           cur == [o.orig EXCEPT !.main = TRUE]
           n == [o EXCEPT !.at = "name", !.main = o.char]
           m(d) == [o EXCEPT !.at = "mainaff", !.main = d, !.cur = rows[d]]
<1>1. /\ o # Idle /\ o.at = "main" /\ o \in Ops /\ o.char \in Chars /\ o.user \in Users
      /\ o.orig \in Row /\ o.do \in {"login", "link"} /\ UNCHANGED <<users, crossed>>
    BY AtWork DEF EnsureMain, At, Filled, HasRow
<1>2. /\ n.at = "name" /\ n.main = o.char /\ n.user = o.user /\ n.sub = o.sub /\ n.char = o.char
      /\ n.do = o.do
    BY <1>1 DEF Ops
<1>3. ASSUME NEW d
      PROVE  /\ m(d).at = "mainaff" /\ m(d).main = d /\ m(d).user = o.user /\ m(d).sub = o.sub
             /\ m(d).char = o.char /\ m(d).cur = rows[d] /\ m(d).orig = o.orig
    BY <1>1 DEF Ops
<1>4. ~crossed => /\ rows[o.char] = o.orig /\ o.sub = users[o.user] /\ o.orig.user = o.user
                  /\ \A u \in Users \ astray : \A c \in MainsIn(rows, u) : users[u] = c
    BY <1>1, OneAtWork, Strictly, NoneIsNothing DEF KnowsOf
<1>5. CASE UNCHANGED <<rows, astray>> /\ Go(s, Idle)
    BY <1>1, <1>5, OrderEnds
<1>6. CASE /\ CanSave(cur) /\ rows' = Written(o.char, o.orig, cur) /\ Go(s, n)
           /\ \E mains \in {MainsOf(o.user), {}} : mains = {} /\ Crowned(o, mains)
  <2>0. /\ astray \subseteq astray'
        /\ ~crossed => o.user \in astray' \/ MainsIn(rows, o.user) \subseteq {o.char}
    BY <1>6, CrownedAstray
  <2>1. cur \in Row /\ cur.user = o.orig.user /\ cur.main = TRUE
    BY <1>1 DEF Row
  <2> HIDE DEF cur, n
  <2>2. ASSUME ~crossed, rows' = [rows EXCEPT ![o.char] = cur]
        PROVE  InOrder(n, rows', users, astray') /\ KnowsOf(n, rows', users, astray')
    <3>1. rows'[o.char] = cur /\ \A d \in Chars \ {o.char} : rows'[d] = rows[d]
      BY <1>1, <2>2 DEF IInv, TypeOK
    <3>2. cur # None /\ cur.user = o.user
      BY <1>4, <2>1, <2>2, NoneIsNothing
    <3>3. o.char \in MainsIn(rows', o.user)
      BY <1>1, <2>1, <3>1, <3>2 DEF MainsIn
    <3>4. ASSUME o.user \notin astray' PROVE MainsIn(rows', o.user) = {o.char}
      <4>1. MainsIn(rows, o.user) \subseteq {o.char}
        BY <2>0, <2>2, <3>4
      <4>2. MainsIn(rows', o.user) \subseteq {o.char}
        BY <3>1, <4>1 DEF MainsIn
      <4>3. QED
        BY <3>3, <4>2
    <3>5. ASSUME NEW u \in Users \ astray', NEW c \in MainsIn(rows', u), users[u] # c
          PROVE  n # Idle /\ n.at = "name" /\ n.user = u /\ n.main = c /\ MainsIn(rows', u) = {c}
      <4>1. CASE c = o.char
        <5>1. u = o.user
          BY <3>1, <3>2, <3>5, <4>1 DEF MainsIn
        <5>2. n # Idle
          BY <1>1, <1>2 DEF Idle
        <5>3. QED
          BY <1>2, <3>4, <3>5, <4>1, <5>1, <5>2
      <4>2. CASE c # o.char
        <5>1. c \in MainsIn(rows, u)
          BY <3>1, <3>5, <4>2 DEF MainsIn
        <5>2. QED
          BY <1>4, <2>0, <2>2, <3>5, <5>1
      <4>3. QED
        BY <4>1, <4>2
    <3>6. InOrder(n, rows', users, astray')
      BY <3>5 DEF InOrder
    <3>7. KnowsOf(n, rows', users, astray')
      BY <1>1, <1>2, <1>4, <2>2, <3>3 DEF KnowsOf, NamedByJob, Refreshing
    <3>8. QED
      BY <3>6, <3>7
  <2>3. QED
    BY <1>1, <1>4, <1>6, <2>1, <2>2, OrderWrites
<1>7. ASSUME NEW d \in MainsOf(o.user), UNCHANGED <<rows, astray>>, d # o.char, Go(s, m(d))
      PROVE  OrderInv'
  <2> HIDE DEF m
  <2>1. ~crossed => KnowsOf(m(d), rows, users, astray)
    BY <1>1, <1>3, <1>4, MainsAre DEF KnowsOf, NamedByJob, Refreshing
  <2>2. QED
    BY <1>1, <1>7, <2>1, OrderGoesOnAlone
<1>8. ASSUME o.char \in MainsOf(o.user), UNCHANGED <<rows, astray>>, Go(s, n)
      PROVE  OrderInv'
  <2> HIDE DEF n
  <2>1. ~crossed => KnowsOf(n, rows, users, astray)
    BY <1>1, <1>2, <1>4, <1>8, MainsAre DEF KnowsOf, NamedByJob, Refreshing
  <2>2. QED
    BY <1>1, <1>8, <2>1, OrderGoesOnAlone
<1> HIDE DEF cur, n, m
<1>9. PICK mains \in {MainsOf(o.user), {}} :
        \/ /\ mains = {} /\ CanSave(cur) /\ rows' = Written(o.char, o.orig, cur)
           /\ Go(s, n) /\ Crowned(o, mains)
        \/ /\ UNCHANGED <<rows, astray>>
           /\ IF mains = {} THEN Go(s, Idle)
              ELSE \E d \in mains : \/ d # o.char /\ Go(s, m(d))
                                    \/ d = o.char /\ Go(s, n)
                                    \/ Go(s, Idle)
  <2>1. \A d : d = o.char => [o EXCEPT !.at = "name", !.main = d] = n
    BY DEF n
  <2>2. QED
    BY <2>1, Zenon DEF EnsureMain, End, cur, n, m
<1>10. QED
  <2>1. CASE mains = {} /\ CanSave(cur) /\ rows' = Written(o.char, o.orig, cur)
             /\ Go(s, n) /\ Crowned(o, mains)
    BY <1>6, <2>1
  <2>2. CASE UNCHANGED <<rows, astray>> /\ Go(s, Idle)
    BY <1>5, <2>2
  <2>3. ASSUME NEW d \in mains, UNCHANGED <<rows, astray>>,
               (d # o.char /\ Go(s, m(d))) \/ (d = o.char /\ Go(s, n))
        PROVE  OrderInv'
    BY <1>7, <1>8, <2>3
  <2>4. QED
    BY <1>9, <2>1, <2>2, <2>3

LEMMA RefreshMainAffiliationOrder ==
    ASSUME IInv, OrderInv, NEW s \in Slots, RefreshMainAffiliation(s)
    PROVE  OrderInv'
PROOF
<1> DEFINE o == ops[s]
           said == [o.cur EXCEPT !.aff = o.main \in allowed]
           n == [o EXCEPT !.at = "name"]
<1>1. /\ o # Idle /\ o.at = "mainaff" /\ o \in Ops /\ o.main \in Chars /\ o.user \in Users
      /\ o.cur \in Row /\ o.do \in {"login", "link"} /\ UNCHANGED <<users, astray, crossed>>
    BY AtWork DEF RefreshMainAffiliation, At, Filled, history
<1>2. /\ n.at = "name" /\ n.main = o.main /\ n.user = o.user /\ n.sub = o.sub /\ n.do = o.do
    BY <1>1 DEF Ops
<1>3. ~crossed => /\ rows[o.main] = o.cur /\ o.sub = users[o.user] /\ o.main \in MainsIn(rows, o.user)
    BY <1>1, OneAtWork DEF KnowsOf
<1>4. said \in Row /\ said.user = o.cur.user /\ said.main = o.cur.main
  <2>1. ASSUME NEW b \in BOOLEAN
        PROVE  LET r == [o.cur EXCEPT !.aff = b]
               IN  r \in Row /\ r.user = o.cur.user /\ r.main = o.cur.main
    BY <1>1 DEF Row
  <2>2. (o.main \in allowed) \in BOOLEAN
    OBVIOUS
  <2>3. QED
    BY <2>1, <2>2, Zenon
<1>5. CASE UNCHANGED rows /\ Go(s, Idle)
    BY <1>1, <1>5, OrderEnds
<1>6. CASE UNCHANGED rows /\ Go(s, n)
  <2> HIDE DEF n
  <2>1. ~crossed => KnowsOf(n, rows, users, astray)
    BY <1>1, <1>2, <1>3 DEF KnowsOf, NamedByJob, Refreshing
  <2>2. QED
    BY <1>1, <1>6, <2>1, OrderGoesOnAlone
<1>7. CASE CanSave(said) /\ rows' = Written(o.main, o.cur, said) /\ Go(s, n)
  <2> HIDE DEF n, said
  <2>1. ASSUME ~crossed, rows' = [rows EXCEPT ![o.main] = said]
        PROVE  KnowsOf(n, rows', users, astray)
    <3>1. rows'[o.main] = said /\ said # None
      BY <1>1, <1>4, <2>1, NoneIsNothing DEF IInv, TypeOK
    <3>2. o.cur.user = o.user /\ o.cur.main
      BY <1>3, <2>1 DEF MainsIn
    <3>3. said.user = o.user /\ said.main
      BY <1>4, <3>2
    <3>4. n.main \in MainsIn(rows', n.user)
      BY <1>1, <1>2, <3>1, <3>3 DEF MainsIn
    <3>5. QED
      BY <1>1, <1>2, <1>3, <2>1, <3>4 DEF KnowsOf, NamedByJob, Refreshing
  <2>2. QED
    BY <1>1, <1>3, <1>4, <1>7, <2>1, OrderKeeps
<1>8. QED
    BY <1>5, <1>6, <1>7 DEF RefreshMainAffiliation, End

LEMMA StoreLinkOrder ==
    ASSUME IInv, OrderInv, NEW s \in Slots, StoreLink(s)
    PROVE  OrderInv'
PROOF
<1> DEFINE o == ops[s]
           main == o.main # None
           cur == Upserted(o, o.orig, main)
           n == IF main THEN [o EXCEPT !.at = "name"] ELSE Idle
<1>1. /\ o # Idle /\ o.at = "store" /\ o \in Ops /\ o.char \in Chars /\ o.user \in Users
      /\ o.do \in {"login", "link"} /\ UNCHANGED <<users, astray, crossed>>
    BY AtWork DEF StoreLink, At, Filled
<1>2. main => /\ n.at = "name" /\ n.main = o.main /\ n.user = o.user /\ n.sub = o.sub
              /\ n.do = o.do /\ n # Idle
    BY <1>1 DEF Ops, Idle
<1>3. ~main => n = Idle
    OBVIOUS
<1>4. ASSUME ~crossed
      PROVE  /\ o.orig # None => rows[o.char] = o.orig
             /\ o.sub = users[o.user]
             /\ o.orig # None => o.orig.user = o.user /\ (o.orig.main => main)
             /\ main => o.main = o.char /\ (o.user \in astray \/ MainsIn(rows, o.user) \subseteq {o.char})
             /\ \A u \in Users \ astray : \A c \in MainsIn(rows, u) : users[u] = c
    BY <1>1, <1>4, OneAtWork, Strictly DEF KnowsOf, NamedByJob, Refreshing
<1>5. CASE UNCHANGED rows /\ Go(s, Idle)
    BY <1>1, <1>5, OrderEnds
<1> HIDE DEF n
<1>6. ASSUME ~crossed, NEW r, r # None, r.user = o.user, r.main = main,
             rows' = [rows EXCEPT ![o.char] = r]
      PROVE  InOrder(n, rows', users, astray) /\ (n = Idle \/ KnowsOf(n, rows', users, astray))
  <2>1. rows'[o.char] = r /\ \A d \in Chars \ {o.char} : rows'[d] = rows[d]
    BY <1>1, <1>6 DEF IInv, TypeOK
  <2>2. CASE ~main
    <3>1. ~r.main
      BY <1>6, <2>2
    <3>2. InOrder(n, rows', users, astray)
      BY <1>1, <1>4, <1>6, <3>1, NoNewMain DEF IInv
    <3>3. QED
      BY <1>3, <2>2, <3>2
  <2>3. CASE main
    <3>1. r.main /\ o.main = o.char
      BY <1>4, <1>6, <2>3
    <3>2. o.char \in MainsIn(rows', o.user)
      BY <1>1, <1>6, <2>1, <3>1 DEF MainsIn
    <3>3. ASSUME o.user \notin astray PROVE MainsIn(rows', o.user) = {o.char}
      <4>1. MainsIn(rows, o.user) \subseteq {o.char}
        BY <1>4, <1>6, <2>3, <3>3
      <4>2. MainsIn(rows', o.user) \subseteq {o.char}
        BY <2>1, <4>1 DEF MainsIn
      <4>3. QED
        BY <3>2, <4>2
    <3>4. ASSUME NEW u \in Users \ astray, u # o.user, NEW c \in MainsIn(rows', u)
          PROVE  users[u] = c
      <4>1. c # o.char
        BY <1>6, <2>1, <3>4 DEF MainsIn
      <4>2. c \in MainsIn(rows, u)
        BY <2>1, <4>1 DEF MainsIn
      <4>3. QED
        BY <1>4, <1>6, <4>2
    <3>5. InOrder(n, rows', users, astray)
      <4>1. ASSUME NEW u \in Users \ astray, NEW c \in MainsIn(rows', u), users[u] # c
            PROVE  n # Idle /\ n.at = "name" /\ n.user = u /\ n.main = c /\ MainsIn(rows', u) = {c}
        <5>1. u = o.user /\ c = o.char
          BY <3>3, <3>4, <4>1
        <5>2. QED
          BY <1>2, <2>3, <3>1, <3>3, <4>1, <5>1
      <4>2. QED
        BY <4>1 DEF InOrder
    <3>6. KnowsOf(n, rows', users, astray)
      BY <1>1, <1>2, <1>4, <1>6, <2>3, <3>1, <3>2 DEF KnowsOf, NamedByJob, Refreshing
    <3>7. QED
      BY <3>5, <3>6
  <2>4. QED
    BY <2>2, <2>3
<1>7. CASE o.orig = None /\ CanInsert(o) /\ InsertRow(o, main) /\ Go(s, n)
  <2>1. PICK r : r # None /\ r.user = o.user /\ r.main = main /\ rows' = [rows EXCEPT ![o.char] = r]
    BY <1>1, <1>7, InsertIs
  <2>2. QED
    BY <1>1, <1>6, <1>7, <2>1, InsertedOrder
<1>8. CASE o.orig # None /\ CanSave(o.orig) /\ Save(o, cur) /\ Go(s, n)
  <2>1. o.orig \in Row
    BY <1>1, <1>8 DEF Ops
  <2>2. cur \in Row /\ cur.user = o.orig.user /\ cur.main = main
    <3>1. main \in BOOLEAN
      OBVIOUS
    <3>2. ASSUME NEW b \in BOOLEAN
          PROVE  LET r == Upserted(o, o.orig, b)
                 IN  r \in Row /\ r.user = o.orig.user /\ r.main = b
      BY <1>1, <2>1, UpsertedRow, UpsertedFields
    <3>3. QED
      BY <3>1, <3>2, Zenon
  <2>3. rows' = Written(o.char, o.orig, cur)
    BY <1>8 DEF Save
  <2> HIDE DEF cur
  <2>4. CanSave(cur) /\ cur # None
    BY <1>8, <2>2, NoneIsNothing DEF CanSave
  <2>5. ~crossed => cur.user = o.user
    BY <1>4, <1>8, <2>2
  <2>6. ~crossed /\ rows' = [rows EXCEPT ![o.char] = cur] =>
          InOrder(n, rows', users, astray) /\ (n = Idle \/ KnowsOf(n, rows', users, astray))
    BY <1>6, <2>2, <2>4, <2>5
  <2>7. QED
    BY <1>1, <1>4, <1>8, <2>1, <2>2, <2>3, <2>4, <2>6, OrderWrites
<1>9. QED
  <2>1. n = IF main THEN [o EXCEPT !.at = "name"] ELSE Idle
    BY DEF n
  <2>2. QED
    BY <1>5, <1>7, <1>8, <2>1 DEF StoreLink, End

LEMMA SaveRefreshOrder ==
    ASSUME IInv, OrderInv, NEW s \in Slots, SaveRefresh(s)
    PROVE  OrderInv'
PROOF
<1> DEFINE o == ops[s]
           n == [o EXCEPT !.at = "name", !.main = o.char, !.orig = o.cur]
<1>1. /\ o # Idle /\ o.at = "save" /\ o \in Ops /\ o.char \in Chars /\ o.user \in Users
      /\ o.orig \in Row /\ o.cur \in Row /\ Refreshing(o)
      /\ UNCHANGED <<users, astray, crossed>>
    BY AtWork DEF SaveRefresh, At, Filled, HasRow, Refreshing
<1>2. /\ n.at = "name" /\ n.main = o.char /\ n.user = o.user /\ n.sub = o.sub /\ n.char = o.char
      /\ n.do = o.do /\ n.orig = o.cur /\ n.cur = o.cur
    BY <1>1 DEF Ops
<1>3. ~crossed => /\ rows[o.char] = o.orig /\ o.sub \in {users[o.user], None}
                  /\ o.orig.user = o.user
                  /\ o.cur.user = o.orig.user /\ o.cur.main = o.orig.main
    BY <1>1, OneAtWork, NoneIsNothing DEF KnowsOf
<1>4. CASE UNCHANGED rows /\ Failed(s, o, TRUE)
    BY <1>1, <1>4, FailedOrder
<1>5. CASE /\ CanSave(o.cur) /\ Save(o, o.cur)
           /\ (o.cur.main /\ o.sub # None /\ Go(s, n)) \/ Go(s, Idle)
  <2> DEFINE m == IF o.cur.main /\ o.sub # None /\ Go(s, n) THEN n ELSE Idle
  <2>1. Go(s, m) /\ (m = Idle \/ (m = n /\ o.cur.main /\ o.sub # None))
    BY <1>5
  <2>2. rows' = Written(o.char, o.orig, o.cur)
    BY <1>5 DEF Save
  <2> HIDE DEF m, n
  <2>3. ASSUME ~crossed, rows' = [rows EXCEPT ![o.char] = o.cur]
        PROVE  InOrder(m, rows', users, astray) /\ (m = Idle \/ KnowsOf(m, rows', users, astray))
    <3>1. rows'[o.char] = o.cur /\ o.cur # None
      BY <1>1, <2>3, NoneIsNothing DEF IInv, TypeOK
    <3>2. \A u \in Users \ astray : \A d \in MainsIn(rows, u) : users[u] = d
      BY <1>1, <2>3, OneAtWork, Strictly
    <3>3. rows[o.char] # None /\ o.cur.user = rows[o.char].user /\ o.cur.main = rows[o.char].main
      BY <1>1, <1>3, <2>3, NoneIsNothing
    <3>4. InOrder(m, rows', users, astray)
      BY <1>1, <2>3, <3>2, <3>3, NoNewMain DEF IInv
    <3>5. ASSUME m = n, o.cur.main, o.sub # None PROVE KnowsOf(n, rows', users, astray)
      <4>1. o.char \in MainsIn(rows', o.user)
        BY <1>1, <1>3, <2>3, <3>1, <3>5 DEF MainsIn
      <4>2. QED
        BY <1>1, <1>2, <1>3, <2>3, <3>1, <3>5, <4>1 DEF KnowsOf, NamedByJob, Refreshing
    <3>6. QED
      BY <2>1, <3>4, <3>5
  <2>4. QED
    BY <1>1, <1>3, <1>5, <2>1, <2>2, <2>3, OrderWrites
<1>6. QED
    BY <1>4, <1>5 DEF SaveRefresh, End

LEMMA MarkInvalidOrder ==
    ASSUME IInv, OrderInv, NEW s \in Slots, MarkInvalid(s)
    PROVE  OrderInv'
PROOF
<1> DEFINE o == ops[s]
           n(b) == [o EXCEPT !.at = "exchange", !.tries = @ + 1, !.cur = Marked(o.cur, b)]
<1>1. /\ o # Idle /\ o.at = "mark" /\ o \in Ops /\ o.char \in Chars /\ o.user \in Users
      /\ o.orig \in Row /\ o.cur \in Row /\ Refreshing(o)
      /\ UNCHANGED <<users, astray, crossed>>
    BY AtWork DEF MarkInvalid, At, Filled, HasRow, Refreshing
<1>2. ASSUME NEW b \in BOOLEAN
      PROVE  /\ Marked(o.cur, b) \in Row /\ Marked(o.cur, b).id = o.cur.id
             /\ Marked(o.cur, b).user = o.cur.user /\ Marked(o.cur, b).main = o.cur.main
    BY <1>1 DEF Marked, Row
<1>3. ASSUME NEW b
      PROVE  /\ n(b).at = "exchange" /\ n(b).do = o.do /\ n(b).char = o.char /\ n(b).user = o.user
             /\ n(b).orig = o.orig /\ n(b).cur = Marked(o.cur, b) /\ n(b).sub = o.sub
    BY <1>1 DEF Ops
<1>4. ~crossed => /\ KnowsOf(o, rows, users, astray) /\ rows[o.char] = o.orig
                  /\ o.cur.user = o.orig.user /\ o.cur.main = o.orig.main
    BY <1>1, OneAtWork, NoneIsNothing DEF KnowsOf
<1> HIDE DEF n
<1>5. ASSUME NEW b \in BOOLEAN, CanSave(o.cur), Save(o, Marked(o.cur, b)), Go(s, Idle)
      PROVE  OrderInv'
  <2>1. rows' = Written(o.char, o.orig, Marked(o.cur, b))
    BY <1>5 DEF Save
  <2>2. CanSave(Marked(o.cur, b))
    BY <1>2, <1>5 DEF CanSave
  <2> DEFINE cur == Marked(o.cur, b)
  <2>3. cur \in Row /\ cur.user = o.cur.user /\ cur.main = o.cur.main
    BY <1>2
  <2>4. CanSave(cur) /\ rows' = Written(o.char, o.orig, cur)
    BY <2>1, <2>2
  <2> HIDE DEF cur
  <2>5. ~crossed => rows[o.char] = o.orig /\ cur.user = o.orig.user /\ cur.main = o.orig.main
    BY <1>4, <2>3
  <2>6. ops[s] # Idle /\ ops[s].at # "name" /\ Go(s, Idle)
    BY <1>1, <1>5
  <2> HIDE DEF o
  <2>7. QED
    BY <1>1, <2>3, <2>4, <2>5, <2>6, OrderKeeps
<1>6. ASSUME NEW b \in BOOLEAN, UNCHANGED rows, Go(s, n(b))
      PROVE  OrderInv'
  <2>1. Refreshing(n(b))
    BY <1>1, <1>3 DEF Refreshing
  <2>2. ~crossed => KnowsOf(n(b), rows, users, astray)
    BY <1>1, <1>2, <1>3, <1>4, <2>1, RefreshKnows
  <2>3. QED
    BY <1>1, <1>6, <2>2, OrderGoesOnAlone
<1>7. CASE UNCHANGED rows /\ Go(s, Idle)
    BY <1>1, <1>7, OrderEnds
<1>8. (o.char \in allowed) \in BOOLEAN /\ o.cur.aff \in BOOLEAN
    BY <1>1 DEF Row
<1>9. \/ \E b \in BOOLEAN : CanSave(o.cur) /\ Save(o, Marked(o.cur, b)) /\ Go(s, Idle)
      \/ UNCHANGED rows /\ \E b \in BOOLEAN : Go(s, n(b))
      \/ UNCHANGED rows /\ Go(s, Idle)
    BY <1>8, Zenon DEF MarkInvalid, End, n
<1>10. QED
    BY <1>5, <1>6, <1>7, <1>9

LEMMA DeleteRowOrder ==
    ASSUME IInv, OrderInv, NEW s \in Slots, DeleteRow(s)
    PROVE  OrderInv'
PROOF
<1> DEFINE o == ops[s]
           n == [o EXCEPT !.at = "close"]
           m == IF o.orig.main THEN n ELSE Idle
<1>1. /\ o # Idle /\ o.at = "delete" /\ o \in Ops /\ o.char \in Chars
      /\ UNCHANGED <<users, astray, crossed>>
    BY AtWork DEF DeleteRow, At, Filled, history
<1>2. n.at = "close"
    BY <1>1 DEF Ops
<1>3. Go(s, m)
    BY DEF DeleteRow, End
<1>4. m = Idle \/ m = n
    OBVIOUS
<1> HIDE DEF m, n
<1>5. \A R : m = Idle \/ KnowsOf(m, R, users, astray)
    BY <1>2, <1>4 DEF KnowsOf, NamedByJob, Refreshing
<1>6. CASE UNCHANGED rows
    BY <1>1, <1>3, <1>5, <1>6, OrderGoesOnAlone
<1>7. CASE rows' = [rows EXCEPT ![o.char] = None]
  <2>1. rows'[o.char] = None /\ \A d \in Chars \ {o.char} : rows'[d] = rows[d]
    BY <1>1, <1>7 DEF IInv, TypeOK
  <2>2. Exist(rows', users') /\ Differ(users')
    BY <1>1, <2>1, TableStays DEF Exist
  <2>3. ASSUME ~crossed PROVE InOrder(m, rows', users, astray)
    <3>1. \A u \in Users \ astray : \A d \in MainsIn(rows, u) : users[u] = d
      BY <1>1, <2>3, OneAtWork, Strictly
    <3>2. QED
      BY <1>1, <1>7, <3>1, NoNewMain DEF IInv
  <2>4. QED
    BY <1>1, <1>3, <1>5, <2>2, <2>3, OneAtWork, OrderGoesOn
<1>8. QED
    BY <1>6, <1>7 DEF DeleteRow

LEMMA SaveListedOrder ==
    ASSUME IInv, OrderInv, NEW s \in Slots, SaveListed(s)
    PROVE  OrderInv'
PROOF
<1> DEFINE o == ops[s]
           rest(c) == [d \in DOMAIN o.list \ {c} |-> o.list[d]]
           n(c) == [o EXCEPT !.list = rest(c)]
           cur(c) == IF o.do = "crown" THEN [o.list[c] EXCEPT !.main = c = o.main]
                     ELSE [o.list[c] EXCEPT !.user = o.main, !.main = FALSE]
<1>1. /\ o # Idle /\ o.at = "rows" /\ o \in Ops /\ Filled(o)
      /\ UNCHANGED <<users, astray, crossed>>
    BY AtWork DEF SaveListed, At, history
<1>2. o.list \in Lists
    BY <1>1 DEF Ops
<1>3. PICK c \in DOMAIN o.list :
        \/ CanSave(cur(c)) /\ rows' = Written(c, o.list[c], cur(c)) /\ Go(s, n(c))
        \/ UNCHANGED rows /\ (Go(s, n(c)) \/ Go(s, Idle))
    BY Zenon DEF SaveListed, End
<1>4. c \in Chars /\ o.list[c] \in Row /\ DOMAIN o.list \subseteq Chars
    BY <1>2, <1>3, Listed
<1>5. /\ n(c).at = "rows" /\ n(c).do = o.do /\ n(c).user = o.user /\ n(c).list = rest(c)
    BY <1>1 DEF Ops
<1>6. DOMAIN rest(c) = DOMAIN o.list \ {c} /\ \A d \in DOMAIN rest(c) : rest(c)[d] = o.list[d]
    OBVIOUS
<1>7. /\ cur(c) \in Row
      /\ IF o.do = "crown" THEN cur(c).user = o.list[c].user ELSE ~cur(c).main
  <2>1. CASE o.do = "crown"
    <3>1. ASSUME NEW b \in BOOLEAN
          PROVE  LET r == [o.list[c] EXCEPT !.main = b]
                 IN  r \in Row /\ r.user = o.list[c].user
      BY <1>4 DEF Row
    <3>2. (c = o.main) \in BOOLEAN
      OBVIOUS
    <3>3. QED
      BY <2>1, <3>1, <3>2, Zenon
  <2>2. CASE o.do # "crown"
    <3>1. o.main \in Users
      BY <1>1, <2>2 DEF Filled
    <3>2. QED
      BY <1>4, <2>2, <3>1 DEF Row
  <2>3. QED
    BY <2>1, <2>2
<1> HIDE DEF n, rest, cur
<1>8. ~crossed => /\ \A d \in DOMAIN o.list : o.list[d] = rows[d]
                  /\ o.do = "crown" => o.user \in astray
                                       /\ \A d \in DOMAIN o.list : o.list[d].user = o.user
    BY <1>1, OneAtWork DEF KnowsOf
<1>9. ASSUME NEW R, ~crossed, \A d \in Chars \ {c} : R[d] = rows[d]
      PROVE  KnowsOf(n(c), R, users, astray)
  <2>1. \A d \in DOMAIN n(c).list : d \in DOMAIN o.list /\ n(c).list[d] = o.list[d] /\ R[d] = rows[d]
    BY <1>4, <1>5, <1>6, <1>9
  <2>2. QED
    BY <1>5, <1>8, <1>9, <2>1 DEF KnowsOf, NamedByJob, Refreshing
<1>10. CASE CanSave(cur(c)) /\ rows' = Written(c, o.list[c], cur(c)) /\ Go(s, n(c))
  <2>1. ~crossed => ~cur(c).main \/ cur(c).user \in astray
    BY <1>3, <1>7, <1>8
  <2>2. ASSUME ~crossed, rows' = [rows EXCEPT ![c] = cur(c)]
        PROVE  KnowsOf(n(c), rows', users, astray)
    <3>1. \A d \in Chars \ {c} : rows'[d] = rows[d]
      BY <1>4, <2>2 DEF IInv, TypeOK
    <3>2. QED
      BY <1>9, <2>2, <3>1
  <2>3. QED
    BY <1>1, <1>3, <1>4, <1>7, <1>8, <1>10, <2>1, <2>2, OrderKeeps
<1>11. CASE UNCHANGED rows /\ (Go(s, n(c)) \/ Go(s, Idle))
  <2>1. ~crossed => KnowsOf(n(c), rows, users, astray)
    BY <1>9
  <2>2. QED
    BY <1>1, <1>11, <2>1, OrderGoesOnAlone
<1>12. QED
    BY <1>3, <1>10, <1>11

\* A revocation keeps owners and mains; it tells the others at work that it came.
LEMMA ClearTokensOrder ==
    ASSUME IInv, OrderInv, NEW s \in Slots, ClearTokens(s)
    PROVE  OrderInv'
PROOF
<1> DEFINE o == ops[s]
           cur == Cleared(o.orig)
<1>1. /\ o # Idle /\ o.at = "clear" /\ o \in Ops /\ o.char \in Chars /\ o.orig \in Row
      /\ UNCHANGED <<users, astray, crossed>>
    BY AtWork DEF ClearTokens, At, Filled, HasRow
<1>2. cur \in Row /\ cur.user = o.orig.user /\ cur.main = o.orig.main
    BY <1>1 DEF Cleared, Row
<1>3. CASE UNCHANGED rows /\ Go(s, Idle)
    BY <1>1, <1>3, OrderEnds
<1>4. CASE CanSave(cur) /\ rows' = Written(o.char, o.orig, cur)
           /\ ops' = [z \in Slots |->
                        IF z = s THEN Idle
                        ELSE IF ops[z] # Idle /\ ops[z].char = o.char
                        THEN [ops[z] EXCEPT !.late = TRUE] ELSE ops[z]]
  <2> HIDE DEF cur
  <2>1. CASE ~crossed
    <3>1. rows[o.char] = o.orig /\ \A z \in Slots \ {s} : ops[z] = Idle
      BY <1>1, <2>1, OneAtWork, NoneIsNothing DEF KnowsOf
    <3>2. \A z \in Slots : ops'[z] = IF z = s THEN Idle ELSE ops[z]
      BY <1>4, <3>1
    <3>3. Go(s, Idle)
      BY <1>4, <3>2 DEF Go, IInv, TypeOK
    <3>4. QED
      BY <1>1, <1>2, <1>4, <3>1, <3>3, OrderKeeps
  <2>2. CASE crossed
    <3>1. Exist(rows', users') /\ Differ(users')
      BY <1>1, <1>2, <1>4, TableStays, WrittenOwned DEF IInv
    <3>2. QED
      BY <1>1, <2>2, <3>1 DEF OrderInv, AccountsExist, NamesDiffer, Exist, Differ
  <2>3. QED
    BY <2>1, <2>2
<1>5. QED
    BY <1>3, <1>4 DEF ClearTokens, End

\* A handler that is given up before it names an account leaves what it found; at the
\* naming the account becomes astray, unless it had the name.
LEMMA GiveUpOrder ==
    ASSUME IInv, OrderInv, NEW s \in Slots, GiveUp(s)
    PROVE  OrderInv'
PROOF
<1> DEFINE o == ops[s]
<1>1. o # Idle /\ Go(s, Idle) /\ UNCHANGED <<rows, users, crossed>>
      /\ astray' = IF o.at = "name" /\ o.sub # o.main THEN Astray(o.user) ELSE astray
    BY DEF GiveUp, End
<1>2. CASE o.at # "name"
    BY <1>1, <1>2, OrderEnds
<1>3. CASE o.at = "name"
  <2>1. Exist(rows', users') /\ Differ(users')
    BY <1>1, TableStays
  <2>2. ASSUME ~crossed
        PROVE  (\A z \in Slots \ {s} : ops[z] = Idle) /\ InOrder(Idle, rows', users', astray')
    <3>1. /\ \A z \in Slots \ {s} : ops[z] = Idle
          /\ InOrder(o, rows, users, astray) /\ KnowsOf(o, rows, users, astray)
      BY <1>1, <2>2, OneAtWork
    <3>2. astray \subseteq astray' /\ (o.sub = o.main \/ o.user \in astray')
      BY <1>1, <1>3, <2>2 DEF Astray
    <3>3. QED
      BY <1>1, <1>3, <3>1, <3>2, NamingFails
  <2>3. QED
    BY <1>1, <2>1, <2>2, OrderGoesOn
<1>4. QED
    BY <1>2, <1>3

LEMMA SameOrder ==
    ASSUME OrderInv, UNCHANGED <<users, rows, ops, crossed, astray>>
    PROVE  OrderInv'
PROOF
<1>1. \A u : MainsOf(u)' = MainsOf(u)
    BY DEF MainsOf, Owned
<1>2. AccountsExist' /\ NamesDiffer'
    BY DEF OrderInv, AccountsExist, NamesDiffer
<1>3. ASSUME ~crossed'
      PROVE  /\ \A s, z \in Slots : ops'[s] # Idle /\ ops'[z] # Idle => s = z
             /\ \A u \in Users \ astray' : \A c \in MainsOf(u)' :
                  users'[u] = c \/ \E s \in Slots : ops'[s] # Idle /\ Naming(ops[s], u, c)'
             /\ \A s \in Slots : ops'[s] # Idle => Knows(ops[s])'
  <2>1. \A s, z \in Slots : ops'[s] # Idle /\ ops'[z] # Idle => s = z
    BY <1>3 DEF OrderInv
  <2>2. ASSUME NEW u \in Users \ astray', NEW c \in MainsOf(u)'
        PROVE  users'[u] = c \/ \E s \in Slots : ops'[s] # Idle /\ Naming(ops[s], u, c)'
    BY <1>1, <1>3, <2>2 DEF OrderInv, Naming
  <2>3. ASSUME NEW s \in Slots, ops'[s] # Idle PROVE Knows(ops[s])'
    <3>1. Knows(ops[s])
      BY <1>3, <2>3 DEF OrderInv
    <3>2. QED
      BY <1>1, <3>1 DEF Knows, NamedByJob, Refreshing
  <2>4. QED
    BY <2>1, <2>2, <2>3
<1>4. QED
    BY <1>2, <1>3 DEF OrderInv

-----------------------------------------------------------------------------
(* Every step.                                                             *)

LEMMA InitOrder == Init => OrderInv
PROOF
<1> SUFFICES ASSUME Init PROVE OrderInv
    OBVIOUS
<1>1. ASSUME NEW u \in Users, Owned(u) # {}
      PROVE  users[u] \in Chars /\ MainsOf(u) = {users[u]}
  <2>1. PICK c \in Chars : MainsOf(u) = {c}
    BY <1>1 DEF Init
  <2>2. (CHOOSE d \in MainsOf(u) : TRUE) = c
    BY <2>1
  <2>3. users[u] = CHOOSE d \in MainsOf(u) : TRUE
    BY <1>1 DEF Init
  <2>4. QED
    BY <2>1, <2>2, <2>3
<1>2. ASSUME NEW u \in Users, Owned(u) = {} PROVE users[u] = None /\ MainsOf(u) = {}
    BY <1>2 DEF Init, MainsOf
<1>3. AccountsExist
  <2> SUFFICES ASSUME NEW c \in Chars, rows[c] # None PROVE users[rows[c].user] # None
    BY DEF AccountsExist
  <2>1. rows[c].user \in Users
    BY DEF Init
  <2>2. c \in Owned(rows[c].user)
    BY DEF Owned
  <2>3. QED
    BY <1>1, <2>1, <2>2, AccountsAssumption
<1>4. NamesDiffer
  <2> SUFFICES ASSUME NEW u \in Users, NEW v \in Users, users[u] # None, users[u] = users[v]
               PROVE  u = v
    BY DEF NamesDiffer
  <2>1. users[u] \in MainsOf(u) /\ users[u] \in MainsOf(v)
    BY <1>1, <1>2
  <2>2. QED
    BY <2>1 DEF MainsOf, Owned
<1>5. \A s \in Slots : ops[s] = Idle
    BY DEF Init
<1>6. \A u \in Users : \A c \in MainsOf(u) : users[u] = c
    BY <1>1, <1>2
<1>7. QED
    BY <1>3, <1>4, <1>5, <1>6 DEF OrderInv

LEMMA StepOrder == IInv /\ OrderInv /\ [Next]_vars => OrderInv'
PROOF
<1> SUFFICES ASSUME IInv, OrderInv, [Next]_vars PROVE OrderInv'
    OBVIOUS
<1>1. ASSUME NEW s \in Slots, Start(s) PROVE OrderInv'
    BY <1>1, StartOrder
<1>2. ASSUME NEW s \in Slots, Continue(s) PROVE OrderInv'
    BY <1>2, AffiliationOrder, FindAccountOrder, InsertMainOrder, UpsertRowOrder,
       EnsureMainOrder, RefreshMainAffiliationOrder, NameAccountOrder, CheckLinkOrder,
       StoreLinkOrder, ExchangeTokenOrder, ResolveRefreshOrder, SaveRefreshOrder,
       MarkInvalidOrder, DeleteRowOrder, CloseAccountOrder, SaveListedOrder,
       ListSavedOrder, ClearTokensOrder, GiveUpOrder DEF Continue
<1>3. ASSUME NEW u \in Users, SweepUploads(u) PROVE OrderInv'
    BY <1>3, SameOrder DEF SweepUploads, history
<1>4. CASE UNCHANGED vars
    BY <1>4, SameOrder DEF vars
<1>5. QED
    BY <1>1, <1>2, <1>3, <1>4 DEF Next

\* While handlers do not overlap, every account has one main at most and is named after
\* it, whatever logs in, links, refreshes, moves, merges, crowns, removes, fails and stops,
\* but for the accounts whose main an administrator chose, those whose naming failed or
\* was refused after the main's row had been saved, and those whose main a failed lookup
\* took for missing when a character was made main.
THEOREM AccountsStayInOrder == Spec => []AccountsAreInOrder
PROOF
<1>1. ASSUME OrderInv, Quiet, ~crossed, NEW u \in Users \ astray
      PROVE  Cardinality(MainsOf(u)) <= 1 /\ \A c \in MainsOf(u) : users[u] = c
  <2>1. \A c \in MainsOf(u) : users[u] = c
    BY <1>1 DEF OrderInv, Quiet
  <2>2. CASE MainsOf(u) = {}
    BY <2>2, FS_EmptySet
  <2>3. CASE MainsOf(u) # {}
    <3>1. MainsOf(u) = {users[u]}
      BY <2>1, <2>3
    <3>2. \A x : Cardinality({x}) = 1
      BY FS_Singleton
    <3>3. Cardinality(MainsOf(u)) = 1
      BY <3>1, <3>2
    <3>4. QED
      BY <2>1, <3>3
  <2>4. QED
    BY <2>1, <2>2, <2>3
<1>2. OrderInv => AccountsAreInOrder
    BY <1>1 DEF AccountsAreInOrder
<1>3. QED
    BY <1>2, InitOrder, StepOrder, Invariant, PTL DEF Spec
=============================================================================
