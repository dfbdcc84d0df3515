------------------------- MODULE IntelReports_proofs ------------------------
(***************************************************************************)
(* The invariants of the two modules on the intel service, proved for any  *)
(* numbers and times: first those of IntelReports, for any submissions,    *)
(* slots and window (a submission turned away as a duplicate loses         *)
(* nothing, and a second row of one window has one of two causes), then    *)
(* those of UploaderAccess, for any requests and sessions.                 *)
(*                                                                         *)
(* The invariant of UploaderAccess has five parts, each kept by every      *)
(* step: types; that every token no longer valid went through some         *)
(* request's loop; that a new token is younger than all its request        *)
(* loaded; that swept tokens are dead; and that nothing is being made      *)
(* while an undisturbed revocation is the last word.                       *)
(***************************************************************************)
EXTENDS IntelReports, UploaderAccess, TLAPS

-----------------------------------------------------------------------------
(* IntelReports *)

\* The comparison of ShouldCreateReport is the window of the properties.
LEMMA SameReportIsNear ==
    ASSUME TypeOK, NEW x \in Submissions, NEW q \in Submissions
    PROVE  SameReport(x, q) <=> Near(x, q)
<1>1. time[x] \in Int /\ time[q] \in Int
  BY DEF TypeOK
<1>2. Fuzz \in Int
  BY IntelReportsAssumption
<1> QED
  BY <1>1, <1>2, SMT DEF SameReport, Near, Distance

LEMMA NearIsSymmetric ==
    ASSUME NEW x \in Submissions, NEW q \in Submissions
    PROVE  Near(x, q) <=> Near(q, x)
  BY DEF Near

LEMMA TypeInit == Init => TypeOK
<1> SUFFICES ASSUME Init PROVE TypeOK
  OBVIOUS
<1>1. 1 \in Slots
  BY IntelReportsAssumption DEF Slots
<1>2. time \in [Submissions -> Int]
  BY IntelReportsAssumption DEF Init
<1> QED
  BY <1>1, <1>2 DEF Init, TypeOK, PCs, Answers

LEMMA TypeStep == TypeOK /\ [Next]_vars => TypeOK'
<1> SUFFICES ASSUME TypeOK, [Next]_vars PROVE TypeOK'
  OBVIOUS
<1> USE DEF TypeOK, PCs, Answers, Answer, Leave
<1>0. 1 \in Slots
  BY IntelReportsAssumption DEF Slots
<1>1. ASSUME NEW q \in Submissions, Submit(q) PROVE TypeOK'
  BY <1>1, IntelReportsAssumption DEF Submit, table, reports
<1>2. ASSUME NEW q \in Submissions, LookUp(q) PROVE TypeOK'
  <2>1. cursor' \in [Submissions -> Slots]
    BY <1>0, <1>2, IntelReportsAssumption DEF LookUp, Occupied, Slots
  <2>2. pc' \in [Submissions -> PCs] /\ answer' \in [Submissions -> Answers]
    BY <1>2 DEF LookUp, Occupied
  <2> QED
    BY <1>2, <2>1, <2>2 DEF LookUp, table, reports
<1>3. ASSUME NEW q \in Submissions, Claim(q) PROVE TypeOK'
  BY <1>0, <1>3 DEF Claim, table, reports
<1>4. ASSUME NEW q \in Submissions, Create(q) PROVE TypeOK'
  BY <1>4 DEF Create, table
<1>5. ASSUME NEW x \in Submissions, Expire(x) \/ RemoveExpired(x) \/ RemoveOldReport(x)
      PROVE  TypeOK'
  BY <1>5 DEF Expire, RemoveExpired, RemoveOldReport, request, table, reports
<1>6. ASSUME UNCHANGED vars PROVE TypeOK'
  BY <1>6 DEF vars, request, table, reports
<1> QED
  BY <1>1, <1>2, <1>3, <1>4, <1>5, <1>6 DEF Next, Handle

-----------------------------------------------------------------------------
(* The three things a step can do to the table *)

\* A claim stores one row, and notes the slot if another row is in it.
RowStored(q) ==
    /\ pc[q] = "claim"
    /\ rows' = rows \cup {q}
    /\ slotOf' = [slotOf EXCEPT ![q] = cursor[q]]
    /\ shared' = IF RowsAt(cursor[q]) = {} THEN shared ELSE shared \cup {cursor[q]}
    /\ freed' = freed
    /\ pc' = [pc EXCEPT ![q] = "create"]
    /\ Leave(q)
    /\ UNCHANGED <<answer, time, saw, reports>>

\* The cleanup removes one, and notes its slot.
RowRemoved(x) ==
    /\ x \in rows
    /\ rows' = rows \ {x}
    /\ freed' = freed \cup {slotOf[x]}
    /\ UNCHANGED <<slotOf, shared, request, reports>>

SameTable == UNCHANGED <<rows, slotOf, shared, freed>>

LEMMA TableSteps ==
    ASSUME [Next]_vars
    PROVE  \/ \E q \in Submissions : RowStored(q)
           \/ \E x \in Submissions : RowRemoved(x)
           \/ SameTable
<1>1. ASSUME NEW q \in Submissions, Handle(q) PROVE RowStored(q) \/ SameTable
  BY <1>1 DEF Handle, Submit, LookUp, Claim, Create, RowStored, SameTable, table
<1>2. ASSUME NEW x \in Submissions, Expire(x) \/ RemoveExpired(x) \/ RemoveOldReport(x)
      PROVE  RowRemoved(x) \/ SameTable
  BY <1>2 DEF Expire, RemoveExpired, RemoveOldReport, RowRemoved, SameTable, table
<1>3. ASSUME UNCHANGED vars PROVE SameTable
  BY <1>3 DEF vars, table, SameTable
<1> QED
  BY <1>1, <1>2, <1>3 DEF Next

-----------------------------------------------------------------------------
(* Every conjunct of the invariant is kept by every step *)

LEMMA ClaimedStep ==
    ASSUME IInv, [Next]_vars
    PROVE  Claimed'
<1> USE DEF IInv, TypeOK, Claimed, Answer, Leave
<1>1. ASSUME NEW q \in Submissions, Submit(q) PROVE Claimed'
  BY <1>1 DEF Submit, table, reports
<1>2. ASSUME NEW q \in Submissions, LookUp(q) PROVE Claimed'
  BY <1>2 DEF LookUp, Occupied, table, reports
<1>3. ASSUME NEW q \in Submissions, Claim(q) PROVE Claimed'
  BY <1>3 DEF Claim, table, reports
<1>4. ASSUME NEW q \in Submissions, Create(q) PROVE Claimed'
  BY <1>4 DEF Create, table
<1>5. ASSUME NEW x \in Submissions, Expire(x) \/ RemoveExpired(x) \/ RemoveOldReport(x)
      PROVE  Claimed'
  BY <1>5 DEF Expire, RemoveExpired, RemoveOldReport, request, table, reports
<1>6. ASSUME UNCHANGED vars PROVE Claimed'
  BY <1>6 DEF vars, request, table, reports
<1> QED
  BY <1>1, <1>2, <1>3, <1>4, <1>5, <1>6 DEF Next, Handle

LEMMA SlottedStep ==
    ASSUME IInv, [Next]_vars
    PROVE  Slotted'
<1> USE DEF IInv, TypeOK, Slotted, RowsAt
<1>1. ASSUME NEW q \in Submissions, RowStored(q) PROVE Slotted'
  <2>1. q \notin rows
    BY <1>1 DEF RowStored, Claimed
  <2>2. ASSUME NEW x \in rows', NEW y \in rows', x # y, slotOf'[x] = slotOf'[y]
        PROVE  slotOf'[x] \in shared'
    BY <1>1, <2>1, <2>2 DEF RowStored
  <2>3. ASSUME NEW x \in rows', NEW j \in Slots, j < slotOf'[x]
        PROVE  (\E z \in rows' : slotOf'[z] = j) \/ j \in freed'
    <3>1. CASE x = q
      BY <1>1, <2>1, <2>3, <3>1 DEF RowStored, Passed
    <3>2. CASE x # q
      BY <1>1, <2>1, <2>3, <3>2 DEF RowStored
    <3> QED
      BY <3>1, <3>2
  <2> QED
    BY <2>2, <2>3
<1>2. ASSUME NEW x \in Submissions, RowRemoved(x) PROVE Slotted'
  BY <1>2 DEF RowRemoved
<1>3. ASSUME SameTable PROVE Slotted'
  BY <1>3 DEF SameTable
<1> QED
  BY <1>1, <1>2, <1>3, TableSteps

LEMMA RejectedStep ==
    ASSUME IInv, [Next]_vars
    PROVE  RejectedReportIsHeld'
<1> USE DEF IInv, TypeOK, RejectedReportIsHeld, Answer, Near
<1>1. ASSUME NEW q \in Submissions, Submit(q) PROVE RejectedReportIsHeld'
  BY <1>1 DEF Submit, table, reports, Claimed
<1>2. ASSUME NEW q \in Submissions, LookUp(q) PROVE RejectedReportIsHeld'
  BY <1>2, SameReportIsNear DEF LookUp, Occupied, RowsAt, table, reports, Claimed
<1>3. ASSUME NEW q \in Submissions, Claim(q) PROVE RejectedReportIsHeld'
  BY <1>3 DEF Claim, table, reports
<1>4. ASSUME NEW q \in Submissions, Create(q) PROVE RejectedReportIsHeld'
  BY <1>4 DEF Create, table
<1>5. ASSUME NEW x \in Submissions, Expire(x) \/ RemoveExpired(x) \/ RemoveOldReport(x)
      PROVE  RejectedReportIsHeld'
  BY <1>5 DEF Expire, RemoveExpired, RemoveOldReport, request, table, reports
<1>6. ASSUME UNCHANGED vars PROVE RejectedReportIsHeld'
  BY <1>6 DEF vars, request, table, reports
<1> QED
  BY <1>1, <1>2, <1>3, <1>4, <1>5, <1>6 DEF Next, Handle

LEMMA TwinsStep ==
    ASSUME IInv, [Next]_vars
    PROVE  NearTwinsHaveACause'
<1> USE DEF IInv, TypeOK, NearTwinsHaveACause
<1>1. ASSUME NEW q \in Submissions, RowStored(q) PROVE NearTwinsHaveACause'
  <2>1. q \notin rows /\ cursor[q] \in Slots
    BY <1>1 DEF RowStored, Claimed
  <2>2. \A x \in Submissions : x # q => slotOf'[x] = slotOf[x]
    BY <1>1 DEF RowStored
  <2>3. slotOf'[q] = cursor[q] /\ time' = time /\ saw' = saw
        /\ shared \subseteq shared' /\ freed' = freed /\ rows' = rows \cup {q}
    BY <1>1 DEF RowStored
  <2>4. \A x \in Submissions : q \notin saw[x]
    BY <1>1 DEF RowStored, Claimed
  <2> SUFFICES ASSUME NEW x \in rows', NEW y \in rows', x \in saw'[y]
               PROVE  /\ slotOf'[x] # slotOf'[y]
                      /\ Near(x, y)' =>
                            \/ slotOf'[y] < slotOf'[x] /\ slotOf'[y] \in freed'
                            \/ slotOf'[x] < slotOf'[y] /\ slotOf'[x] \in shared'
    OBVIOUS
  <2>5. x # q /\ x \in rows
    BY <2>3, <2>4
  <2>6. Near(x, y)' <=> Near(x, y)
    BY <2>3 DEF Near
  <2>7. CASE y = q
    <3>1. x \in rows \cap saw[q]
      BY <2>3, <2>5, <2>7
    <3>2. slotOf[x] # cursor[q] /\ (slotOf[x] > cursor[q] => cursor[q] \in freed)
      BY <1>1, <3>1 DEF RowStored, Found
    <3>3. slotOf[x] < cursor[q] /\ Near(x, q) => slotOf[x] \in shared
      BY <1>1, <3>1 DEF RowStored, Passed
    <3>4. slotOf[x] \in Int /\ cursor[q] \in Int
      BY <2>1, <2>5, IntelReportsAssumption DEF Slots
    <3> QED
      BY <2>2, <2>3, <2>5, <2>6, <2>7, <3>2, <3>3, <3>4
  <2>8. CASE y # q
    BY <2>2, <2>3, <2>5, <2>6, <2>8
  <2> QED
    BY <2>7, <2>8
<1>2. ASSUME NEW x \in Submissions, RowRemoved(x) PROVE NearTwinsHaveACause'
  BY <1>2 DEF RowRemoved, Near, request
<1>3. ASSUME SameTable PROVE NearTwinsHaveACause'
  <2>1. ASSUME NEW y \in rows PROVE saw'[y] = saw[y] /\ time'[y] = time[y]
    BY <2>1 DEF Next, Handle, Submit, LookUp, Claim, Create, Expire, RemoveExpired,
               RemoveOldReport, vars, request, Claimed
  <2> QED
    BY <1>3, <2>1 DEF SameTable, Near
<1> QED
  BY <1>1, <1>2, <1>3, TableSteps

LEMMA PassedStep ==
    ASSUME IInv, [Next]_vars
    PROVE  Passed'
<1> USE DEF IInv, TypeOK, RowsAt
<1>1. ASSUME NEW q \in Submissions, Submit(q) PROVE Passed'
  BY <1>1, IntelReportsAssumption DEF Submit, table, reports, Passed, Near, Claimed, Slots
<1>2. ASSUME NEW q \in Submissions, LookUp(q) PROVE Passed'
  <2>1. pc[q] = "scan" /\ UNCHANGED <<time, saw, table, reports>>
    BY <1>2 DEF LookUp
  <2>2. cursor[q] \in Int
    BY IntelReportsAssumption DEF Slots
  <2>3. \A p \in Submissions : p # q => pc'[p] = pc[p] /\ cursor'[p] = cursor[p]
    BY <1>2 DEF LookUp, Occupied, Answer, Leave
  <2>4. \/ pc'[q] = "done"
        \/ cursor'[q] = cursor[q] /\ RowsAt(cursor[q]) = {}
        \/ /\ cursor'[q] = cursor[q] + 1
           /\ \E z \in RowsAt(cursor[q]) : ~Near(z, q)
    BY <1>2, SameReportIsNear DEF LookUp, Occupied, Answer, Leave
  <2>5. ASSUME NEW j \in Slots, j < cursor'[q], pc'[q] \in {"scan", "claim"}
        PROVE  (\E z \in rows : slotOf[z] = j) \/ j \in freed
    <3>1. j \in Int
      BY IntelReportsAssumption DEF Slots
    <3>2. CASE j < cursor[q]
      BY <2>1, <3>2 DEF Passed
    <3>3. CASE ~(j < cursor[q])
      <4>1. j = cursor[q] /\ \E z \in RowsAt(cursor[q]) : ~Near(z, q)
        BY <2>2, <2>4, <2>5, <3>1, <3>3
      <4> QED
        BY <4>1
    <3> QED
      BY <3>2, <3>3
  <2>6. ASSUME NEW x \in rows \cap saw[q], pc'[q] \in {"scan", "claim"},
               slotOf[x] < cursor'[q], Near(x, q)
        PROVE  slotOf[x] \in shared
    <3>1. slotOf[x] \in Int
      BY IntelReportsAssumption DEF Slots
    <3>2. CASE slotOf[x] < cursor[q]
      BY <2>1, <2>6, <3>2 DEF Passed
    <3>3. CASE ~(slotOf[x] < cursor[q])
      <4>1. slotOf[x] = cursor[q] /\ \E z \in RowsAt(cursor[q]) : ~Near(z, q)
        BY <2>2, <2>4, <2>6, <3>1, <3>3
      <4> QED
        BY <2>6, <4>1 DEF Slotted
    <3> QED
      BY <3>2, <3>3
  <2>7. \A x, p \in Submissions : Near(x, p)' <=> Near(x, p)
    BY <2>1 DEF Near
  <2> SUFFICES ASSUME NEW p \in Submissions, pc'[p] \in {"scan", "claim"}
               PROVE  /\ \A j \in Slots : j < cursor'[p] =>
                              (\E z \in rows : slotOf[z] = j) \/ j \in freed
                      /\ \A x \in rows \cap saw[p] :
                            slotOf[x] < cursor'[p] /\ Near(x, p) => slotOf[x] \in shared
    BY <2>1, <2>7 DEF Passed, table
  <2>8. CASE p = q
    BY <2>5, <2>6, <2>8
  <2>9. CASE p # q
    BY <2>3, <2>9 DEF Passed
  <2> QED
    BY <2>8, <2>9
<1>3. ASSUME NEW q \in Submissions, RowStored(q) PROVE Passed'
  <2>1. q \notin rows /\ \A p \in Submissions : q \notin saw[p]
    BY <1>3 DEF RowStored, Claimed
  <2>2. /\ pc'[q] = "create" /\ rows' = rows \cup {q} /\ time' = time /\ saw' = saw
        /\ shared \subseteq shared' /\ freed' = freed
        /\ \A p \in Submissions : p # q => /\ pc'[p] = pc[p] /\ cursor'[p] = cursor[p]
                                           /\ slotOf'[p] = slotOf[p]
    BY <1>3 DEF RowStored, Leave
  <2>3. \A x, p \in Submissions : Near(x, p)' <=> Near(x, p)
    BY <2>2 DEF Near
  <2> QED
    BY <2>1, <2>2, <2>3 DEF Passed
<1>4. ASSUME NEW x \in Submissions, RowRemoved(x) PROVE Passed'
  <2>1. /\ rows' = rows \ {x} /\ freed' = freed \cup {slotOf[x]}
        /\ UNCHANGED <<slotOf, shared, request, reports>>
    BY <1>4 DEF RowRemoved
  <2>2. \A y, p \in Submissions : Near(y, p)' <=> Near(y, p)
    BY <2>1 DEF Near, request
  <2> QED
    BY <2>1, <2>2 DEF Passed, request
<1>5. ASSUME SameTable, NEW q \in Submissions, Claim(q) \/ Create(q) PROVE Passed'
  <2>1. /\ UNCHANGED <<rows, slotOf, shared, freed, time, saw>>
        /\ pc'[q] \in {"create", "done"}
        /\ \A p \in Submissions : p # q => pc'[p] = pc[p] /\ cursor'[p] = cursor[p]
    BY <1>5 DEF SameTable, Claim, Create, Answer, Leave
  <2>2. \A y, p \in Submissions : Near(y, p)' <=> Near(y, p)
    BY <2>1 DEF Near
  <2> QED
    BY <2>1, <2>2 DEF Passed
<1>6. ASSUME SameTable, UNCHANGED request PROVE Passed'
  BY <1>6 DEF SameTable, request, Passed, Near
<1>7. ASSUME NEW x \in Submissions, Expire(x) \/ RemoveExpired(x) \/ RemoveOldReport(x)
      PROVE  RowRemoved(x) \/ (SameTable /\ UNCHANGED request)
  BY <1>7 DEF Expire, RemoveExpired, RemoveOldReport, RowRemoved, SameTable, table
<1>8. UNCHANGED vars => SameTable /\ UNCHANGED request
  BY DEF vars, table, SameTable
<1>9. ASSUME NEW q \in Submissions, Claim(q) \/ Create(q) PROVE RowStored(q) \/ SameTable
  BY <1>9 DEF Claim, Create, RowStored, SameTable, table
<1> QED
  BY <1>1, <1>2, <1>3, <1>4, <1>5, <1>6, <1>7, <1>8, <1>9 DEF Next, Handle

LEMMA FoundStep ==
    ASSUME IInv, [Next]_vars
    PROVE  Found'
<1> USE DEF IInv, TypeOK, RowsAt
<1>1. ASSUME NEW q \in Submissions, Submit(q) PROVE Found'
  BY <1>1 DEF Submit, table, reports, Found
<1>2. ASSUME NEW q \in Submissions, LookUp(q) PROVE Found'
  <2>1. pc[q] = "scan" /\ UNCHANGED <<time, saw, table, reports>>
    BY <1>2 DEF LookUp
  <2>2. \A p \in Submissions : p # q => pc'[p] = pc[p] /\ cursor'[p] = cursor[p]
    BY <1>2 DEF LookUp, Occupied, Answer, Leave
  <2>3. pc'[q] = "claim" => cursor'[q] = cursor[q] /\ RowsAt(cursor[q]) = {}
    BY <1>2 DEF LookUp, Occupied, Answer, Leave
  <2>4. ASSUME NEW x \in rows, pc'[q] = "claim"
        PROVE  slotOf[x] # cursor[q] /\ (slotOf[x] > cursor[q] => cursor[q] \in freed)
    <3>1. cursor[q] \in Slots /\ slotOf[x] \in Int /\ cursor[q] \in Int
      BY IntelReportsAssumption DEF Slots
    <3> QED
      BY <2>3, <2>4, <3>1 DEF Slotted
  <2> QED
    BY <2>1, <2>2, <2>3, <2>4 DEF Found, table
<1>3. ASSUME NEW q \in Submissions, RowStored(q) PROVE Found'
  <2>1. q \notin rows /\ \A p \in Submissions : q \notin saw[p]
    BY <1>3 DEF RowStored, Claimed
  <2>2. /\ pc'[q] = "create" /\ rows' = rows \cup {q} /\ saw' = saw /\ freed' = freed
        /\ \A p \in Submissions : p # q => /\ pc'[p] = pc[p] /\ cursor'[p] = cursor[p]
                                           /\ slotOf'[p] = slotOf[p]
    BY <1>3 DEF RowStored, Leave
  <2> QED
    BY <2>1, <2>2 DEF Found
<1>4. ASSUME NEW x \in Submissions, RowRemoved(x) PROVE Found'
  BY <1>4 DEF RowRemoved, Found, request
<1>5. ASSUME SameTable, NEW q \in Submissions, Claim(q) \/ Create(q) PROVE Found'
  BY <1>5 DEF SameTable, Claim, Create, Answer, Leave, Found
<1>6. ASSUME SameTable, UNCHANGED request PROVE Found'
  BY <1>6 DEF SameTable, request, Found
<1>7. ASSUME NEW x \in Submissions, Expire(x) \/ RemoveExpired(x) \/ RemoveOldReport(x)
      PROVE  RowRemoved(x) \/ (SameTable /\ UNCHANGED request)
  BY <1>7 DEF Expire, RemoveExpired, RemoveOldReport, RowRemoved, SameTable, table
<1>8. UNCHANGED vars => SameTable /\ UNCHANGED request
  BY DEF vars, table, SameTable
<1>9. ASSUME NEW q \in Submissions, Claim(q) \/ Create(q) PROVE RowStored(q) \/ SameTable
  BY <1>9 DEF Claim, Create, RowStored, SameTable, table
<1> QED
  BY <1>1, <1>2, <1>3, <1>4, <1>5, <1>6, <1>7, <1>8, <1>9 DEF Next, Handle

-----------------------------------------------------------------------------
(* The theorems *)

LEMMA InvariantInit == Init => IInv
<1> SUFFICES ASSUME Init PROVE IInv
  OBVIOUS
<1>1. TypeOK
  BY TypeInit
<1> QED
  BY <1>1 DEF Init, IInv, Claimed, Slotted, Passed, Found, RejectedReportIsHeld,
              NearTwinsHaveACause

LEMMA InvariantStep == IInv /\ [Next]_vars => IInv'
BY TypeStep, ClaimedStep, SlottedStep, PassedStep, FoundStep, RejectedStep, TwinsStep
   DEF IInv

\* The inductive invariant: what a scan has established of the rows that were
\* there when it began, and what an empty or a shared slot says of the past.
THEOREM ReportsInvariant == Spec => []IInv
<1>1. Init => IInv
  BY InvariantInit
<1>2. IInv /\ [Next]_vars => IInv'
  BY InvariantStep
<1> QED
  BY <1>1, <1>2, PTL DEF Spec

\* Every variable keeps its type; the scan of ShouldCreateReport stays within
\* the configured slots.
THEOREM ReportsTypeCorrect == Spec => []TypeOK
<1>1. IInv => TypeOK
  BY DEF IInv
<1> QED
  BY <1>1, ReportsInvariant, PTL

\* A submission turned away as a duplicate by submitReportIfPresent loses
\* nothing, unless the report it is held to duplicate failed to be stored.
THEOREM RejectionLosesNothing == Spec => []RejectedReportIsHeld
<1>1. IInv => RejectedReportIsHeld
  BY DEF IInv
<1> QED
  BY <1>1, ReportsInvariant, PTL

\* Sequential duplicates stay out while the row lasts, but for a slot emptied
\* by the cleanup below it or shared by concurrent claims.
THEOREM TwinsAreExplained == Spec => []NearTwinsHaveACause
<1>1. IInv => NearTwinsHaveACause
  BY DEF IInv
<1> QED
  BY <1>1, ReportsInvariant, PTL

-----------------------------------------------------------------------------
(* UploaderAccess *)

USE DEF tokens, requests, sessions, marks

\* Issuing, renewing and removing sessions touches no token and no request.
LEMMA SessionsApart ==
    [AccessNext]_accessVars =>
       \/ \E r \in Requests : RequestStep(r)
       \/ \E t \in Tokens : RemoveRevoked(t)
       \/ UNCHANGED <<tokens, requests, marks>>
PROOF
  BY DEF AccessNext, SessionStep, accessVars, Admit, Issue, Renew, Renewed, Lapse,
     MarkExpired, RemoveExpiredSession

\* Every step keeps the types, and no row becomes both valid and revoked.
LEMMA AccessTypeStep ==
    AccessInv /\ [AccessNext]_accessVars => AccessTypeOK'
PROOF
<1> SUFFICES ASSUME AccessInv, [AccessNext]_accessVars PROVE AccessTypeOK'
    OBVIOUS
<1>1. ASSUME NEW r \in Requests, Begin(r) PROVE AccessTypeOK'
    BY <1>1, UploaderAccessAssumption DEF Begin, StartsMinting, Goto, AccessInv,
       AccessTypeOK, Tokens, Minting
<1>2. ASSUME NEW r \in Requests, Kick(r) PROVE AccessTypeOK'
    BY <1>2, UploaderAccessAssumption DEF Kick, RemoveSome, Goto, AccessInv, AccessTypeOK,
       Tokens, Minting
<1>3. ASSUME NEW r \in Requests, Load(r) PROVE AccessTypeOK'
    BY <1>3, UploaderAccessAssumption DEF Load, Goto, AccessInv, AccessTypeOK, Rows,
       Tokens, Minting
<1>4. ASSUME NEW r \in Requests, Sweep(r) PROVE AccessTypeOK'
    BY <1>4, UploaderAccessAssumption DEF Sweep, RemoveSome, AccessInv, AccessTypeOK,
       Tokens, Minting
<1>5. ASSUME NEW r \in Requests, Stamp(r) PROVE AccessTypeOK'
    BY <1>5, UploaderAccessAssumption DEF Stamp, Swept, Goto, AccessInv, AccessTypeOK,
       Tokens, Minting
<1>6. ASSUME NEW r \in Requests, Insert(r) PROVE AccessTypeOK'
    BY <1>6, UploaderAccessAssumption DEF Insert, Goto, AccessInv, AccessTypeOK, TokenInv,
       RequestInv, Rows, Tokens, Minting
<1>7. ASSUME NEW s \in Sessions, Admit(s) PROVE AccessTypeOK'
    BY <1>7, UploaderAccessAssumption DEF Admit, AccessInv, AccessTypeOK, Tokens, Minting
<1>8. ASSUME NEW s \in Sessions, Issue(s) PROVE AccessTypeOK'
    BY <1>8, UploaderAccessAssumption DEF Issue, AccessInv, AccessTypeOK, Tokens, Minting
<1>9. ASSUME NEW s \in Sessions, Renew(s) PROVE AccessTypeOK'
    BY <1>9, UploaderAccessAssumption DEF Renew, AccessInv, AccessTypeOK, Tokens, Minting
<1>10. ASSUME NEW s \in Sessions, Renewed(s) PROVE AccessTypeOK'
    BY <1>10, UploaderAccessAssumption DEF Renewed, AccessInv, AccessTypeOK, Tokens, Minting
<1>11. ASSUME NEW s \in Sessions, Lapse(s) PROVE AccessTypeOK'
    BY <1>11, UploaderAccessAssumption DEF Lapse, AccessInv, AccessTypeOK, Tokens, Minting
<1>12. ASSUME NEW s \in Sessions, RemoveExpiredSession(s) PROVE AccessTypeOK'
    BY <1>12, UploaderAccessAssumption DEF RemoveExpiredSession, AccessInv, AccessTypeOK,
       Tokens, Minting
<1>13. ASSUME MarkExpired PROVE AccessTypeOK'
    BY <1>13, UploaderAccessAssumption DEF MarkExpired, AccessInv, AccessTypeOK, Tokens, Minting
<1>14. ASSUME NEW t \in Tokens, RemoveRevoked(t) PROVE AccessTypeOK'
    BY <1>14, UploaderAccessAssumption DEF RemoveRevoked, AccessInv, AccessTypeOK, Tokens,
       Minting
<1>15. ASSUME UNCHANGED accessVars PROVE AccessTypeOK'
    BY <1>15 DEF accessVars, AccessInv, AccessTypeOK, Tokens, Minting
<1>16. QED
    BY <1>1, <1>2, <1>3, <1>4, <1>5, <1>6, <1>7, <1>8, <1>9, <1>10, <1>11, <1>12, <1>13,
       <1>14, <1>15 DEF AccessNext, RequestStep, SessionStep

\* Every step keeps the token rows: each is stamped by now, and one that is no
\* longer valid was revoked in some request's loop.
LEMMA TokenStep ==
    AccessInv /\ [AccessNext]_accessVars => TokenInv'
PROOF
<1> SUFFICES ASSUME AccessInv, [AccessNext]_accessVars PROVE TokenInv'
    OBVIOUS
<1>1. ASSUME NEW r \in Requests, Begin(r) PROVE TokenInv'
    BY <1>1, UploaderAccessAssumption DEF Begin, StartsMinting, Goto, AccessInv,
       AccessTypeOK, Rows, Tokens, Minting, TokenInv, RequestInv
<1>2. ASSUME NEW r \in Requests, Kick(r) PROVE TokenInv'
    BY <1>2, UploaderAccessAssumption DEF Kick, RemoveSome, Goto, AccessInv, AccessTypeOK, Rows,
       Tokens, Minting, TokenInv, RequestInv
<1>3. ASSUME NEW r \in Requests, Load(r) PROVE TokenInv'
    BY <1>3, UploaderAccessAssumption DEF Load, Goto, AccessInv, AccessTypeOK, Rows,
       Tokens, Minting, TokenInv, RequestInv
<1>4. ASSUME NEW r \in Requests, Sweep(r) PROVE TokenInv'
    BY <1>4, UploaderAccessAssumption DEF Sweep, RemoveSome, AccessInv, AccessTypeOK,
       Rows, Tokens, Minting, TokenInv, RequestInv
<1>5. ASSUME NEW r \in Requests, Stamp(r) PROVE TokenInv'
    BY <1>5, UploaderAccessAssumption DEF Stamp, Swept, Goto, AccessInv, AccessTypeOK,
       Rows, Tokens, Minting, TokenInv, RequestInv
<1>6. ASSUME NEW r \in Requests, Insert(r) PROVE TokenInv'
    BY <1>6, UploaderAccessAssumption DEF Insert, Goto, AccessInv, AccessTypeOK, Rows,
       Tokens, Minting, TokenInv, RequestInv
<1>7. ASSUME NEW t \in Tokens, RemoveRevoked(t) PROVE TokenInv'
    BY <1>7, UploaderAccessAssumption DEF RemoveRevoked, AccessInv, AccessTypeOK, Rows, Tokens,
       Minting, TokenInv, RequestInv
<1>8. ASSUME UNCHANGED <<tokens, requests, marks>> PROVE TokenInv'
    BY <1>8 DEF AccessInv, AccessTypeOK, Rows, Tokens, Minting, TokenInv, RequestInv
<1>9. QED
    BY <1>1, <1>2, <1>3, <1>4, <1>5, <1>6, <1>7, <1>8, SessionsApart DEF RequestStep

\* Every step keeps the requests: a new token is younger than all its request
\* loaded.
LEMMA RequestStepInv ==
    AccessInv /\ [AccessNext]_accessVars => RequestInv'
PROOF
<1> SUFFICES ASSUME AccessInv, [AccessNext]_accessVars PROVE RequestInv'
    OBVIOUS
<1>1. ASSUME NEW r \in Requests, Begin(r) PROVE RequestInv'
    BY <1>1, UploaderAccessAssumption DEF Begin, StartsMinting, Goto, AccessInv,
       AccessTypeOK, Rows, Tokens, Minting, TokenInv, RequestInv, Rows
<1>2. ASSUME NEW r \in Requests, Kick(r) PROVE RequestInv'
    BY <1>2, UploaderAccessAssumption DEF Kick, RemoveSome, Goto, AccessInv, AccessTypeOK, Rows,
       Tokens, Minting, TokenInv, RequestInv, Rows
<1>3. ASSUME NEW r \in Requests, Load(r) PROVE RequestInv'
    BY <1>3, UploaderAccessAssumption DEF Load, Goto, AccessInv, AccessTypeOK, Rows,
       Tokens, Minting, TokenInv, RequestInv, Rows
<1>4. ASSUME NEW r \in Requests, Sweep(r) PROVE RequestInv'
    BY <1>4, UploaderAccessAssumption DEF Sweep, RemoveSome, AccessInv, AccessTypeOK,
       Rows, Tokens, Minting, TokenInv, RequestInv, Rows
<1>5. ASSUME NEW r \in Requests, Stamp(r) PROVE RequestInv'
    BY <1>5, UploaderAccessAssumption DEF Stamp, Swept, Goto, AccessInv, AccessTypeOK,
       Rows, Tokens, Minting, TokenInv, RequestInv, Rows
<1>6. ASSUME NEW r \in Requests, Insert(r) PROVE RequestInv'
    BY <1>6, UploaderAccessAssumption DEF Insert, Goto, AccessInv, AccessTypeOK, Rows,
       Tokens, Minting, TokenInv, RequestInv, Rows
<1>7. ASSUME NEW t \in Tokens, RemoveRevoked(t) PROVE RequestInv'
    BY <1>7, UploaderAccessAssumption DEF RemoveRevoked, AccessInv, AccessTypeOK, Rows, Tokens,
       Minting, TokenInv, RequestInv, Rows
<1>8. ASSUME UNCHANGED <<tokens, requests, marks>> PROVE RequestInv'
    BY <1>8 DEF AccessInv, AccessTypeOK, Rows, Tokens, Minting, TokenInv, RequestInv, Rows
<1>9. QED
    BY <1>1, <1>2, <1>3, <1>4, <1>5, <1>6, <1>7, <1>8, SessionsApart DEF RequestStep

\* Every step keeps swept tokens dead, unless their update failed.
LEMMA SweptStep ==
    AccessInv /\ [AccessNext]_accessVars => SweptTokensAreDead'
PROOF
<1> SUFFICES ASSUME AccessInv, [AccessNext]_accessVars PROVE SweptTokensAreDead'
    OBVIOUS
<1>1. ASSUME NEW r \in Requests, Begin(r) PROVE SweptTokensAreDead'
    BY <1>1, UploaderAccessAssumption DEF Begin, StartsMinting, Goto, AccessInv,
       AccessTypeOK, Rows, Tokens, Minting, TokenInv, RequestInv, SweptTokensAreDead
<1>2. ASSUME NEW r \in Requests, Kick(r) PROVE SweptTokensAreDead'
    BY <1>2, UploaderAccessAssumption DEF Kick, RemoveSome, Goto, AccessInv, AccessTypeOK, Rows,
       Tokens, Minting, TokenInv, RequestInv, SweptTokensAreDead
<1>3. ASSUME NEW r \in Requests, Load(r) PROVE SweptTokensAreDead'
    BY <1>3, UploaderAccessAssumption DEF Load, Goto, AccessInv, AccessTypeOK, Rows,
       Tokens, Minting, TokenInv, RequestInv, SweptTokensAreDead
<1>4. ASSUME NEW r \in Requests, Sweep(r) PROVE SweptTokensAreDead'
    BY <1>4, UploaderAccessAssumption DEF Sweep, RemoveSome, AccessInv, AccessTypeOK,
       Rows, Tokens, Minting, TokenInv, RequestInv, SweptTokensAreDead
<1>5. ASSUME NEW r \in Requests, Stamp(r) PROVE SweptTokensAreDead'
    BY <1>5, UploaderAccessAssumption DEF Stamp, Swept, Goto, AccessInv, AccessTypeOK,
       Rows, Tokens, Minting, TokenInv, RequestInv, SweptTokensAreDead
<1>6. ASSUME NEW r \in Requests, Insert(r) PROVE SweptTokensAreDead'
    BY <1>6, UploaderAccessAssumption DEF Insert, Goto, AccessInv, AccessTypeOK, Rows,
       Tokens, Minting, TokenInv, RequestInv, SweptTokensAreDead
<1>7. ASSUME NEW t \in Tokens, RemoveRevoked(t) PROVE SweptTokensAreDead'
    BY <1>7, UploaderAccessAssumption DEF RemoveRevoked, AccessInv, AccessTypeOK, Rows, Tokens,
       Minting, TokenInv, RequestInv, SweptTokensAreDead
<1>8. ASSUME UNCHANGED <<tokens, requests, marks>> PROVE SweptTokensAreDead'
    BY <1>8 DEF AccessInv, AccessTypeOK, Rows, Tokens, Minting, TokenInv, RequestInv,
       SweptTokensAreDead
<1>9. QED
    BY <1>1, <1>2, <1>3, <1>4, <1>5, <1>6, <1>7, <1>8, SessionsApart DEF RequestStep

\* Every step keeps the marks: while a revocation nothing overlapped is the last
\* word, no token is made, and after it none is valid.
LEMMA MarkStep ==
    AccessInv /\ [AccessNext]_accessVars => MarkInv'
PROOF
<1> SUFFICES ASSUME AccessInv, [AccessNext]_accessVars PROVE MarkInv'
    OBVIOUS
<1>1. ASSUME NEW r \in Requests, Begin(r) PROVE MarkInv'
  <2>1. UNCHANGED <<live, loaded, unsaved>> /\ stage[r] = "idle"
    BY <1>1 DEF Begin, tokens
  <2>2. CASE StartsMinting(r)
    <3>1. quiet' = {} /\ (shut' => shut /\ Kind[r] = "rotate")
      BY <2>2 DEF StartsMinting
    <3>2. CASE Kind[r] = "rotate"
      <4>1. NewestRows \cap live # {}
        BY <1>1, <2>2, <3>2 DEF Begin, StartsMinting, Goto, AccessInv, AccessTypeOK
      <4>2. ~shut'
        BY <3>1, <4>1 DEF AccessInv, MarkInv, RevocationHolds
      <4> QED
        BY <3>1, <4>2 DEF MarkInv, RevocationHolds
    <3>3. CASE Kind[r] # "rotate"
      BY <3>1, <3>3 DEF MarkInv, RevocationHolds
    <3> QED
      BY <3>2, <3>3
  <2>3. CASE ~StartsMinting(r)
    <3>1. marks' = marks /\ (r \in Minting => stage' = [stage EXCEPT ![r] = "done"])
      BY <1>1, <2>3, UploaderAccessAssumption DEF Begin, marks, Minting, Goto
    <3>2. NothingMinting => NothingMinting'
      <4>1. stage' = [stage EXCEPT ![r] = "done"] \/ (r \notin Minting /\ stage' = [stage EXCEPT ![r] = "load"])
        BY <1>1, <2>3, <3>1, UploaderAccessAssumption DEF Begin, Goto, Minting
      <4> QED
        BY <4>1 DEF NothingMinting, InFlight, Minting, AccessInv, AccessTypeOK
    <3> QED
      BY <2>1, <3>1, <3>2 DEF marks, AccessInv, MarkInv, RevocationHolds
  <2> QED
    BY <2>2, <2>3
<1>2. ASSUME NEW r \in Requests, Kick(r) PROVE MarkInv'
    BY <1>2, UploaderAccessAssumption DEF Kick, RemoveSome, Goto, AccessInv, AccessTypeOK, Rows,
       Tokens, Minting, TokenInv, RequestInv, SweptTokensAreDead, MarkInv, RevocationHolds,
       NothingMinting, InFlight, NewestRows
<1>3. ASSUME NEW r \in Requests, Load(r) PROVE MarkInv'
    BY <1>3, UploaderAccessAssumption DEF Load, Goto, AccessInv, AccessTypeOK, Rows,
       Tokens, Minting, TokenInv, RequestInv, SweptTokensAreDead, MarkInv,
       RevocationHolds, NothingMinting, InFlight, NewestRows
<1>4. ASSUME NEW r \in Requests, Sweep(r) PROVE MarkInv'
    BY <1>4, UploaderAccessAssumption DEF Sweep, RemoveSome, AccessInv, AccessTypeOK,
       Rows, Tokens, Minting, TokenInv, RequestInv, SweptTokensAreDead, MarkInv,
       RevocationHolds, NothingMinting, InFlight, NewestRows
<1>5. ASSUME NEW r \in Requests, Stamp(r) PROVE MarkInv'
    BY <1>5, UploaderAccessAssumption DEF Stamp, Swept, Goto, AccessInv, AccessTypeOK,
       Rows, Tokens, Minting, TokenInv, RequestInv, SweptTokensAreDead, MarkInv,
       RevocationHolds, NothingMinting, InFlight, NewestRows
<1>6. ASSUME NEW r \in Requests, Insert(r) PROVE MarkInv'
    BY <1>6, UploaderAccessAssumption DEF Insert, Goto, AccessInv, AccessTypeOK, Rows,
       Tokens, Minting, TokenInv, RequestInv, SweptTokensAreDead, MarkInv,
       RevocationHolds, NothingMinting, InFlight, NewestRows
<1>7. ASSUME NEW t \in Tokens, RemoveRevoked(t) PROVE MarkInv'
    BY <1>7, UploaderAccessAssumption DEF RemoveRevoked, AccessInv, AccessTypeOK, Rows, Tokens,
       Minting, TokenInv, RequestInv, SweptTokensAreDead, MarkInv, RevocationHolds,
       NothingMinting, InFlight, NewestRows
<1>8. ASSUME UNCHANGED <<tokens, requests, marks>> PROVE MarkInv'
    BY <1>8 DEF AccessInv, AccessTypeOK, Rows, Tokens, Minting, TokenInv, RequestInv,
       SweptTokensAreDead, MarkInv, RevocationHolds, NothingMinting, InFlight, NewestRows
<1>9. QED
    BY <1>1, <1>2, <1>3, <1>4, <1>5, <1>6, <1>7, <1>8, SessionsApart DEF RequestStep

THEOREM AccessInvariant == AccessSpec => []AccessInv
PROOF
<1>1. AccessInit => AccessInv
  <2> SUFFICES ASSUME AccessInit PROVE AccessInv
    OBVIOUS
  <2>1. AccessTypeOK
    BY UploaderAccessAssumption DEF AccessInit, AccessTypeOK, Tokens
  <2>2. TokenInv
    BY DEF AccessInit, TokenInv, Rows, Tokens
  <2>3. RequestInv /\ SweptTokensAreDead
    BY UploaderAccessAssumption DEF AccessInit, RequestInv, SweptTokensAreDead
  <2>4. MarkInv
    BY DEF AccessInit, MarkInv, RevocationHolds
  <2> QED
    BY <2>1, <2>2, <2>3, <2>4 DEF AccessInv
<1>2. AccessInv /\ [AccessNext]_accessVars => AccessInv'
  BY AccessTypeStep, TokenStep, RequestStepInv, SweptStep, MarkStep DEF AccessInv
<1> QED
  BY <1>1, <1>2, PTL DEF AccessSpec

\* Types, and no row is both valid and revoked.
THEOREM AccessTypeCorrect == AccessSpec => []AccessTypeOK
PROOF
<1>1. AccessInv => AccessTypeOK
  BY DEF AccessInv
<1> QED
  BY <1>1, AccessInvariant, PTL

\* What a renewal or a revocation loaded is dead after its turn in the loop, for
\* any number of overlapping requests, unless the update itself failed.
THEOREM SweptTokensStayDead == AccessSpec => []SweptTokensAreDead
PROOF
<1>1. AccessInv => SweptTokensAreDead
  BY DEF AccessInv
<1> QED
  BY <1>1, AccessInvariant, PTL

\* A revocation nothing overlapped holds until an administrator makes a token.
THEOREM RevocationIsKept == AccessSpec => []RevocationHolds
PROOF
<1>1. AccessInv => RevocationHolds
  BY DEF AccessInv, MarkInv
<1> QED
  BY <1>1, AccessInvariant, PTL

\* The newest token is lost only to a revocation or to a renewal that has not
\* made its own.
THEOREM AccessIsKept == AccessSpec => []AccessIsLostForACause
PROOF
<1>1. AccessInv => AccessIsLostForACause
  <2> SUFFICES ASSUME AccessInv, NEW t \in born \ live, Newest(t)
               PROVE  \E r \in Requests : t \in loaded[r] /\ (Kind[r] = "revoke" \/ r \notin born)
    BY DEF AccessIsLostForACause
  <2>1. PICK r \in Requests : t \in loaded[r] \ todo[r]
    BY DEF AccessInv, TokenInv
  <2>2. r \in born => stamp[t] < stamp[r]
    BY <2>1 DEF AccessInv, RequestInv
  <2>3. r \in born => stamp[r] =< stamp[t]
    BY DEF Newest
  <2>4. r \in born => stamp[t] \in Nat /\ stamp[r] \in Nat
    BY DEF AccessInv, AccessTypeOK, Tokens
  <2> QED
    BY <2>1, <2>2, <2>3, <2>4
<1> QED
  BY <1>1, AccessInvariant, PTL
=============================================================================
