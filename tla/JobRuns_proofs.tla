--------------------------- MODULE JobRuns_proofs ---------------------------
(* Theorems about the job runner, for any number of runs, steps, requests. *)
EXTENDS JobRuns, TLAPS

Table == [Runs -> [Slots -> SchemaStatuses \cup {"none"}]]

\* No record but record i of run r changes.
Only(r, i) == \A q \in Runs, j \in Slots : q # r \/ j # i => rec'[q][j] = rec[q][j]

-----------------------------------------------------------------------------
(* What the writes of the tracker do to the table *)

\* Setting one record keeps the table a table and every other record.
LEMMA WriteEffect ==
    ASSUME rec \in Table, NEW r \in Runs, NEW i \in Slots,
           NEW s \in SchemaStatuses \cup {"none"}, Write(r, i, s)
    PROVE  /\ rec' \in Table
           /\ rec'[r][i] = s
           /\ Only(r, i)
<1> DEFINE row == [rec[r] EXCEPT ![i] = s]
<1>1. rec[r] \in [Slots -> SchemaStatuses \cup {"none"}]
  BY DEF Table
<1>2. /\ row \in [Slots -> SchemaStatuses \cup {"none"}]
      /\ row[i] = s
      /\ \A j \in Slots : j # i => row[j] = rec[r][j]
  BY <1>1
<1>3. rec' = [rec EXCEPT ![r] = row]
  BY DEF Write
<1> HIDE DEF row
<1>4. rec'[r] = row /\ \A q \in Runs : q # r => rec'[q] = rec[q]
  BY <1>3 DEF Table
<1>5. rec' \in Table
  BY <1>2, <1>3 DEF Table
<1> QED
  BY <1>2, <1>4, <1>5 DEF Only

\* A started record is running, and no other record changes.
LEMMA InsertEffect ==
    ASSUME rec \in Table, NEW r \in Runs, NEW i \in Slots, Insert(r, i)
    PROVE  /\ rec' \in Table
           /\ rec'[r][i] = "running"
           /\ Only(r, i)
BY WriteEffect DEF Insert, SchemaStatuses

\* A closing save stores an accepted status, or changes no record and is
\* remembered as lost; no other record changes either way.
LEMMA SaveEffect ==
    ASSUME rec \in Table, lost \subseteq Records, NEW r \in Runs, NEW i \in Slots,
           NEW s, Save(r, i, s)
    PROVE  /\ rec' \in Table
           /\ lost \subseteq lost'
           /\ lost' \subseteq Records
           /\ \/ rec'[r][i] = s /\ s \in SchemaStatuses
              \/ rec' = rec /\ <<r, i>> \in lost'
           /\ Only(r, i)
<1>1. CASE /\ s \in SchemaStatuses
           /\ Write(r, i, s)
           /\ UNCHANGED lost
  BY <1>1, WriteEffect
<1>2. CASE lost' = lost \cup {<<r, i>>} /\ UNCHANGED rec
  BY <1>2 DEF Records, Only
<1> QED
  BY <1>1, <1>2 DEF Save

-----------------------------------------------------------------------------
\* Every step keeps the types.
LEMMA TypeStep == IInv /\ [Next]_vars => TypeOK'
<1> SUFFICES ASSUME IInv, [Next]_vars PROVE TypeOK'
  OBVIOUS
<1> USE DEF IInv, TypeOK, PCs, Counters
<1>1. ASSUME NEW r \in Runs, Launch(r) PROVE TypeOK'
  BY <1>1 DEF Launch, RegisterCancel, Goto, runVars
<1>2. ASSUME NEW r \in Runs, CheckUnique(r) PROVE TypeOK'
  BY <1>2 DEF CheckUnique, Goto, runVars
<1>3. ASSUME NEW r \in Runs, StartJob(r) PROVE TypeOK'
  <2>1. CASE Insert(r, 0) /\ Goto(r, "body")
    <3>1. 0 \in Slots
      BY JobRunsAssumption DEF Slots
    <3>2. rec' \in Table
      BY <2>1, <3>1, InsertEffect DEF Table
    <3> QED
      BY <1>3, <2>1, <3>2 DEF StartJob, Goto, Table, runVars
  <2>2. CASE UNCHANGED rec /\ Goto(r, "unregister")
    BY <1>3, <2>2 DEF StartJob, Goto, runVars
  <2> QED
    BY <1>3, <2>1, <2>2 DEF StartJob
<1>4. ASSUME NEW r \in Runs, StepStart(r) PROVE TypeOK'
  <2>1. NextStep(r) \in Slots
    BY <1>4, JobRunsAssumption DEF StepStart, Slots, NextStep
  <2>2. ASSUME NEW c \in BOOLEAN, StepOpened(r, c) PROVE TypeOK'
    <3>1. rec' \in Table
      BY <2>1, <2>2, InsertEffect DEF Table, StepOpened
    <3> QED
      BY <1>4, <2>1, <2>2, <3>1 DEF StepStart, StepOpened, Count, Goto, Table
  <2>3. ASSUME NEW c \in BOOLEAN, StepNotOpened(r, c) PROVE TypeOK'
    BY <1>4, <2>3 DEF StepStart, StepNotOpened, Count, Failed, AfterFailure, Flag, Goto
  <2> QED
    BY <1>4, <2>2, <2>3 DEF StepStart
<1>5. ASSUME NEW r \in Runs, StepEnd(r) PROVE TypeOK'
  <2>1. 0 \in Slots
    BY JobRunsAssumption DEF Slots
  <2>2. ASSUME NEW s, StepFailed(r, s) PROVE TypeOK'
    <3>1. rec' \in Table /\ lost' \subseteq Records
      BY <2>2, SaveEffect DEF StepFailed, Table
    <3> QED
      BY <1>5, <2>1, <2>2, <3>1
         DEF StepEnd, StepFailed, Count, Failed, AfterFailure, Flag, Goto, Table
  <2>3. CASE StepSucceeded(r)
    <3>1. rec' \in Table /\ lost' \subseteq Records
      BY <2>3, SaveEffect DEF StepSucceeded, Table
    <3> QED
      BY <1>5, <2>1, <2>3, <3>1 DEF StepEnd, StepSucceeded, Count, Goto, Table
  <2> QED
    BY <1>5, <2>2, <2>3 DEF StepEnd
<1>6. ASSUME NEW r \in Runs, StepPanic(r) PROVE TypeOK'
  BY <1>6, JobRunsAssumption DEF StepPanic, Goto, Flag, Slots, Records
<1>7. ASSUME NEW r \in Runs, SkipStep(r) PROVE TypeOK'
  <2>1. NextStep(r) \in Slots
    BY <1>7, JobRunsAssumption DEF SkipStep, Slots, NextStep
  <2>2. CASE StepSkipped(r)
    <3>1. rec' \in Table
      BY <2>1, <2>2, InsertEffect, WriteEffect DEF StepSkipped, Table, SchemaStatuses
    <3>2. lost' \subseteq Records
      BY <2>1, <2>2 DEF StepSkipped, Records
    <3> QED
      BY <1>7, <2>1, <2>2, <3>1, <3>2 DEF SkipStep, StepSkipped, Count, Table
  <2>3. CASE StepNotSkipped(r)
    BY <1>7, <2>3 DEF SkipStep, StepNotSkipped, Count, Flag
  <2> QED
    BY <1>7, <2>2, <2>3 DEF SkipStep
<1>8. ASSUME NEW r \in Runs, Partial(r) PROVE TypeOK'
  BY <1>8 DEF Partial, Flag, runVars
<1>9. ASSUME NEW r \in Runs, SkipParent(r) PROVE TypeOK'
  BY <1>9 DEF SkipParent, Flag, Goto, runVars
<1>10. ASSUME NEW r \in Runs, BodyReturn(r) PROVE TypeOK'
  BY <1>10 DEF BodyReturn, Flag, Goto, runVars
<1>11. ASSUME NEW r \in Runs, Decide(r) PROVE TypeOK'
  BY <1>11 DEF Decide, Goto, FinalStatus, Closed, SchemaStatuses, runVars
<1>12. ASSUME NEW r \in Runs, FinishJob(r) PROVE TypeOK'
  <2>1. 0 \in Slots
    BY JobRunsAssumption DEF Slots
  <2>2. rec' \in Table /\ lost' \subseteq Records
    BY <1>12, <2>1, SaveEffect DEF FinishJob, Table
  <2> QED
    BY <1>12, <2>2 DEF FinishJob, Goto, Table, runVars
<1>13. ASSUME NEW r \in Runs, Unregister(r) PROVE TypeOK'
  BY <1>13, JobRunsAssumption DEF Unregister, UnregisterCancel, Goto, Forget, Slots
<1>14. ASSUME NEW r \in Runs, Deadline(r) PROVE TypeOK'
  BY <1>14 DEF Deadline, Done, Active, runVars
<1>15. ASSUME NEW r \in Runs, CallerDone(r) PROVE TypeOK'
  BY <1>15 DEF CallerDone, Done, Active, runVars
<1>16. ASSUME NEW a \in Admins, CancelFind(a) PROVE TypeOK'
  <2>1. PICK r \in Runs, i \in Slots :
            admin' = [admin EXCEPT ![a] = [stage |-> "found", target |-> <<r, i>>]]
    BY <1>16 DEF CancelFind
  <2> DEFINE q == [stage |-> "found", target |-> <<r, i>>]
  <2>2. q \in [stage : {"found", "canceled"}, target : Records]
    BY DEF Records
  <2> HIDE DEF q
  <2> QED
    BY <1>16, <2>1, <2>2 DEF CancelFind, runVars, q
<1>17. ASSUME NEW a \in Admins, CancelCall(a) PROVE TypeOK'
  <2>1. admin[a] \in [stage : {"found", "canceled"}, target : Records]
    BY <1>17 DEF CancelCall, NoRequest
  <2>2. admin' \in [Admins -> [stage : {"found", "canceled"}, target : Records]
                              \cup {NoRequest}]
    BY <1>17, <2>1 DEF CancelCall
  <2> QED
    BY <1>17, <2>2 DEF CancelCall, Cancel, Done, runVars
<1>18. ASSUME NEW a \in Admins, CancelSave(a) PROVE TypeOK'
  <2>1. /\ admin[a] \in [stage : {"found", "canceled"}, target : Records]
        /\ admin[a].target[1] \in Runs
        /\ admin[a].target[2] \in Slots
    BY <1>18 DEF CancelSave, NoRequest, Records
  <2>2. rec' \in Table /\ lost' \subseteq Records
    BY <1>18, <2>1, SaveEffect DEF CancelSave, Table
  <2> QED
    BY <1>18, <2>2 DEF CancelSave, Table, runVars
<1>19. CASE SweepLoad
  BY <1>19 DEF SweepLoad, Records, runVars
<1>20. ASSUME NEW x \in Records, SweepSkip(x) PROVE TypeOK'
  BY <1>20 DEF SweepSkip, runVars
<1>21. ASSUME NEW x \in Records, SweepCancel(x) PROVE TypeOK'
  BY <1>21 DEF SweepCancel, Cancel, Done, runVars
<1>22. ASSUME NEW x \in Records, SweepTimeout(x) PROVE TypeOK'
  BY <1>22 DEF SweepTimeout, SchemaStatuses, runVars
<1>23. CASE Crash
  BY <1>23, JobRunsAssumption DEF Crash, Forget, Active, Slots
<1>24. CASE UNCHANGED vars
  BY <1>24 DEF vars
<1> QED
  BY <1>1, <1>2, <1>3, <1>4, <1>5, <1>6, <1>7, <1>8, <1>9, <1>10, <1>11, <1>12, <1>13,
     <1>14, <1>15, <1>16, <1>17, <1>18, <1>19, <1>20, <1>21, <1>22, <1>23, <1>24
     DEF Next, RunStep, Prepare, Step, Conclude, CancelJob, Sweep

-----------------------------------------------------------------------------
(* What the steps that write records do, as the invariant needs it *)

\* The job's record appears as running, or the run turns to leave.
JobStarted(r) ==
    /\ pc[r] = "start"
    /\ UNCHANGED <<ctx, handles, stepNo, open, admin, lost, panicked>>
    /\ \/ Only(r, 0) /\ rec'[r][0] = "running" /\ pc' = [pc EXCEPT ![r] = "body"]
       \/ UNCHANGED rec /\ pc' = [pc EXCEPT ![r] = "unregister"]

\* Starting the job does that.
LEMMA StartJobEffect == ASSUME TypeOK, NEW r \in Runs, StartJob(r) PROVE JobStarted(r)
<1> USE DEF JobStarted
<1>1. 0 \in Slots
  BY JobRunsAssumption DEF Slots
<1> QED
  BY <1>1, InsertEffect DEF StartJob, Goto, TypeOK, Table, runVars

\* A new record appears as running and is the open step's, or there is none.
StepStarted(r) ==
    /\ pc[r] = "body"
    /\ UNCHANGED <<ctx, handles, admin, lost, panicked>>
    /\ NextStep(r) \in Slots \ {0}
    /\ \/ /\ Only(r, NextStep(r)) /\ rec'[r][NextStep(r)] = "running"
          /\ pc' = [pc EXCEPT ![r] = "step"]
          /\ stepNo' = [stepNo EXCEPT ![r] = NextStep(r)]
          /\ open' = [open EXCEPT ![r] = NextStep(r)]
       \/ /\ UNCHANGED <<rec, stepNo, open>>
          /\ pc' = [pc EXCEPT ![r] = "body"] \/ pc' = [pc EXCEPT ![r] = "decide"]

\* Starting a step does that.
LEMMA StepStartEffect == ASSUME TypeOK, NEW r \in Runs, StepStart(r) PROVE StepStarted(r)
<1> USE DEF StepStarted
<1>1. NextStep(r) \in Slots \ {0}
  BY JobRunsAssumption DEF TypeOK, Slots, NextStep, StepStart
<1>2. pc[r] = "body" /\ UNCHANGED <<ctx, handles, admin, lost, panicked>>
  BY DEF StepStart
<1>3. ASSUME NEW c \in BOOLEAN, StepOpened(r, c)
      PROVE  /\ Only(r, NextStep(r)) /\ rec'[r][NextStep(r)] = "running"
             /\ pc' = [pc EXCEPT ![r] = "step"]
             /\ stepNo' = [stepNo EXCEPT ![r] = NextStep(r)]
             /\ open' = [open EXCEPT ![r] = NextStep(r)]
  BY <1>1, <1>3, InsertEffect DEF StepOpened, Goto, TypeOK, Table
<1>4. ASSUME NEW c \in BOOLEAN, StepNotOpened(r, c)
      PROVE  /\ UNCHANGED <<rec, stepNo, open>>
             /\ pc' = [pc EXCEPT ![r] = "body"] \/ pc' = [pc EXCEPT ![r] = "decide"]
  BY <1>4 DEF StepNotOpened, AfterFailure, Goto
<1> QED
  BY <1>1, <1>2, <1>3, <1>4 DEF StepStart

\* The open step's record is closed, or its save is lost.
StepEnded(r) ==
    /\ pc[r] = "step"
    /\ UNCHANGED <<ctx, handles, stepNo, admin, panicked>>
    /\ open' = [open EXCEPT ![r] = 0]
    /\ pc' = [pc EXCEPT ![r] = "body"] \/ pc' = [pc EXCEPT ![r] = "decide"]
    /\ Only(r, open[r]) /\ lost \subseteq lost'
    /\ \/ rec'[r][open[r]] \in Closed
       \/ UNCHANGED rec /\ <<r, open[r]>> \in lost'

\* The end of a step does that.
LEMMA StepEndEffect == ASSUME TypeOK, NEW r \in Runs, StepEnd(r) PROVE StepEnded(r)
<1> USE DEF StepEnded
<1>1. PICK s \in {"canceled", "failed", "success"} :
          /\ Save(r, open[r], s)
          /\ pc' = [pc EXCEPT ![r] = "body"] \/ pc' = [pc EXCEPT ![r] = "decide"]
  BY DEF StepEnd, StepFailed, StepSucceeded, AfterFailure, Goto
<1>2. open[r] \in Slots
  BY DEF TypeOK
<1>3. rec \in Table /\ lost \subseteq Records
  BY DEF TypeOK, Table
<1> QED
  BY <1>1, <1>2, <1>3, SaveEffect DEF StepEnd, Closed, SchemaStatuses

\* A new record appears as skipped, or as running when its closing save is
\* lost, or there is none.
StepNoted(r) ==
    /\ pc[r] \in {"body", "step"}
    /\ UNCHANGED <<pc, ctx, handles, open, admin, panicked>>
    /\ NextStep(r) \in Slots \ {0}
    /\ lost \subseteq lost'
    /\ \/ /\ Only(r, NextStep(r))
          /\ stepNo' = [stepNo EXCEPT ![r] = NextStep(r)]
          /\ \/ rec'[r][NextStep(r)] = "skipped"
             \/ rec'[r][NextStep(r)] = "running" /\ <<r, NextStep(r)>> \in lost'
       \/ UNCHANGED <<rec, stepNo>>

\* SkipStep does that.
LEMMA SkipStepEffect == ASSUME TypeOK, NEW r \in Runs, SkipStep(r) PROVE StepNoted(r)
<1> USE DEF StepNoted
<1>1. NextStep(r) \in Slots \ {0}
  BY JobRunsAssumption DEF TypeOK, Slots, NextStep, SkipStep
<1>2. CASE StepSkipped(r)
  BY <1>1, <1>2, InsertEffect, WriteEffect
     DEF SkipStep, StepSkipped, TypeOK, Table, SchemaStatuses
<1>3. CASE StepNotSkipped(r)
  BY <1>1, <1>3 DEF SkipStep, StepNotSkipped
<1> QED
  BY <1>2, <1>3 DEF SkipStep

\* The job's record is closed, or its save is lost.
JobFinished(r) ==
    /\ pc[r] = "finish"
    /\ UNCHANGED <<ctx, handles, stepNo, open, admin, panicked>>
    /\ pc' = [pc EXCEPT ![r] = "unregister"]
    /\ Only(r, 0) /\ lost \subseteq lost'
    /\ \/ rec'[r][0] \in Closed
       \/ UNCHANGED rec /\ <<r, 0>> \in lost'

\* The closing save of Run does that.
LEMMA FinishJobEffect == ASSUME TypeOK, NEW r \in Runs, FinishJob(r) PROVE JobFinished(r)
<1> USE DEF JobFinished
<1>1. 0 \in Slots /\ verdict[r] \in Closed \cup {"none"}
  BY JobRunsAssumption DEF Slots, TypeOK
<1>2. rec \in Table /\ lost \subseteq Records
  BY DEF TypeOK, Table
<1>3. Save(r, 0, verdict[r])
  BY DEF FinishJob
<1>4. /\ Only(r, 0) /\ lost \subseteq lost'
      /\ \/ rec'[r][0] = verdict[r] /\ verdict[r] \in SchemaStatuses
         \/ UNCHANGED rec /\ <<r, 0>> \in lost'
  BY <1>1, <1>2, <1>3, SaveEffect
<1>5. rec'[r][0] = verdict[r] /\ verdict[r] \in SchemaStatuses => rec'[r][0] \in Closed
  BY <1>1 DEF Closed, SchemaStatuses
<1>6. /\ pc[r] = "finish"
      /\ UNCHANGED <<ctx, handles, stepNo, open, admin, panicked>>
      /\ pc' = [pc EXCEPT ![r] = "unregister"]
  BY DEF FinishJob, Goto, runVars
<1> QED
  BY <1>4, <1>5, <1>6

\* The loaded record becomes canceled, or its save is lost, and nothing else
\* happens to the run.
CancelSaved(a) ==
    /\ admin[a].stage = "canceled"
    /\ admin[a].target[1] \in Runs
    /\ admin[a].target[2] \in Slots
    /\ UNCHANGED <<pc, ctx, handles, stepNo, open, panicked>>
    /\ admin' = [admin EXCEPT ![a] = NoRequest]
    /\ Only(admin[a].target[1], admin[a].target[2])
    /\ lost \subseteq lost'
    /\ rec'[admin[a].target[1]][admin[a].target[2]] = "canceled" \/ UNCHANGED rec

\* The save of CancelJob does that.
LEMMA CancelSaveEffect == ASSUME TypeOK, NEW a \in Admins, CancelSave(a) PROVE CancelSaved(a)
<1> USE DEF CancelSaved
<1>1. /\ admin[a] \in [stage : {"found", "canceled"}, target : Records]
      /\ admin[a].target[1] \in Runs
      /\ admin[a].target[2] \in Slots
  BY DEF TypeOK, CancelSave, NoRequest, Records
<1>2. rec \in Table /\ lost \subseteq Records
  BY DEF TypeOK, Table
<1>3. Save(admin[a].target[1], admin[a].target[2], "canceled")
  BY DEF CancelSave
<1>4. /\ Only(admin[a].target[1], admin[a].target[2])
      /\ lost \subseteq lost'
      /\ rec'[admin[a].target[1]][admin[a].target[2]] = "canceled" \/ UNCHANGED rec
  <2> DEFINE r == admin[a].target[1]
             i == admin[a].target[2]
  <2>1. r \in Runs /\ i \in Slots /\ Save(r, i, "canceled")
    BY <1>1, <1>3
  <2> HIDE DEF r, i
  <2>2. /\ Only(r, i)
        /\ lost \subseteq lost'
        /\ rec'[r][i] = "canceled" \/ UNCHANGED rec
    BY <1>2, <2>1, SaveEffect
  <2> QED
    BY <2>2 DEF r, i
<1>5. /\ admin[a].stage = "canceled"
      /\ UNCHANGED <<pc, ctx, handles, stepNo, open, panicked>>
      /\ admin' = [admin EXCEPT ![a] = NoRequest]
  BY DEF CancelSave, runVars
<1> QED
  BY <1>1, <1>4, <1>5

-----------------------------------------------------------------------------
(* Each part of the invariant is preserved *)

\* Records appear in order, and only once a run starts.
LEMMA FreshStep == IInv /\ [Next]_vars => Fresh'
<1> SUFFICES ASSUME IInv, [Next]_vars PROVE Fresh'
  OBVIOUS
<1>a. /\ pc \in [Runs -> PCs] /\ ctx \in [Runs -> {"live", "canceled", "deadline"}]
      /\ open \in [Runs -> Slots] /\ stepNo \in [Runs -> Slots]
      /\ handles \subseteq Runs /\ rec \in Table /\ 0 \in Slots
      /\ admin \in [Admins -> [stage : {"found", "canceled"}, target : Records]
                               \cup {NoRequest}]
  BY JobRunsAssumption DEF IInv, TypeOK, Table, Slots
<1>c. \A i \in Slots : i \in Nat
  BY JobRunsAssumption DEF Slots
<1>d. \A a \in Admins : admin[a] # NoRequest =>
          admin[a].target[1] \in Runs /\ admin[a].target[2] \in Slots
  BY DEF IInv, TypeOK, Records
<1>b. TypeOK /\ Fresh /\ Held /\ Requests /\ HandlesAreLive /\ RunningMeansLive
        /\ WorkingRunHoldsItsKey
  BY DEF IInv
<1>1. ASSUME NEW r \in Runs, Launch(r) PROVE Fresh'
  BY <1>1, <1>a, <1>b, <1>c
     DEF Launch, RegisterCancel, Goto, Fresh, Active, runVars, Table
<1>2. ASSUME NEW r \in Runs, CheckUnique(r) PROVE Fresh'
  BY <1>2, <1>a, <1>b, <1>c DEF CheckUnique, Goto, Fresh, Active, runVars, Table
<1>3. ASSUME NEW r \in Runs, StartJob(r) PROVE Fresh'
  <2>1. JobStarted(r)
    BY <1>3, <1>b, StartJobEffect
  <2> QED
    BY <1>a, <1>b, <1>c, <2>1
       DEF JobStarted, Only, Table, Fresh, Active
<1>4. ASSUME NEW r \in Runs, StepStart(r) PROVE Fresh'
  <2>1. StepStarted(r)
    BY <1>4, <1>b, StepStartEffect
  <2>2. SUFFICES ASSUME NEW q \in Runs, NEW i \in Slots
                 PROVE  /\ pc'[q] \in {"idle", "check", "start"} => rec'[q][i] = "none"
                        /\ Active(q)' /\ i > stepNo'[q] => rec'[q][i] = "none"
    BY DEF Fresh
  <2>3. CASE q = r
    BY <1>a, <1>b, <1>c, <2>1, <2>3 DEF StepStarted, Only, NextStep, Fresh, Active
  <2>4. CASE q # r
    BY <1>a, <1>b, <1>c, <2>1, <2>4 DEF StepStarted, Only, Fresh, Active
  <2> QED
    BY <2>3, <2>4
<1>5. ASSUME NEW r \in Runs, StepEnd(r) PROVE Fresh'
  <2>1. StepEnded(r)
    BY <1>5, <1>b, StepEndEffect
  <2> QED
    BY <1>a, <1>b, <1>c, <2>1
       DEF StepEnded, Only, Closed, SchemaStatuses, Table, Fresh, Active, Held
<1>6. ASSUME NEW r \in Runs, StepPanic(r) PROVE Fresh'
  BY <1>6, <1>a, <1>b, <1>c DEF StepPanic, Goto, Fresh, Active, runVars, Table
<1>7. ASSUME NEW r \in Runs, SkipStep(r) PROVE Fresh'
  <2>1. StepNoted(r)
    BY <1>7, <1>b, SkipStepEffect
  <2>2. SUFFICES ASSUME NEW q \in Runs, NEW i \in Slots
                 PROVE  /\ pc'[q] \in {"idle", "check", "start"} => rec'[q][i] = "none"
                        /\ Active(q)' /\ i > stepNo'[q] => rec'[q][i] = "none"
    BY DEF Fresh
  <2>3. CASE q = r
    BY <1>a, <1>b, <1>c, <2>1, <2>3 DEF StepNoted, Only, NextStep, Fresh, Active
  <2>4. CASE q # r
    BY <1>a, <1>b, <1>c, <2>1, <2>4 DEF StepNoted, Only, Fresh, Active
  <2> QED
    BY <2>3, <2>4
<1>8. ASSUME NEW r \in Runs, Partial(r) PROVE Fresh'
  BY <1>8, <1>a, <1>b, <1>c DEF Partial, Fresh, Active, runVars, Table
<1>9. ASSUME NEW r \in Runs, SkipParent(r) PROVE Fresh'
  BY <1>9, <1>a, <1>b, <1>c DEF SkipParent, Goto, Fresh, Active, runVars, Table
<1>10. ASSUME NEW r \in Runs, BodyReturn(r) PROVE Fresh'
  BY <1>10, <1>a, <1>b, <1>c DEF BodyReturn, Goto, Fresh, Active, runVars, Table
<1>11. ASSUME NEW r \in Runs, Decide(r) PROVE Fresh'
  BY <1>11, <1>a, <1>b, <1>c DEF Decide, Goto, Fresh, Active, runVars, Table
<1>12. ASSUME NEW r \in Runs, FinishJob(r) PROVE Fresh'
  <2>1. JobFinished(r)
    BY <1>12, <1>b, FinishJobEffect
  <2>2. SUFFICES ASSUME NEW q \in Runs, NEW i \in Slots
                 PROVE  /\ pc'[q] \in {"idle", "check", "start"} => rec'[q][i] = "none"
                        /\ Active(q)' /\ i > stepNo'[q] => rec'[q][i] = "none"
    BY DEF Fresh
  <2>3. CASE q = r
    BY <1>a, <1>b, <1>c, <2>1, <2>3
       DEF JobFinished, Only, Closed, SchemaStatuses, Fresh, Active, Held, Working
  <2>4. CASE q # r
    BY <1>a, <1>b, <1>c, <2>1, <2>4 DEF JobFinished, Only, Fresh, Active
  <2> QED
    BY <2>3, <2>4
<1>13. ASSUME NEW r \in Runs, Unregister(r) PROVE Fresh'
  BY <1>13, <1>a, <1>b, <1>c
     DEF Unregister, UnregisterCancel, Goto, Forget, Fresh, Active, runVars, Table
<1>14. ASSUME NEW r \in Runs, Deadline(r) PROVE Fresh'
  BY <1>14, <1>a, <1>b, <1>c DEF Deadline, Done, Fresh, Active, runVars, Table
<1>15. ASSUME NEW r \in Runs, CallerDone(r) PROVE Fresh'
  BY <1>15, <1>a, <1>b, <1>c DEF CallerDone, Done, Fresh, Active, runVars, Table
<1>16. ASSUME NEW a \in Admins, CancelFind(a) PROVE Fresh'
  BY <1>16, <1>a, <1>b, <1>c DEF CancelFind, Fresh, Active, runVars, Table
<1>17. ASSUME NEW a \in Admins, CancelCall(a) PROVE Fresh'
  BY <1>17, <1>a, <1>b, <1>c DEF CancelCall, Cancel, Done, Fresh, Active, runVars, Table
<1>18. ASSUME NEW a \in Admins, CancelSave(a) PROVE Fresh'
  <2>1. CancelSaved(a)
    BY <1>18, <1>b, CancelSaveEffect
  <2>a. admin[a] # NoRequest
    BY <2>1 DEF CancelSaved, NoRequest
  <2> DEFINE t == admin[a].target[1]
             j == admin[a].target[2]
  <2>b. /\ t \in Runs /\ j \in Slots /\ t \notin handles
        /\ rec[t][j] # "none" /\ pc[t] # "idle"
        /\ Only(t, j) /\ (rec'[t][j] = "canceled" \/ UNCHANGED rec)
        /\ UNCHANGED <<pc, ctx, handles, stepNo, open, panicked>>
        /\ lost \subseteq lost'
    BY <1>b, <1>d, <2>1, <2>a DEF CancelSaved, Requests
  <2> HIDE DEF t, j
  <2> QED
    BY <1>a, <1>b, <2>b DEF Fresh, Active, Only
<1>19. CASE SweepLoad
  BY <1>19, <1>a, <1>b, <1>c DEF SweepLoad, Fresh, Active, runVars, Table
<1>20. ASSUME NEW x \in Records, SweepSkip(x) PROVE Fresh'
  BY <1>20, <1>a, <1>b, <1>c DEF SweepSkip, Fresh, Active, runVars, Table
<1>21. ASSUME NEW x \in Records, SweepCancel(x) PROVE Fresh'
  BY <1>21, <1>a, <1>b, <1>c
     DEF SweepCancel, Cancel, Done, Fresh, Active, runVars, Table
<1>22. ASSUME NEW x \in Records, SweepTimeout(x) PROVE Fresh'
  BY <1>22, <1>a, <1>b, <1>c
     DEF SweepTimeout, SchemaStatuses, Fresh, Active, runVars, Table
<1>23. CASE Crash
  BY <1>23, <1>a, <1>b, <1>c DEF Crash, Forget, Fresh, Active, runVars, Table
<1>24. CASE UNCHANGED vars
  BY <1>24, <1>a, <1>b, <1>c DEF vars, Fresh, Active
<1> QED
  BY <1>1, <1>2, <1>3, <1>4, <1>5, <1>6, <1>7, <1>8, <1>9, <1>10, <1>11, <1>12, <1>13,
     <1>14, <1>15, <1>16, <1>17, <1>18, <1>19, <1>20, <1>21, <1>22, <1>23, <1>24
     DEF Next, RunStep, Prepare, Step, Conclude, CancelJob, Sweep

\* Only cancellations are written over the record of a run or step at work.
LEMMA HeldStep == IInv /\ [Next]_vars => Held'
<1> SUFFICES ASSUME IInv, [Next]_vars PROVE Held'
  OBVIOUS
<1>a. /\ pc \in [Runs -> PCs] /\ ctx \in [Runs -> {"live", "canceled", "deadline"}]
      /\ open \in [Runs -> Slots] /\ stepNo \in [Runs -> Slots]
      /\ handles \subseteq Runs /\ rec \in Table /\ 0 \in Slots
      /\ admin \in [Admins -> [stage : {"found", "canceled"}, target : Records]
                               \cup {NoRequest}]
  BY JobRunsAssumption DEF IInv, TypeOK, Table, Slots
<1>c. \A i \in Slots : i \in Nat
  BY JobRunsAssumption DEF Slots
<1>d. \A a \in Admins : admin[a] # NoRequest =>
          admin[a].target[1] \in Runs /\ admin[a].target[2] \in Slots
  BY DEF IInv, TypeOK, Records
<1>b. TypeOK /\ Fresh /\ Held /\ Requests /\ HandlesAreLive /\ RunningMeansLive
        /\ WorkingRunHoldsItsKey
  BY DEF IInv
<1>1. ASSUME NEW r \in Runs, Launch(r) PROVE Held'
  BY <1>1, <1>a, <1>b, <1>c
     DEF Launch, RegisterCancel, Goto, Held, Working, runVars, Table
<1>2. ASSUME NEW r \in Runs, CheckUnique(r) PROVE Held'
  BY <1>2, <1>a, <1>b, <1>c DEF CheckUnique, Goto, Held, Working, runVars, Table
<1>3. ASSUME NEW r \in Runs, StartJob(r) PROVE Held'
  <2>1. JobStarted(r)
    BY <1>3, <1>b, StartJobEffect
  <2> QED
    BY <1>a, <1>b, <1>c, <2>1
       DEF JobStarted, Only, Table, Held, Working
<1>4. ASSUME NEW r \in Runs, StepStart(r) PROVE Held'
  <2>1. StepStarted(r)
    BY <1>4, <1>b, StepStartEffect
  <2> QED
    BY <1>a, <1>b, <1>c, <2>1
       DEF StepStarted, Only, NextStep, Table, Held, Working
<1>5. ASSUME NEW r \in Runs, StepEnd(r) PROVE Held'
  <2>1. StepEnded(r)
    BY <1>5, <1>b, StepEndEffect
  <2> QED
    BY <1>a, <1>b, <1>c, <2>1
       DEF StepEnded, Only, Closed, SchemaStatuses, Table, Held, Working
<1>6. ASSUME NEW r \in Runs, StepPanic(r) PROVE Held'
  BY <1>6, <1>a, <1>b, <1>c DEF StepPanic, Goto, Held, Working, runVars, Table
<1>7. ASSUME NEW r \in Runs, SkipStep(r) PROVE Held'
  <2>1. StepNoted(r)
    BY <1>7, <1>b, SkipStepEffect
  <2>2. /\ pc[r] \in {"body", "step"} /\ UNCHANGED <<pc, open>>
        /\ NextStep(r) \in Slots \ {0}
        /\ Only(r, NextStep(r)) \/ UNCHANGED rec
    BY <2>1 DEF StepNoted
  <2>3. stepNo[r] \in Nat /\ NextStep(r) > stepNo[r]
    BY <1>b, <1>c DEF TypeOK, NextStep
  <2>4. rec[r][NextStep(r)] = "none"
    BY <1>b, <2>2, <2>3 DEF Fresh, Active
  <2>5. pc[r] = "step" => open[r] # NextStep(r)
    BY <1>b, <2>4 DEF Held
  <2>6. ASSUME NEW q \in Runs
        PROVE  /\ rec'[q][0] = rec[q][0]
               /\ pc[q] = "step" => rec'[q][open[q]] = rec[q][open[q]]
    BY <1>a, <1>b, <2>2, <2>5 DEF Only, TypeOK
  <2> QED
    BY <1>b, <2>2, <2>6 DEF Held, Working
<1>8. ASSUME NEW r \in Runs, Partial(r) PROVE Held'
  BY <1>8, <1>a, <1>b, <1>c DEF Partial, Held, Working, runVars, Table
<1>9. ASSUME NEW r \in Runs, SkipParent(r) PROVE Held'
  BY <1>9, <1>a, <1>b, <1>c DEF SkipParent, Goto, Held, Working, runVars, Table
<1>10. ASSUME NEW r \in Runs, BodyReturn(r) PROVE Held'
  BY <1>10, <1>a, <1>b, <1>c DEF BodyReturn, Goto, Held, Working, runVars, Table
<1>11. ASSUME NEW r \in Runs, Decide(r) PROVE Held'
  BY <1>11, <1>a, <1>b, <1>c DEF Decide, Goto, Held, Working, runVars, Table
<1>12. ASSUME NEW r \in Runs, FinishJob(r) PROVE Held'
  <2>1. JobFinished(r)
    BY <1>12, <1>b, FinishJobEffect
  <2> QED
    BY <1>a, <1>b, <1>c, <2>1
       DEF JobFinished, Only, Closed, SchemaStatuses, Table, Held, Working
<1>13. ASSUME NEW r \in Runs, Unregister(r) PROVE Held'
  BY <1>13, <1>a, <1>b, <1>c
     DEF Unregister, UnregisterCancel, Goto, Forget, Held, Working, runVars, Table
<1>14. ASSUME NEW r \in Runs, Deadline(r) PROVE Held'
  BY <1>14, <1>a, <1>b, <1>c DEF Deadline, Done, Held, Working, runVars, Table
<1>15. ASSUME NEW r \in Runs, CallerDone(r) PROVE Held'
  BY <1>15, <1>a, <1>b, <1>c DEF CallerDone, Done, Held, Working, runVars, Table
<1>16. ASSUME NEW a \in Admins, CancelFind(a) PROVE Held'
  BY <1>16, <1>a, <1>b, <1>c DEF CancelFind, Held, Working, runVars, Table
<1>17. ASSUME NEW a \in Admins, CancelCall(a) PROVE Held'
  BY <1>17, <1>a, <1>b, <1>c DEF CancelCall, Cancel, Done, Held, Working, runVars, Table
<1>18. ASSUME NEW a \in Admins, CancelSave(a) PROVE Held'
  <2>1. CancelSaved(a)
    BY <1>18, <1>b, CancelSaveEffect
  <2> QED
    BY <1>a, <1>b, <1>c, <2>1
       DEF CancelSaved, Only, Table, Held, Working
<1>19. CASE SweepLoad
  BY <1>19, <1>a, <1>b, <1>c DEF SweepLoad, Held, Working, runVars, Table
<1>20. ASSUME NEW x \in Records, SweepSkip(x) PROVE Held'
  BY <1>20, <1>a, <1>b, <1>c DEF SweepSkip, Held, Working, runVars, Table
<1>21. ASSUME NEW x \in Records, SweepCancel(x) PROVE Held'
  BY <1>21, <1>a, <1>b, <1>c
     DEF SweepCancel, Cancel, Done, Held, Working, runVars, Table
<1>22. ASSUME NEW x \in Records, SweepTimeout(x) PROVE Held'
  BY <1>22, <1>a, <1>b, <1>c
     DEF SweepTimeout, SchemaStatuses, Held, Working, runVars, Table
<1>23. CASE Crash
  BY <1>23, <1>a DEF Crash, Active, Held, Working, PCs
<1>24. CASE UNCHANGED vars
  BY <1>24, <1>a, <1>b, <1>c DEF vars, Held, Working
<1> QED
  BY <1>1, <1>2, <1>3, <1>4, <1>5, <1>6, <1>7, <1>8, <1>9, <1>10, <1>11, <1>12, <1>13,
     <1>14, <1>15, <1>16, <1>17, <1>18, <1>19, <1>20, <1>21, <1>22, <1>23, <1>24
     DEF Next, RunStep, Prepare, Step, Conclude, CancelJob, Sweep

\* A request's record exists, and a request that saves has taken the handle.
LEMMA RequestsStep == IInv /\ [Next]_vars => Requests'
<1> SUFFICES ASSUME IInv, [Next]_vars PROVE Requests'
  OBVIOUS
<1>a. /\ pc \in [Runs -> PCs] /\ ctx \in [Runs -> {"live", "canceled", "deadline"}]
      /\ open \in [Runs -> Slots] /\ stepNo \in [Runs -> Slots]
      /\ handles \subseteq Runs /\ rec \in Table /\ 0 \in Slots
      /\ admin \in [Admins -> [stage : {"found", "canceled"}, target : Records]
                               \cup {NoRequest}]
  BY JobRunsAssumption DEF IInv, TypeOK, Table, Slots
<1>c. \A i \in Slots : i \in Nat
  BY JobRunsAssumption DEF Slots
<1>d. \A a \in Admins : admin[a] # NoRequest =>
          admin[a].target[1] \in Runs /\ admin[a].target[2] \in Slots
  BY DEF IInv, TypeOK, Records
<1>b. TypeOK /\ Fresh /\ Held /\ Requests /\ HandlesAreLive /\ RunningMeansLive
        /\ WorkingRunHoldsItsKey
  BY DEF IInv
<1>1. ASSUME NEW r \in Runs, Launch(r) PROVE Requests'
  BY <1>1, <1>a, <1>b, <1>c DEF Launch, RegisterCancel, Goto, Requests, runVars, Table
<1>2. ASSUME NEW r \in Runs, CheckUnique(r) PROVE Requests'
  BY <1>2, <1>a, <1>b, <1>d DEF CheckUnique, Goto, Requests, runVars
<1>3. ASSUME NEW r \in Runs, StartJob(r) PROVE Requests'
  <2>1. JobStarted(r)
    BY <1>3, <1>b, StartJobEffect
  <2>2. SUFFICES ASSUME NEW b \in Admins, admin'[b] # NoRequest
                 PROVE  /\ rec'[admin'[b].target[1]][admin'[b].target[2]] # "none"
                        /\ pc'[admin'[b].target[1]] # "idle"
                        /\ admin'[b].stage = "canceled" => admin'[b].target[1] \notin handles'
    BY DEF Requests
  <2>3. /\ admin[b] # NoRequest /\ admin'[b] = admin[b]
        /\ admin[b].target[1] \in Runs /\ admin[b].target[2] \in Slots
    BY <1>a, <1>d, <2>1, <2>2 DEF JobStarted
  <2> DEFINE q == admin[b].target[1]
             i == admin[b].target[2]
  <2>4. rec[q][i] # "none" /\ pc[q] # "idle" /\ (admin[b].stage = "canceled" => q \notin handles)
    BY <1>b, <2>3 DEF Requests
  <2>5. q \in Runs /\ i \in Slots
    BY <2>3
  <2> HIDE DEF q, i
  <2>6. rec'[q][i] # "none" /\ pc'[q] # "idle" /\ (admin[b].stage = "canceled" => q \notin handles')
    BY <1>a, <2>1, <2>4, <2>5 DEF JobStarted, Only
  <2> QED
    BY <2>3, <2>6 DEF q, i
<1>4. ASSUME NEW r \in Runs, StepStart(r) PROVE Requests'
  <2>1. StepStarted(r)
    BY <1>4, <1>b, StepStartEffect
  <2>2. SUFFICES ASSUME NEW b \in Admins, admin'[b] # NoRequest
                 PROVE  /\ rec'[admin'[b].target[1]][admin'[b].target[2]] # "none"
                        /\ pc'[admin'[b].target[1]] # "idle"
                        /\ admin'[b].stage = "canceled" => admin'[b].target[1] \notin handles'
    BY DEF Requests
  <2>3. /\ admin[b] # NoRequest /\ admin'[b] = admin[b]
        /\ admin[b].target[1] \in Runs /\ admin[b].target[2] \in Slots
    BY <1>a, <1>d, <2>1, <2>2 DEF StepStarted
  <2> DEFINE q == admin[b].target[1]
             i == admin[b].target[2]
  <2>4. rec[q][i] # "none" /\ pc[q] # "idle" /\ (admin[b].stage = "canceled" => q \notin handles)
    BY <1>b, <2>3 DEF Requests
  <2>5. q \in Runs /\ i \in Slots
    BY <2>3
  <2> HIDE DEF q, i
  <2>6. rec'[q][i] # "none" /\ pc'[q] # "idle" /\ (admin[b].stage = "canceled" => q \notin handles')
    BY <1>a, <2>1, <2>4, <2>5 DEF StepStarted, Only, NextStep
  <2> QED
    BY <2>3, <2>6 DEF q, i
<1>5. ASSUME NEW r \in Runs, StepEnd(r) PROVE Requests'
  <2>1. StepEnded(r)
    BY <1>5, <1>b, StepEndEffect
  <2>2. SUFFICES ASSUME NEW b \in Admins, admin'[b] # NoRequest
                 PROVE  /\ rec'[admin'[b].target[1]][admin'[b].target[2]] # "none"
                        /\ pc'[admin'[b].target[1]] # "idle"
                        /\ admin'[b].stage = "canceled" => admin'[b].target[1] \notin handles'
    BY DEF Requests
  <2>3. /\ admin[b] # NoRequest /\ admin'[b] = admin[b]
        /\ admin[b].target[1] \in Runs /\ admin[b].target[2] \in Slots
    BY <1>a, <1>d, <2>1, <2>2 DEF StepEnded
  <2> DEFINE q == admin[b].target[1]
             i == admin[b].target[2]
  <2>4. rec[q][i] # "none" /\ pc[q] # "idle" /\ (admin[b].stage = "canceled" => q \notin handles)
    BY <1>b, <2>3 DEF Requests
  <2>5. q \in Runs /\ i \in Slots
    BY <2>3
  <2> HIDE DEF q, i
  <2>6. rec'[q][i] # "none" /\ pc'[q] # "idle" /\ (admin[b].stage = "canceled" => q \notin handles')
    BY <1>a, <2>1, <2>4, <2>5 DEF StepEnded, Only, Closed, SchemaStatuses
  <2> QED
    BY <2>3, <2>6 DEF q, i
<1>6. ASSUME NEW r \in Runs, StepPanic(r) PROVE Requests'
  BY <1>6, <1>a, <1>b, <1>c DEF StepPanic, Goto, Requests, runVars, Table
<1>7. ASSUME NEW r \in Runs, SkipStep(r) PROVE Requests'
  <2>1. StepNoted(r)
    BY <1>7, <1>b, SkipStepEffect
  <2>2. SUFFICES ASSUME NEW b \in Admins, admin'[b] # NoRequest
                 PROVE  /\ rec'[admin'[b].target[1]][admin'[b].target[2]] # "none"
                        /\ pc'[admin'[b].target[1]] # "idle"
                        /\ admin'[b].stage = "canceled" => admin'[b].target[1] \notin handles'
    BY DEF Requests
  <2>3. /\ admin[b] # NoRequest /\ admin'[b] = admin[b]
        /\ admin[b].target[1] \in Runs /\ admin[b].target[2] \in Slots
    BY <1>a, <1>d, <2>1, <2>2 DEF StepNoted
  <2> DEFINE q == admin[b].target[1]
             i == admin[b].target[2]
  <2>4. rec[q][i] # "none" /\ pc[q] # "idle" /\ (admin[b].stage = "canceled" => q \notin handles)
    BY <1>b, <2>3 DEF Requests
  <2>5. q \in Runs /\ i \in Slots
    BY <2>3
  <2> HIDE DEF q, i
  <2>6. rec'[q][i] # "none" /\ pc'[q] # "idle" /\ (admin[b].stage = "canceled" => q \notin handles')
    BY <1>a, <2>1, <2>4, <2>5 DEF StepNoted, Only, NextStep
  <2> QED
    BY <2>3, <2>6 DEF q, i
<1>8. ASSUME NEW r \in Runs, Partial(r) PROVE Requests'
  BY <1>8, <1>a, <1>b, <1>c DEF Partial, Requests, runVars, Table
<1>9. ASSUME NEW r \in Runs, SkipParent(r) PROVE Requests'
  BY <1>9, <1>a, <1>b, <1>c DEF SkipParent, Goto, Requests, runVars, Table
<1>10. ASSUME NEW r \in Runs, BodyReturn(r) PROVE Requests'
  BY <1>10, <1>a, <1>b, <1>c DEF BodyReturn, Goto, Requests, runVars, Table
<1>11. ASSUME NEW r \in Runs, Decide(r) PROVE Requests'
  BY <1>11, <1>a, <1>b, <1>c DEF Decide, Goto, Requests, runVars, Table
<1>12. ASSUME NEW r \in Runs, FinishJob(r) PROVE Requests'
  <2>1. JobFinished(r)
    BY <1>12, <1>b, FinishJobEffect
  <2>2. SUFFICES ASSUME NEW b \in Admins, admin'[b] # NoRequest
                 PROVE  /\ rec'[admin'[b].target[1]][admin'[b].target[2]] # "none"
                        /\ pc'[admin'[b].target[1]] # "idle"
                        /\ admin'[b].stage = "canceled" => admin'[b].target[1] \notin handles'
    BY DEF Requests
  <2>3. /\ admin[b] # NoRequest /\ admin'[b] = admin[b]
        /\ admin[b].target[1] \in Runs /\ admin[b].target[2] \in Slots
    BY <1>a, <1>d, <2>1, <2>2 DEF JobFinished
  <2> DEFINE q == admin[b].target[1]
             i == admin[b].target[2]
  <2>4. rec[q][i] # "none" /\ pc[q] # "idle" /\ (admin[b].stage = "canceled" => q \notin handles)
    BY <1>b, <2>3 DEF Requests
  <2>5. q \in Runs /\ i \in Slots
    BY <2>3
  <2> HIDE DEF q, i
  <2>6. rec'[q][i] # "none" /\ pc'[q] # "idle" /\ (admin[b].stage = "canceled" => q \notin handles')
    BY <1>a, <2>1, <2>4, <2>5 DEF JobFinished, Only, Closed, SchemaStatuses
  <2> QED
    BY <2>3, <2>6 DEF q, i
<1>13. ASSUME NEW r \in Runs, Unregister(r) PROVE Requests'
  BY <1>13, <1>a, <1>b, <1>c
     DEF Unregister, UnregisterCancel, Goto, Forget, Requests, runVars, Table
<1>14. ASSUME NEW r \in Runs, Deadline(r) PROVE Requests'
  BY <1>14, <1>a, <1>b, <1>c DEF Deadline, Done, Requests, runVars, Table
<1>15. ASSUME NEW r \in Runs, CallerDone(r) PROVE Requests'
  BY <1>15, <1>a, <1>b, <1>c DEF CallerDone, Done, Requests, runVars, Table
<1>16. ASSUME NEW a \in Admins, CancelFind(a) PROVE Requests'
  <2>1. PICK r \in Runs, i \in Slots :
            /\ rec[r][i] = "running"
            /\ admin' = [admin EXCEPT ![a] = [stage |-> "found", target |-> <<r, i>>]]
    BY <1>16 DEF CancelFind
  <2>2. pc[r] # "idle"
    BY <1>b, <2>1 DEF Fresh
  <2>3. admin'[a] = [stage |-> "found", target |-> <<r, i>>]
    BY <1>a, <2>1
  <2>4. \A b \in Admins : b # a => admin'[b] = admin[b]
    BY <1>a, <2>1
  <2>5. UNCHANGED <<pc, rec, handles>>
    BY <1>16 DEF CancelFind
  <2> QED
    BY <1>b, <2>1, <2>2, <2>3, <2>4, <2>5 DEF Requests
<1>17. ASSUME NEW a \in Admins, CancelCall(a) PROVE Requests'
  <2>1. admin[a] # NoRequest
    BY <1>17 DEF CancelCall, NoRequest
  <2>2. \A b \in Admins : b # a => admin'[b] = admin[b]
    BY <1>17, <1>a DEF CancelCall
  <2>3. UNCHANGED <<pc, rec>>
    BY <1>17 DEF CancelCall
  <2>4. CASE Cancel(admin[a].target[1]) /\ admin' = [admin EXCEPT ![a].stage = "canceled"]
    <3>1. admin[a] \in [stage : {"found", "canceled"}, target : Records]
      BY <1>a, <2>1
    <3>2. admin'[a].target = admin[a].target /\ admin'[a].stage = "canceled"
      BY <1>a, <2>4, <3>1
    <3>3. handles' = handles \ {admin[a].target[1]}
      BY <2>4 DEF Cancel
    <3> QED
      BY <1>b, <2>1, <2>2, <2>3, <3>2, <3>3 DEF Requests
  <2>5. CASE admin' = [admin EXCEPT ![a] = NoRequest] /\ UNCHANGED handles
    BY <1>a, <1>b, <2>2, <2>3, <2>5 DEF Requests
  <2> QED
    BY <1>17, <2>4, <2>5 DEF CancelCall
<1>18. ASSUME NEW a \in Admins, CancelSave(a) PROVE Requests'
  <2>1. CancelSaved(a)
    BY <1>18, <1>b, CancelSaveEffect
  <2>2. SUFFICES ASSUME NEW b \in Admins, admin'[b] # NoRequest
                 PROVE  /\ rec'[admin'[b].target[1]][admin'[b].target[2]] # "none"
                        /\ pc'[admin'[b].target[1]] # "idle"
                        /\ admin'[b].stage = "canceled" => admin'[b].target[1] \notin handles'
    BY DEF Requests
  <2>3. /\ admin[b] # NoRequest /\ admin'[b] = admin[b]
        /\ admin[b].target[1] \in Runs /\ admin[b].target[2] \in Slots
    BY <1>a, <1>d, <2>1, <2>2 DEF CancelSaved
  <2> DEFINE q == admin[b].target[1]
             i == admin[b].target[2]
  <2>4. rec[q][i] # "none" /\ pc[q] # "idle" /\ (admin[b].stage = "canceled" => q \notin handles)
    BY <1>b, <2>3 DEF Requests
  <2>5. q \in Runs /\ i \in Slots
    BY <2>3
  <2> HIDE DEF q, i
  <2>6. rec'[q][i] # "none" /\ pc'[q] # "idle" /\ (admin[b].stage = "canceled" => q \notin handles')
    BY <1>a, <2>1, <2>4, <2>5 DEF CancelSaved, Only
  <2> QED
    BY <2>3, <2>6 DEF q, i
<1>19. CASE SweepLoad
  BY <1>19, <1>a, <1>b, <1>c DEF SweepLoad, Requests, runVars, Table
<1>20. ASSUME NEW x \in Records, SweepSkip(x) PROVE Requests'
  BY <1>20, <1>a, <1>b, <1>c DEF SweepSkip, Requests, runVars, Table
<1>21. ASSUME NEW x \in Records, SweepCancel(x) PROVE Requests'
  BY <1>21, <1>a, <1>b, <1>c DEF SweepCancel, Cancel, Done, Requests, runVars, Table
<1>22. ASSUME NEW x \in Records, SweepTimeout(x) PROVE Requests'
  BY <1>22, <1>a, <1>b, <1>c DEF SweepTimeout, SchemaStatuses, Requests, runVars, Table
<1>23. CASE Crash
  BY <1>23, <1>a, <1>b, <1>c DEF Crash, Forget, Requests, runVars, Table
<1>24. CASE UNCHANGED vars
  BY <1>24, <1>a, <1>b, <1>c DEF vars, Requests
<1> QED
  BY <1>1, <1>2, <1>3, <1>4, <1>5, <1>6, <1>7, <1>8, <1>9, <1>10, <1>11, <1>12, <1>13,
     <1>14, <1>15, <1>16, <1>17, <1>18, <1>19, <1>20, <1>21, <1>22, <1>23, <1>24
     DEF Next, RunStep, Prepare, Step, Conclude, CancelJob, Sweep

\* The registry holds the handles of the runs that have not returned.
LEMMA HandlesStep == IInv /\ [Next]_vars => HandlesAreLive'
<1> SUFFICES ASSUME IInv, [Next]_vars PROVE HandlesAreLive'
  OBVIOUS
<1>a. /\ pc \in [Runs -> PCs] /\ ctx \in [Runs -> {"live", "canceled", "deadline"}]
      /\ open \in [Runs -> Slots] /\ stepNo \in [Runs -> Slots]
      /\ handles \subseteq Runs /\ rec \in Table /\ 0 \in Slots
      /\ admin \in [Admins -> [stage : {"found", "canceled"}, target : Records]
                               \cup {NoRequest}]
  BY JobRunsAssumption DEF IInv, TypeOK, Table, Slots
<1>c. \A i \in Slots : i \in Nat
  BY JobRunsAssumption DEF Slots
<1>d. \A a \in Admins : admin[a] # NoRequest =>
          admin[a].target[1] \in Runs /\ admin[a].target[2] \in Slots
  BY DEF IInv, TypeOK, Records
<1>b. TypeOK /\ Fresh /\ Held /\ Requests /\ HandlesAreLive /\ RunningMeansLive
        /\ WorkingRunHoldsItsKey
  BY DEF IInv
<1>1. ASSUME NEW r \in Runs, Launch(r) PROVE HandlesAreLive'
  BY <1>1, <1>a, <1>b, <1>c
     DEF Launch, RegisterCancel, Goto, HandlesAreLive, Active, runVars, Table
<1>2. ASSUME NEW r \in Runs, CheckUnique(r) PROVE HandlesAreLive'
  BY <1>2, <1>a, <1>b, <1>c
     DEF CheckUnique, Goto, HandlesAreLive, Active, runVars, Table
<1>3. ASSUME NEW r \in Runs, StartJob(r) PROVE HandlesAreLive'
  <2>1. JobStarted(r)
    BY <1>3, <1>b, StartJobEffect
  <2> QED
    BY <1>a, <1>b, <1>c, <2>1
       DEF JobStarted, Only, Table, HandlesAreLive, Active
<1>4. ASSUME NEW r \in Runs, StepStart(r) PROVE HandlesAreLive'
  <2>1. StepStarted(r)
    BY <1>4, <1>b, StepStartEffect
  <2> QED
    BY <1>a, <1>b, <1>c, <2>1
       DEF StepStarted, Only, NextStep, Table, HandlesAreLive, Active
<1>5. ASSUME NEW r \in Runs, StepEnd(r) PROVE HandlesAreLive'
  <2>1. StepEnded(r)
    BY <1>5, <1>b, StepEndEffect
  <2> QED
    BY <1>a, <1>b, <1>c, <2>1
       DEF StepEnded, Only, Closed, SchemaStatuses, Table, HandlesAreLive, Active
<1>6. ASSUME NEW r \in Runs, StepPanic(r) PROVE HandlesAreLive'
  BY <1>6, <1>a, <1>b, <1>c DEF StepPanic, Goto, HandlesAreLive, Active, runVars, Table
<1>7. ASSUME NEW r \in Runs, SkipStep(r) PROVE HandlesAreLive'
  <2>1. StepNoted(r)
    BY <1>7, <1>b, SkipStepEffect
  <2> QED
    BY <1>a, <1>b, <1>c, <2>1
       DEF StepNoted, Only, NextStep, Table, HandlesAreLive, Active
<1>8. ASSUME NEW r \in Runs, Partial(r) PROVE HandlesAreLive'
  BY <1>8, <1>a, <1>b, <1>c DEF Partial, HandlesAreLive, Active, runVars, Table
<1>9. ASSUME NEW r \in Runs, SkipParent(r) PROVE HandlesAreLive'
  BY <1>9, <1>a, <1>b, <1>c DEF SkipParent, Goto, HandlesAreLive, Active, runVars, Table
<1>10. ASSUME NEW r \in Runs, BodyReturn(r) PROVE HandlesAreLive'
  BY <1>10, <1>a, <1>b, <1>c
     DEF BodyReturn, Goto, HandlesAreLive, Active, runVars, Table
<1>11. ASSUME NEW r \in Runs, Decide(r) PROVE HandlesAreLive'
  BY <1>11, <1>a, <1>b, <1>c DEF Decide, Goto, HandlesAreLive, Active, runVars, Table
<1>12. ASSUME NEW r \in Runs, FinishJob(r) PROVE HandlesAreLive'
  <2>1. JobFinished(r)
    BY <1>12, <1>b, FinishJobEffect
  <2> QED
    BY <1>a, <1>b, <1>c, <2>1
       DEF JobFinished, Only, Closed, SchemaStatuses, Table, HandlesAreLive, Active
<1>13. ASSUME NEW r \in Runs, Unregister(r) PROVE HandlesAreLive'
  BY <1>13, <1>a, <1>b, <1>c
     DEF Unregister, UnregisterCancel, Goto, Forget, HandlesAreLive, Active, runVars,
         Table
<1>14. ASSUME NEW r \in Runs, Deadline(r) PROVE HandlesAreLive'
  BY <1>14, <1>a, <1>b, <1>c DEF Deadline, Done, HandlesAreLive, Active, runVars, Table
<1>15. ASSUME NEW r \in Runs, CallerDone(r) PROVE HandlesAreLive'
  BY <1>15, <1>a, <1>b, <1>c
     DEF CallerDone, Done, HandlesAreLive, Active, runVars, Table
<1>16. ASSUME NEW a \in Admins, CancelFind(a) PROVE HandlesAreLive'
  BY <1>16, <1>a, <1>b, <1>c DEF CancelFind, HandlesAreLive, Active, runVars, Table
<1>17. ASSUME NEW a \in Admins, CancelCall(a) PROVE HandlesAreLive'
  BY <1>17, <1>a, <1>b, <1>c
     DEF CancelCall, Cancel, Done, HandlesAreLive, Active, runVars, Table
<1>18. ASSUME NEW a \in Admins, CancelSave(a) PROVE HandlesAreLive'
  <2>1. CancelSaved(a)
    BY <1>18, <1>b, CancelSaveEffect
  <2> QED
    BY <1>a, <1>b, <1>c, <2>1
       DEF CancelSaved, Only, Table, HandlesAreLive, Active
<1>19. CASE SweepLoad
  BY <1>19, <1>a, <1>b, <1>c DEF SweepLoad, HandlesAreLive, Active, runVars, Table
<1>20. ASSUME NEW x \in Records, SweepSkip(x) PROVE HandlesAreLive'
  BY <1>20, <1>a, <1>b, <1>c DEF SweepSkip, HandlesAreLive, Active, runVars, Table
<1>21. ASSUME NEW x \in Records, SweepCancel(x) PROVE HandlesAreLive'
  BY <1>21, <1>a, <1>b, <1>c
     DEF SweepCancel, Cancel, Done, HandlesAreLive, Active, runVars, Table
<1>22. ASSUME NEW x \in Records, SweepTimeout(x) PROVE HandlesAreLive'
  BY <1>22, <1>a, <1>b, <1>c
     DEF SweepTimeout, SchemaStatuses, HandlesAreLive, Active, runVars, Table
<1>23. CASE Crash
  BY <1>23, <1>a, <1>b, <1>c DEF Crash, Forget, HandlesAreLive, Active, runVars, Table
<1>24. CASE UNCHANGED vars
  BY <1>24, <1>a, <1>b, <1>c DEF vars, HandlesAreLive, Active
<1> QED
  BY <1>1, <1>2, <1>3, <1>4, <1>5, <1>6, <1>7, <1>8, <1>9, <1>10, <1>11, <1>12, <1>13,
     <1>14, <1>15, <1>16, <1>17, <1>18, <1>19, <1>20, <1>21, <1>22, <1>23, <1>24
     DEF Next, RunStep, Prepare, Step, Conclude, CancelJob, Sweep

\* A record that stays running has somebody to close it, or a known reason.
LEMMA RunningStep == IInv /\ [Next]_vars => RunningMeansLive'
<1> SUFFICES ASSUME IInv, [Next]_vars PROVE RunningMeansLive'
  OBVIOUS
<1>a. /\ pc \in [Runs -> PCs] /\ ctx \in [Runs -> {"live", "canceled", "deadline"}]
      /\ open \in [Runs -> Slots] /\ stepNo \in [Runs -> Slots]
      /\ handles \subseteq Runs /\ rec \in Table /\ 0 \in Slots
      /\ admin \in [Admins -> [stage : {"found", "canceled"}, target : Records]
                               \cup {NoRequest}]
  BY JobRunsAssumption DEF IInv, TypeOK, Table, Slots
<1>c. \A i \in Slots : i \in Nat
  BY JobRunsAssumption DEF Slots
<1>d. \A a \in Admins : admin[a] # NoRequest =>
          admin[a].target[1] \in Runs /\ admin[a].target[2] \in Slots
  BY DEF IInv, TypeOK, Records
<1>b. TypeOK /\ Fresh /\ Held /\ Requests /\ HandlesAreLive /\ RunningMeansLive
        /\ WorkingRunHoldsItsKey
  BY DEF IInv
<1>1. ASSUME NEW r \in Runs, Launch(r) PROVE RunningMeansLive'
  BY <1>1, <1>a, <1>b, <1>c
     DEF Launch, RegisterCancel, Goto, RunningMeansLive, Working, Active, runVars,
         Table
<1>2. ASSUME NEW r \in Runs, CheckUnique(r) PROVE RunningMeansLive'
  BY <1>2, <1>a, <1>b, <1>c
     DEF CheckUnique, Goto, RunningMeansLive, Working, Active, runVars, Table
<1>3. ASSUME NEW r \in Runs, StartJob(r) PROVE RunningMeansLive'
  <2>1. JobStarted(r)
    BY <1>3, <1>b, StartJobEffect
  <2> QED
    BY <1>a, <1>b, <1>c, <2>1
       DEF JobStarted, Only, Table, RunningMeansLive, Working, Active
<1>4. ASSUME NEW r \in Runs, StepStart(r) PROVE RunningMeansLive'
  <2>1. StepStarted(r)
    BY <1>4, <1>b, StepStartEffect
  <2> QED
    BY <1>a, <1>b, <1>c, <2>1
       DEF StepStarted, Only, NextStep, Table, RunningMeansLive, Working, Active
<1>5. ASSUME NEW r \in Runs, StepEnd(r) PROVE RunningMeansLive'
  <2>1. StepEnded(r)
    BY <1>5, <1>b, StepEndEffect
  <2>2. open[r] \in Slots /\ open[r] # 0
    BY <1>a, <1>b, <2>1 DEF StepEnded, Held
  <2>3. SUFFICES ASSUME NEW q \in Runs, NEW i \in Slots, rec'[q][i] = "running"
                 PROVE  \/ i = 0 /\ Working(q)'
                        \/ i # 0 /\ pc'[q] = "step" /\ open'[q] = i
                        \/ pc'[q] = "dead"
                        \/ <<q, i>> \in lost' \cup panicked'
    BY DEF RunningMeansLive
  <2>4. CASE q = r /\ i = open[r]
    BY <1>a, <2>1, <2>3, <2>4 DEF StepEnded, Closed
  <2>5. CASE q # r \/ i # open[r]
    <3>1. rec[q][i] = "running"
      BY <2>1, <2>3, <2>5 DEF StepEnded, Only
    <3>2. \/ i = 0 /\ Working(q)
          \/ i # 0 /\ pc[q] = "step" /\ open[q] = i
          \/ pc[q] = "dead"
          \/ <<q, i>> \in lost \cup panicked
      BY <1>b, <3>1 DEF RunningMeansLive
    <3> QED
      BY <1>a, <2>1, <2>5, <3>2 DEF StepEnded, Working
  <2> QED
    BY <2>4, <2>5
<1>6. ASSUME NEW r \in Runs, StepPanic(r) PROVE RunningMeansLive'
  BY <1>6, <1>a, <1>b, <1>c
     DEF StepPanic, Goto, RunningMeansLive, Working, Active, runVars, Table
<1>7. ASSUME NEW r \in Runs, SkipStep(r) PROVE RunningMeansLive'
  <2>1. StepNoted(r)
    BY <1>7, <1>b, SkipStepEffect
  <2> QED
    BY <1>a, <1>b, <1>c, <2>1
       DEF StepNoted, Only, NextStep, Table, RunningMeansLive, Working, Active
<1>8. ASSUME NEW r \in Runs, Partial(r) PROVE RunningMeansLive'
  BY <1>8, <1>a, <1>b, <1>c
     DEF Partial, RunningMeansLive, Working, Active, runVars, Table
<1>9. ASSUME NEW r \in Runs, SkipParent(r) PROVE RunningMeansLive'
  BY <1>9, <1>a, <1>b, <1>c
     DEF SkipParent, Goto, RunningMeansLive, Working, Active, runVars, Table
<1>10. ASSUME NEW r \in Runs, BodyReturn(r) PROVE RunningMeansLive'
  BY <1>10, <1>a, <1>b, <1>c
     DEF BodyReturn, Goto, RunningMeansLive, Working, Active, runVars, Table
<1>11. ASSUME NEW r \in Runs, Decide(r) PROVE RunningMeansLive'
  BY <1>11, <1>a, <1>b, <1>c
     DEF Decide, Goto, RunningMeansLive, Working, Active, runVars, Table
<1>12. ASSUME NEW r \in Runs, FinishJob(r) PROVE RunningMeansLive'
  <2>1. JobFinished(r)
    BY <1>12, <1>b, FinishJobEffect
  <2> QED
    BY <1>a, <1>b, <1>c, <2>1
       DEF JobFinished, Only, Closed, SchemaStatuses, Table, RunningMeansLive, Working, Active
<1>13. ASSUME NEW r \in Runs, Unregister(r) PROVE RunningMeansLive'
  BY <1>13, <1>a, <1>b, <1>c
     DEF Unregister, UnregisterCancel, Goto, Forget, RunningMeansLive, Working, Active,
         runVars, Table
<1>14. ASSUME NEW r \in Runs, Deadline(r) PROVE RunningMeansLive'
  BY <1>14, <1>a, <1>b, <1>c
     DEF Deadline, Done, RunningMeansLive, Working, Active, runVars, Table
<1>15. ASSUME NEW r \in Runs, CallerDone(r) PROVE RunningMeansLive'
  BY <1>15, <1>a, <1>b, <1>c
     DEF CallerDone, Done, RunningMeansLive, Working, Active, runVars, Table
<1>16. ASSUME NEW a \in Admins, CancelFind(a) PROVE RunningMeansLive'
  BY <1>16, <1>a, <1>b, <1>c
     DEF CancelFind, RunningMeansLive, Working, Active, runVars, Table
<1>17. ASSUME NEW a \in Admins, CancelCall(a) PROVE RunningMeansLive'
  BY <1>17, <1>a, <1>b, <1>c
     DEF CancelCall, Cancel, Done, RunningMeansLive, Working, Active, runVars, Table
<1>18. ASSUME NEW a \in Admins, CancelSave(a) PROVE RunningMeansLive'
  <2>1. CancelSaved(a)
    BY <1>18, <1>b, CancelSaveEffect
  <2> QED
    BY <1>a, <1>b, <1>c, <2>1
       DEF CancelSaved, Only, Table, RunningMeansLive, Working, Active
<1>19. CASE SweepLoad
  BY <1>19, <1>a, <1>b, <1>c
     DEF SweepLoad, RunningMeansLive, Working, Active, runVars, Table
<1>20. ASSUME NEW x \in Records, SweepSkip(x) PROVE RunningMeansLive'
  BY <1>20, <1>a, <1>b, <1>c
     DEF SweepSkip, RunningMeansLive, Working, Active, runVars, Table
<1>21. ASSUME NEW x \in Records, SweepCancel(x) PROVE RunningMeansLive'
  BY <1>21, <1>a, <1>b, <1>c
     DEF SweepCancel, Cancel, Done, RunningMeansLive, Working, Active, runVars, Table
<1>22. ASSUME NEW x \in Records, SweepTimeout(x) PROVE RunningMeansLive'
  BY <1>22, <1>a, <1>b, <1>c
     DEF SweepTimeout, SchemaStatuses, RunningMeansLive, Working, Active, runVars,
         Table
<1>23. CASE Crash
  BY <1>23, <1>a, <1>b, <1>c
     DEF Crash, Forget, RunningMeansLive, Working, Active, runVars, Table
<1>24. CASE UNCHANGED vars
  BY <1>24, <1>a, <1>b, <1>c DEF vars, RunningMeansLive, Working, Active
<1> QED
  BY <1>1, <1>2, <1>3, <1>4, <1>5, <1>6, <1>7, <1>8, <1>9, <1>10, <1>11, <1>12, <1>13,
     <1>14, <1>15, <1>16, <1>17, <1>18, <1>19, <1>20, <1>21, <1>22, <1>23, <1>24
     DEF Next, RunStep, Prepare, Step, Conclude, CancelJob, Sweep

\* A run at work whose handle nobody took stays visible as running.
LEMMA KeyStep == IInv /\ [Next]_vars => WorkingRunHoldsItsKey'
<1> SUFFICES ASSUME IInv, [Next]_vars PROVE WorkingRunHoldsItsKey'
  OBVIOUS
<1>a. /\ pc \in [Runs -> PCs] /\ ctx \in [Runs -> {"live", "canceled", "deadline"}]
      /\ open \in [Runs -> Slots] /\ stepNo \in [Runs -> Slots]
      /\ handles \subseteq Runs /\ rec \in Table /\ 0 \in Slots
      /\ admin \in [Admins -> [stage : {"found", "canceled"}, target : Records]
                               \cup {NoRequest}]
  BY JobRunsAssumption DEF IInv, TypeOK, Table, Slots
<1>c. \A i \in Slots : i \in Nat
  BY JobRunsAssumption DEF Slots
<1>d. \A a \in Admins : admin[a] # NoRequest =>
          admin[a].target[1] \in Runs /\ admin[a].target[2] \in Slots
  BY DEF IInv, TypeOK, Records
<1>b. TypeOK /\ Fresh /\ Held /\ Requests /\ HandlesAreLive /\ RunningMeansLive
        /\ WorkingRunHoldsItsKey
  BY DEF IInv
<1>1. ASSUME NEW r \in Runs, Launch(r) PROVE WorkingRunHoldsItsKey'
  BY <1>1, <1>a, <1>b, <1>c
     DEF Launch, RegisterCancel, Goto, WorkingRunHoldsItsKey, Working, runVars, Table
<1>2. ASSUME NEW r \in Runs, CheckUnique(r) PROVE WorkingRunHoldsItsKey'
  BY <1>2, <1>a, <1>b, <1>c
     DEF CheckUnique, Goto, WorkingRunHoldsItsKey, Working, runVars, Table
<1>3. ASSUME NEW r \in Runs, StartJob(r) PROVE WorkingRunHoldsItsKey'
  <2>1. JobStarted(r)
    BY <1>3, <1>b, StartJobEffect
  <2> QED
    BY <1>a, <1>b, <1>c, <2>1
       DEF JobStarted, Only, Table, WorkingRunHoldsItsKey, Working
<1>4. ASSUME NEW r \in Runs, StepStart(r) PROVE WorkingRunHoldsItsKey'
  <2>1. StepStarted(r)
    BY <1>4, <1>b, StepStartEffect
  <2> QED
    BY <1>a, <1>b, <1>c, <2>1
       DEF StepStarted, Only, NextStep, Table, WorkingRunHoldsItsKey, Working
<1>5. ASSUME NEW r \in Runs, StepEnd(r) PROVE WorkingRunHoldsItsKey'
  <2>1. StepEnded(r)
    BY <1>5, <1>b, StepEndEffect
  <2> QED
    BY <1>a, <1>b, <1>c, <2>1
       DEF StepEnded, Only, Closed, SchemaStatuses, Table, WorkingRunHoldsItsKey, Working, Held
<1>6. ASSUME NEW r \in Runs, StepPanic(r) PROVE WorkingRunHoldsItsKey'
  BY <1>6, <1>a, <1>b, <1>c
     DEF StepPanic, Goto, WorkingRunHoldsItsKey, Working, runVars, Table
<1>7. ASSUME NEW r \in Runs, SkipStep(r) PROVE WorkingRunHoldsItsKey'
  <2>1. StepNoted(r)
    BY <1>7, <1>b, SkipStepEffect
  <2> QED
    BY <1>a, <1>b, <1>c, <2>1
       DEF StepNoted, Only, NextStep, Table, WorkingRunHoldsItsKey, Working
<1>8. ASSUME NEW r \in Runs, Partial(r) PROVE WorkingRunHoldsItsKey'
  BY <1>8, <1>a, <1>b, <1>c DEF Partial, WorkingRunHoldsItsKey, Working, runVars, Table
<1>9. ASSUME NEW r \in Runs, SkipParent(r) PROVE WorkingRunHoldsItsKey'
  BY <1>9, <1>a, <1>b, <1>c
     DEF SkipParent, Goto, WorkingRunHoldsItsKey, Working, runVars, Table
<1>10. ASSUME NEW r \in Runs, BodyReturn(r) PROVE WorkingRunHoldsItsKey'
  BY <1>10, <1>a, <1>b, <1>c
     DEF BodyReturn, Goto, WorkingRunHoldsItsKey, Working, runVars, Table
<1>11. ASSUME NEW r \in Runs, Decide(r) PROVE WorkingRunHoldsItsKey'
  BY <1>11, <1>a, <1>b, <1>c
     DEF Decide, Goto, WorkingRunHoldsItsKey, Working, runVars, Table
<1>12. ASSUME NEW r \in Runs, FinishJob(r) PROVE WorkingRunHoldsItsKey'
  <2>1. JobFinished(r)
    BY <1>12, <1>b, FinishJobEffect
  <2> QED
    BY <1>a, <1>b, <1>c, <2>1
       DEF JobFinished, Only, Closed, SchemaStatuses, Table, WorkingRunHoldsItsKey, Working
<1>13. ASSUME NEW r \in Runs, Unregister(r) PROVE WorkingRunHoldsItsKey'
  BY <1>13, <1>a, <1>b, <1>c
     DEF Unregister, UnregisterCancel, Goto, Forget, WorkingRunHoldsItsKey, Working,
         runVars, Table
<1>14. ASSUME NEW r \in Runs, Deadline(r) PROVE WorkingRunHoldsItsKey'
  BY <1>14, <1>a, <1>b, <1>c
     DEF Deadline, Done, WorkingRunHoldsItsKey, Working, runVars, Table
<1>15. ASSUME NEW r \in Runs, CallerDone(r) PROVE WorkingRunHoldsItsKey'
  BY <1>15, <1>a, <1>b, <1>c
     DEF CallerDone, Done, WorkingRunHoldsItsKey, Working, runVars, Table
<1>16. ASSUME NEW a \in Admins, CancelFind(a) PROVE WorkingRunHoldsItsKey'
  BY <1>16, <1>a, <1>b, <1>c
     DEF CancelFind, WorkingRunHoldsItsKey, Working, runVars, Table
<1>17. ASSUME NEW a \in Admins, CancelCall(a) PROVE WorkingRunHoldsItsKey'
  BY <1>17, <1>a, <1>b, <1>c
     DEF CancelCall, Cancel, Done, WorkingRunHoldsItsKey, Working, runVars, Table
<1>18. ASSUME NEW a \in Admins, CancelSave(a) PROVE WorkingRunHoldsItsKey'
  <2>1. CancelSaved(a)
    BY <1>18, <1>b, CancelSaveEffect
  <2>a. admin[a] # NoRequest
    BY <2>1 DEF CancelSaved, NoRequest
  <2> DEFINE t == admin[a].target[1]
             j == admin[a].target[2]
  <2>b. /\ t \in Runs /\ j \in Slots /\ t \notin handles
        /\ rec[t][j] # "none" /\ pc[t] # "idle"
        /\ Only(t, j) /\ (rec'[t][j] = "canceled" \/ UNCHANGED rec)
        /\ UNCHANGED <<pc, ctx, handles, stepNo, open, panicked>>
        /\ lost \subseteq lost'
    BY <1>b, <1>d, <2>1, <2>a DEF CancelSaved, Requests
  <2> HIDE DEF t, j
  <2> QED
    BY <1>a, <1>b, <2>b DEF WorkingRunHoldsItsKey, Working, Only
<1>19. CASE SweepLoad
  BY <1>19, <1>a, <1>b, <1>c
     DEF SweepLoad, WorkingRunHoldsItsKey, Working, runVars, Table
<1>20. ASSUME NEW x \in Records, SweepSkip(x) PROVE WorkingRunHoldsItsKey'
  BY <1>20, <1>a, <1>b, <1>c
     DEF SweepSkip, WorkingRunHoldsItsKey, Working, runVars, Table
<1>21. ASSUME NEW x \in Records, SweepCancel(x) PROVE WorkingRunHoldsItsKey'
  BY <1>21, <1>a, <1>b, <1>c
     DEF SweepCancel, Cancel, Done, WorkingRunHoldsItsKey, Working, runVars, Table
<1>22. ASSUME NEW x \in Records, SweepTimeout(x) PROVE WorkingRunHoldsItsKey'
  BY <1>22, <1>a, <1>b, <1>c
     DEF SweepTimeout, SchemaStatuses, WorkingRunHoldsItsKey, Working, runVars, Table
<1>23. CASE Crash
  BY <1>23, <1>a, <1>b, <1>c
     DEF Crash, Forget, WorkingRunHoldsItsKey, Working, runVars, Table
<1>24. CASE UNCHANGED vars
  BY <1>24, <1>a, <1>b, <1>c DEF vars, WorkingRunHoldsItsKey, Working
<1> QED
  BY <1>1, <1>2, <1>3, <1>4, <1>5, <1>6, <1>7, <1>8, <1>9, <1>10, <1>11, <1>12, <1>13,
     <1>14, <1>15, <1>16, <1>17, <1>18, <1>19, <1>20, <1>21, <1>22, <1>23, <1>24
     DEF Next, RunStep, Prepare, Step, Conclude, CancelJob, Sweep

-----------------------------------------------------------------------------
(* The theorems *)

\* The invariant holds before anything has been launched.
LEMMA InvariantInit == Init => IInv
<1> SUFFICES ASSUME Init PROVE IInv
  OBVIOUS
<1>1. TypeOK
  BY JobRunsAssumption
     DEF Init, TypeOK, PCs, Slots, SchemaStatuses, Closed, Counters, Records, NoRequest
<1>2. Fresh /\ Held /\ Requests
  BY DEF Init, Fresh, Held, Requests, Active, Working, NoRequest
<1>3. HandlesAreLive /\ RunningMeansLive /\ WorkingRunHoldsItsKey
  BY DEF Init, HandlesAreLive, RunningMeansLive, WorkingRunHoldsItsKey, Active, Working
<1> QED
  BY <1>1, <1>2, <1>3 DEF IInv

\* The invariant is inductive: every step of a run, a request, the sweep or a
\* process stop preserves all of its parts together.
LEMMA InvariantStep == IInv /\ [Next]_vars => IInv'
BY TypeStep, FreshStep, HeldStep, RequestsStep, HandlesStep, RunningStep, KeyStep
   DEF IInv

\* The invariant holds in every state of the job runner.
THEOREM Invariant == Spec => []IInv
BY InvariantInit, InvariantStep, PTL DEF Spec

\* Every variable keeps its type; in particular no status outside the schema
\* of job_runs is ever stored.
THEOREM TypeCorrect == Spec => []TypeOK
<1>1. IInv => TypeOK
  BY DEF IInv
<1> QED
  BY <1>1, Invariant, PTL

\* For any number of runs, steps and requests: a record says running only
\* while somebody will close it, or its process stopped, its closing save
\* failed or its step panicked.
THEOREM RunningIsLive == Spec => []RunningMeansLive
<1>1. IInv => RunningMeansLive
  BY DEF IInv
<1> QED
  BY <1>1, Invariant, PTL

\* For any number of runs: a run at work whose handle nobody took is visible
\* to the uniqueness check of every other run.
THEOREM WorkingRunIsVisible == Spec => []WorkingRunHoldsItsKey
<1>1. IInv => WorkingRunHoldsItsKey
  BY DEF IInv
<1> QED
  BY <1>1, Invariant, PTL

\* The registry never keeps the handle of a run that returned or whose process
\* stopped, and a run that lost its handle has been told to stop.
THEOREM RegistryIsLive == Spec => []HandlesAreLive
<1>1. IInv => HandlesAreLive
  BY DEF IInv
<1> QED
  BY <1>1, Invariant, PTL

-----------------------------------------------------------------------------
(* The job runner implements JobLifecycle *)

\* Nothing is admitted and no record exists at first.
LEMMA RefinesInit == Init => Lifecycle!Init
BY DEF Init, Lifecycle!Init, Phase

\* A step that leaves the table alone and every run in its phase is a stutter
\* of JobLifecycle.
LEMMA SamePhase ==
    ASSUME UNCHANGED rec, Phase' = Phase
    PROVE  UNCHANGED Lifecycle!lifecycleVars
BY DEF Lifecycle!lifecycleVars

\* A run that moves on without launching or leaving stays in its phase.
LEMMA MoveOn ==
    ASSUME pc \in [Runs -> PCs], NEW r \in Runs, NEW l \in PCs \ {"idle", "done", "dead"},
           pc' = [pc EXCEPT ![r] = l], Active(r)
    PROVE  Phase' = Phase
BY DEF Phase, Active

\* A change of one record of the table is a change of one record of the status.
LEMMA OneRecord ==
    ASSUME rec \in Table, rec' \in Table, NEW r \in Runs, NEW i \in Slots, Only(r, i)
    PROVE  rec' = [rec EXCEPT ![r][i] = rec'[r][i]]
<1>1. rec' = [q \in Runs |-> rec'[q]] /\ rec = [q \in Runs |-> rec[q]]
  BY DEF Table
<1>2. \A q \in Runs : q # r => rec'[q] = rec[q]
  BY DEF Only, Table
<1>3. rec'[r] = [rec[r] EXCEPT ![i] = rec'[r][i]]
  BY DEF Only, Table
<1> QED
  BY <1>1, <1>2, <1>3 DEF Table

\* Every step of the job runner is a step of JobLifecycle or changes nothing
\* of it.
LEMMA RefinesStep == IInv /\ [Next]_vars => [Lifecycle!Next]_Lifecycle!lifecycleVars
<1> DEFINE Goal == [Lifecycle!Next]_Lifecycle!lifecycleVars
<1> SUFFICES ASSUME IInv, [Next]_vars PROVE Goal
  OBVIOUS
<1>a. /\ pc \in [Runs -> PCs] /\ rec \in Table /\ rec' \in Table /\ 0 \in Slots
      /\ verdict \in [Runs -> Closed \cup {"none"}]
  BY TypeStep, JobRunsAssumption DEF IInv, TypeOK, Table, Slots
<1>b. TypeOK /\ Fresh /\ Held /\ Requests
  BY DEF IInv
<1>c. \A i \in Slots : i \in Nat
  BY JobRunsAssumption DEF Slots
<1>d. \A a \in Admins : admin[a] # NoRequest =>
          admin[a].target[1] \in Runs /\ admin[a].target[2] \in Slots
  BY DEF IInv, TypeOK, Records
<1>1. ASSUME NEW r \in Runs, Launch(r) PROVE Goal
  <2>1. Lifecycle!Admit(r)
    BY <1>1, <1>a DEF Launch, Goto, Lifecycle!Admit, Phase, PCs
  <2> QED
    BY <2>1 DEF Lifecycle!Next
<1>2. ASSUME NEW r \in Runs, CheckUnique(r) PROVE Goal
  BY <1>2, <1>a, MoveOn, SamePhase DEF CheckUnique, Goto, PCs, Active
<1>3. ASSUME NEW r \in Runs, StartJob(r) PROVE Goal
  <2>1. JobStarted(r)
    BY <1>3, <1>b, StartJobEffect
  <2>2. Phase' = Phase
    BY <2>1, <1>a, MoveOn DEF JobStarted, PCs, Active
  <2>3. CASE UNCHANGED rec
    BY <2>2, <2>3, SamePhase
  <2>4. CASE Only(r, 0) /\ rec'[r][0] = "running"
    <3>1. Lifecycle!Begin(r, 0)
      BY <1>a, <1>b, <2>1, <2>2, <2>4, OneRecord
         DEF Lifecycle!Begin, Phase, JobStarted, Fresh
    <3> QED
      BY <1>a, <3>1 DEF Lifecycle!Next
  <2> QED
    BY <2>1, <2>3, <2>4 DEF JobStarted
<1>4. ASSUME NEW r \in Runs, StepStart(r) PROVE Goal
  <2>1. StepStarted(r)
    BY <1>4, <1>b, StepStartEffect
  <2>2. Phase' = Phase
    BY <2>1, <1>a, MoveOn DEF StepStarted, PCs, Active
  <2>3. CASE UNCHANGED rec
    BY <2>2, <2>3, SamePhase
  <2>4. CASE Only(r, NextStep(r)) /\ rec'[r][NextStep(r)] = "running"
    <3>1. rec[r][NextStep(r)] = "none"
      <4>1. pc[r] = "body" /\ NextStep(r) \in Slots
        BY <2>1 DEF StepStarted
      <4>2. stepNo[r] \in Nat /\ NextStep(r) > stepNo[r]
        BY <1>b, <1>c DEF TypeOK, NextStep
      <4> QED
        BY <1>b, <4>1, <4>2 DEF Fresh, Active
    <3>2. Lifecycle!Begin(r, NextStep(r))
      BY <1>a, <2>1, <2>2, <2>4, <3>1, OneRecord DEF Lifecycle!Begin, Phase, StepStarted
    <3> QED
      BY <2>1, <3>2 DEF Lifecycle!Next, StepStarted
  <2> QED
    BY <2>1, <2>3, <2>4 DEF StepStarted
<1>5. ASSUME NEW r \in Runs, StepEnd(r) PROVE Goal
  <2>1. StepEnded(r)
    BY <1>5, <1>b, StepEndEffect
  <2>2. Phase' = Phase
    BY <2>1, <1>a, MoveOn DEF StepEnded, PCs, Active
  <2>3. CASE UNCHANGED rec
    BY <2>2, <2>3, SamePhase
  <2>4. CASE rec'[r][open[r]] \in Closed
    <3>1. open[r] \in Slots /\ rec[r][open[r]] \in {"running", "canceled"}
      BY <1>b, <2>1 DEF StepEnded, Held, TypeOK
    <3>2. Lifecycle!Settle(r, open[r], rec'[r][open[r]])
      BY <1>a, <2>1, <2>2, <2>4, <3>1, OneRecord DEF Lifecycle!Settle, Phase, StepEnded
    <3> QED
      BY <2>4, <3>1, <3>2 DEF Lifecycle!Next
  <2> QED
    BY <2>1, <2>3, <2>4 DEF StepEnded
<1>6. ASSUME NEW r \in Runs, StepPanic(r) PROVE Goal
  BY <1>6, <1>a, MoveOn, SamePhase DEF StepPanic, Goto, PCs, Active
<1>7. ASSUME NEW r \in Runs, SkipStep(r) PROVE Goal
  <2>1. StepNoted(r)
    BY <1>7, <1>b, SkipStepEffect
  <2>2. Phase' = Phase
    BY <2>1 DEF StepNoted, Phase
  <2>3. CASE UNCHANGED rec
    BY <2>2, <2>3, SamePhase
  <2> DEFINE i == NextStep(r)
  <2>4. i \in Slots /\ rec[r][i] = "none" /\ Phase[r] = "admitted"
    BY <1>b, <1>c, <2>1 DEF StepNoted, Fresh, Active, NextStep, TypeOK, Phase
  <2>5. CASE Only(r, i) /\ rec'[r][i] = "running"
    <3>1. Lifecycle!Begin(r, i)
      BY <1>a, <2>2, <2>4, <2>5, OneRecord DEF Lifecycle!Begin
    <3> QED
      BY <2>4, <3>1 DEF Lifecycle!Next
  <2>6. CASE Only(r, i) /\ rec'[r][i] = "skipped"
    <3>1. Lifecycle!Note(r, i, "skipped")
      BY <1>a, <2>2, <2>4, <2>6, OneRecord DEF Lifecycle!Note, Closed, SchemaStatuses
    <3> QED
      BY <2>4, <3>1 DEF Lifecycle!Next, Closed, SchemaStatuses
  <2> QED
    BY <2>1, <2>3, <2>5, <2>6 DEF StepNoted
<1>8. ASSUME NEW r \in Runs, Partial(r) PROVE Goal
  BY <1>8, SamePhase DEF Partial, Phase
<1>9. ASSUME NEW r \in Runs, SkipParent(r) PROVE Goal
  BY <1>9, <1>a, MoveOn, SamePhase DEF SkipParent, Goto, PCs, Active
<1>10. ASSUME NEW r \in Runs, BodyReturn(r) PROVE Goal
  BY <1>10, <1>a, MoveOn, SamePhase DEF BodyReturn, Goto, PCs, Active
<1>11. ASSUME NEW r \in Runs, Decide(r) PROVE Goal
  BY <1>11, <1>a, MoveOn, SamePhase DEF Decide, Goto, PCs, Active
<1>12. ASSUME NEW r \in Runs, FinishJob(r) PROVE Goal
  <2>1. JobFinished(r)
    BY <1>12, <1>b, FinishJobEffect
  <2>2. Phase' = Phase
    BY <2>1, <1>a, MoveOn DEF JobFinished, PCs, Active
  <2>3. CASE UNCHANGED rec
    BY <2>2, <2>3, SamePhase
  <2>4. CASE rec'[r][0] \in Closed
    <3>1. rec[r][0] \in {"running", "canceled"}
      BY <1>b, <2>1 DEF JobFinished, Held, Working
    <3>2. Lifecycle!Settle(r, 0, rec'[r][0])
      BY <1>a, <2>1, <2>2, <2>4, <3>1, OneRecord
         DEF Lifecycle!Settle, Phase, JobFinished
    <3> QED
      BY <1>a, <2>4, <3>2 DEF Lifecycle!Next
  <2> QED
    BY <2>1, <2>3, <2>4 DEF JobFinished
<1>13. ASSUME NEW r \in Runs, Unregister(r) PROVE Goal
  <2>1. Lifecycle!Retire({r})
    BY <1>13, <1>a DEF Unregister, Goto, Lifecycle!Retire, Phase
  <2> QED
    BY <2>1 DEF Lifecycle!Next
<1>14. ASSUME NEW r \in Runs, Deadline(r) PROVE Goal
  BY <1>14, SamePhase DEF Deadline, Phase
<1>15. ASSUME NEW r \in Runs, CallerDone(r) PROVE Goal
  BY <1>15, SamePhase DEF CallerDone, Phase
<1>16. ASSUME NEW a \in Admins, CancelFind(a) PROVE Goal
  BY <1>16, SamePhase DEF CancelFind, Phase
<1>17. ASSUME NEW a \in Admins, CancelCall(a) PROVE Goal
  BY <1>17, SamePhase DEF CancelCall, Phase
<1>18. ASSUME NEW a \in Admins, CancelSave(a) PROVE Goal
  <2>1. CancelSaved(a)
    BY <1>18, <1>b, CancelSaveEffect
  <2>2. Phase' = Phase
    BY <2>1 DEF CancelSaved, Phase
  <2>3. CASE UNCHANGED rec
    BY <2>2, <2>3, SamePhase
  <2> DEFINE r == admin[a].target[1]
             i == admin[a].target[2]
  <2>4. admin[a] # NoRequest
    BY <2>1 DEF CancelSaved, NoRequest
  <2>5. r \in Runs /\ i \in Slots /\ rec[r][i] # "none" /\ pc[r] # "idle" /\ Only(r, i)
    BY <1>b, <1>d, <2>1, <2>4 DEF CancelSaved, Requests
  <2>6. rec'[r][i] = "canceled" \/ UNCHANGED rec
    BY <2>1 DEF CancelSaved
  <2> HIDE DEF r, i
  <2>7. CASE rec'[r][i] = "canceled"
    <3>1. Lifecycle!Amend(r, i)
      BY <1>a, <2>2, <2>5, <2>7, OneRecord DEF Lifecycle!Amend, Phase
    <3> QED
      BY <2>5, <3>1 DEF Lifecycle!Next
  <2> QED
    BY <2>3, <2>6, <2>7
<1>19. CASE SweepLoad
  BY <1>19, SamePhase DEF SweepLoad, Phase
<1>20. ASSUME NEW x \in Records, SweepSkip(x) PROVE Goal
  BY <1>20, SamePhase DEF SweepSkip, Phase
<1>21. ASSUME NEW x \in Records, SweepCancel(x) PROVE Goal
  BY <1>21, SamePhase DEF SweepCancel, Phase
<1>22. ASSUME NEW x \in Records, SweepTimeout(x) PROVE Goal
  BY <1>22, SamePhase DEF SweepTimeout, SchemaStatuses, Phase
<1>23. CASE Crash
  <2> DEFINE S == {r \in Runs : Active(r)}
  <2>1. Lifecycle!Retire(S)
    BY <1>23, <1>a DEF Crash, Active, Lifecycle!Retire, Phase
  <2> QED
    BY <2>1 DEF Lifecycle!Next
<1>24. CASE UNCHANGED vars
  BY <1>24, SamePhase DEF vars, Phase
<1> QED
  BY <1>1, <1>2, <1>3, <1>4, <1>5, <1>6, <1>7, <1>8, <1>9, <1>10, <1>11, <1>12,
     <1>13, <1>14, <1>15, <1>16, <1>17, <1>18, <1>19, <1>20, <1>21, <1>22, <1>23, <1>24
     DEF Next, RunStep, Prepare, Step, Conclude, CancelJob, Sweep

\* Whatever the runner, the admins, the sweep and process stops do, the table
\* of job runs behaves as JobLifecycle promises.
THEOREM ImplementsLifecycle == Spec => RefinesLifecycle
BY RefinesInit, RefinesStep, Invariant, PTL DEF Spec, RefinesLifecycle, Lifecycle!Spec
-----------------------------------------------------------------------------
(* What the runner has counted agrees with the records *)

\* What a run has counted, without the other runs.
RunReckoned(r) ==
    /\ pc[r] \in {"idle", "check", "start"} => tally[r] = {} /\ flags[r] = {}
    /\ Undisturbed(r) =>
          /\ pc[r] \in {"body", "step", "decide"} => Accounted(r)
          /\ pc[r] = "finish" => BornOut(r, verdict[r])
          /\ pc[r] = "unregister" => BornOut(r, rec[r][0])

\* Nothing forgets that a run was disturbed.
LEMMA StaysDisturbed ==
    ASSUME NEW r \in Runs, lost \subseteq lost', ctx'[r] = ctx[r] \/ ctx[r] = "live",
           Undisturbed(r)'
    PROVE  Undisturbed(r)
BY DEF Undisturbed

\* A run that does not move stays reckoned, also when one of its records becomes
\* canceled.
LEMMA BystanderStep ==
    ASSUME NEW q \in Runs, RunReckoned(q), 0 \in Slots,
           lost \subseteq lost', ctx'[q] = ctx[q] \/ ctx[q] = "live",
           pc'[q] = pc[q], open'[q] = open[q], critical'[q] = critical[q],
           tally'[q] = tally[q], flags'[q] = flags[q], verdict'[q] = verdict[q],
           \A j \in Slots : rec'[q][j] = rec[q][j] \/ rec'[q][j] = "canceled"
    PROVE  RunReckoned(q)'
<1>1. /\ StepsOf(q, {"failed"})' \subseteq StepsOf(q, {"failed"})
      /\ StepsOf(q, {"running"})' \subseteq StepsOf(q, {"running"})
      /\ StepsOf(q, {"failed", "running"})' \subseteq StepsOf(q, {"failed", "running"})
      /\ StepsOf(q, {"success", "canceled"}) \subseteq StepsOf(q, {"success", "canceled"})'
  BY DEF StepsOf
<1>2. Undisturbed(q)' => Undisturbed(q)
  BY StaysDisturbed
<1>3. Accounted(q) => Accounted(q)'
  BY <1>1 DEF Accounted
<1>4. \A s : BornOut(q, s) => BornOut(q, s)'
  BY <1>1 DEF BornOut
<1>5. BornOut(q, verdict[q]) => BornOut(q, verdict[q])'
  BY <1>4
<1>6. BornOut(q, rec[q][0]) => BornOut(q, rec[q][0])'
  BY <1>4 DEF BornOut
<1> QED
  BY <1>2, <1>3, <1>5, <1>6 DEF RunReckoned

\* One run moves, the others stand by.
LEMMA OneMoves ==
    ASSUME Reckoned, 0 \in Slots, NEW r \in Runs, RunReckoned(r)', lost \subseteq lost',
           \A q \in Runs \ {r} :
              /\ ctx'[q] = ctx[q] /\ pc'[q] = pc[q] /\ open'[q] = open[q]
              /\ critical'[q] = critical[q] /\ tally'[q] = tally[q]
              /\ flags'[q] = flags[q] /\ verdict'[q] = verdict[q]
              /\ \A j \in Slots : rec'[q][j] = rec[q][j]
    PROVE  Reckoned'
<1>1. ASSUME NEW q \in Runs PROVE RunReckoned(q)'
  <2>1. RunReckoned(q)
    BY DEF Reckoned, RunReckoned
  <2> QED
    BY <2>1, BystanderStep
<1> QED
  BY <1>1 DEF Reckoned, RunReckoned

\* Opening a step's record, or failing to.
LEMMA ReckonStepStart ==
    ASSUME TypeOK, Fresh, NEW r \in Runs, RunReckoned(r), StepStart(r)
    PROVE  RunReckoned(r)'
<1>a. /\ pc \in [Runs -> PCs] /\ open \in [Runs -> Slots] /\ stepNo \in [Runs -> Slots]
      /\ critical \in [Runs -> SUBSET Slots] /\ tally \in [Runs -> SUBSET Counters]
      /\ flags \in [Runs -> SUBSET {"partialErr", "skipped", "runErr"}] /\ rec \in Table
  BY DEF TypeOK, Table
<1>1. pc[r] = "body" /\ UNCHANGED <<ctx, lost>>
  BY DEF StepStart
<1>2. Undisturbed(r)' => Undisturbed(r)
  BY <1>1 DEF Undisturbed
<1>3. Undisturbed(r) => Accounted(r)
  BY <1>1 DEF RunReckoned
<1>4. NextStep(r) \in Slots \ {0} /\ rec[r][NextStep(r)] = "none"
  <2>1. NextStep(r) \in Slots \ {0}
    BY JobRunsAssumption, <1>a DEF Slots, NextStep, StepStart
  <2>2. Active(r) /\ NextStep(r) > stepNo[r]
    BY JobRunsAssumption, <1>1, <1>a DEF Active, NextStep, Slots
  <2> QED
    BY <2>1, <2>2 DEF Fresh
<1>5. ASSUME NEW c \in BOOLEAN, StepOpened(r, c) PROVE RunReckoned(r)'
  <2> DEFINE i == NextStep(r)
  <2>1. /\ Only(r, i) /\ rec'[r][i] = "running"
    BY <1>4, <1>5, <1>a, InsertEffect DEF StepOpened
  <2>2. /\ pc'[r] = "step" /\ open'[r] = i /\ flags' = flags
        /\ tally'[r] = tally[r] \cup {"started"}
        /\ critical[r] \subseteq critical'[r] /\ critical'[r] \subseteq critical[r] \cup {i}
    BY <1>5, <1>a DEF StepOpened, Goto, Count
  <2> HIDE DEF i
  <2>3. i \in Slots \ {0} /\ rec[r][i] = "none"
    BY <1>4 DEF i
  <2>4. /\ StepsOf(r, {"failed"})' = StepsOf(r, {"failed"})
        /\ StepsOf(r, {"running"})' = StepsOf(r, {"running"}) \cup {i}
        /\ StepsOf(r, {"success", "canceled"})' = StepsOf(r, {"success", "canceled"})
        /\ i \notin StepsOf(r, {"success", "canceled"}) /\ i \notin StepsOf(r, {"failed"})
    BY <2>1, <2>3 DEF Only, StepsOf
  <2>5. Accounted(r) => Accounted(r)'
    BY <1>1, <2>2, <2>4 DEF Accounted
  <2> QED
    BY <1>2, <1>3, <2>2, <2>5 DEF RunReckoned
<1>6. ASSUME NEW c \in BOOLEAN, StepNotOpened(r, c) PROVE RunReckoned(r)'
  <2>1. /\ UNCHANGED <<rec, open, critical>>
        /\ flags'[r] = flags[r] \cup (IF c THEN {"runErr"} ELSE {"partialErr"})
        /\ tally'[r] = tally[r] \cup {"started", Failed(c)}
        /\ pc'[r] = (IF c THEN "decide" ELSE "body")
    BY <1>6, <1>a DEF StepNotOpened, AfterFailure, Flag, Goto, Count
  <2>2. \A S : StepsOf(r, S)' = StepsOf(r, S)
    BY <2>1 DEF StepsOf
  <2>3. Failed(c) # "succeeded"
    BY DEF Failed
  <2>4. Accounted(r) => Accounted(r)'
    BY <1>1, <2>1, <2>2, <2>3 DEF Accounted
  <2> QED
    BY <1>2, <1>3, <2>1, <2>4 DEF RunReckoned
<1> QED
  BY <1>5, <1>6 DEF StepStart

\* Closing a step's record.
LEMMA ReckonStepEnd ==
    ASSUME TypeOK, Held, NEW r \in Runs, RunReckoned(r), StepEnd(r)
    PROVE  RunReckoned(r)'
<1> DEFINE i == open[r]
<1>a. /\ pc \in [Runs -> PCs] /\ open \in [Runs -> Slots]
      /\ critical \in [Runs -> SUBSET Slots] /\ tally \in [Runs -> SUBSET Counters]
      /\ flags \in [Runs -> SUBSET {"partialErr", "skipped", "runErr"}] /\ rec \in Table
      /\ lost \subseteq Records
  BY DEF TypeOK, Table
<1>1. /\ pc[r] = "step" /\ UNCHANGED <<ctx, critical, verdict>> /\ open'[r] = 0
  BY <1>a DEF StepEnd
<1>2. i \in Slots \ {0} /\ rec[r][i] \in {"running", "canceled"}
  BY <1>1, <1>a DEF Held
<1>3. Undisturbed(r) => Accounted(r)
  BY <1>1 DEF RunReckoned
<1>4. ASSUME NEW s \in {"canceled", "failed", "success"}, Save(r, i, s),
             Undisturbed(r)'
      PROVE  /\ Only(r, i) /\ rec'[r][i] = s
             /\ Undisturbed(r)
  <2>1. /\ lost \subseteq lost' /\ Only(r, i)
        /\ (rec'[r][i] = s \/ <<r, i>> \in lost')
    BY <1>2, <1>4, <1>a, SaveEffect
  <2>2. <<r, i>> \notin lost'
    BY <1>2, <1>4 DEF Undisturbed
  <2> QED
    BY <1>1, <1>4, <2>1, <2>2, StaysDisturbed
<1> HIDE DEF i
<1>5. CASE StepSucceeded(r)
  <2>1. /\ Save(r, i, "success") /\ pc'[r] = "body" /\ flags' = flags
        /\ tally'[r] = tally[r] \cup {"succeeded"}
    BY <1>5, <1>a DEF StepSucceeded, Count, Goto, i
  <2>2. SUFFICES ASSUME Undisturbed(r)' PROVE Accounted(r)'
    BY <2>1 DEF RunReckoned
  <2>3. Only(r, i) /\ rec'[r][i] = "success" /\ Accounted(r)
    BY <1>3, <1>4, <2>1, <2>2
  <2>4. /\ StepsOf(r, {"failed"})' \subseteq StepsOf(r, {"failed"})
        /\ StepsOf(r, {"running"})' \subseteq StepsOf(r, {"running"}) \ {i}
        /\ i \in StepsOf(r, {"success", "canceled"})'
    BY <1>2, <2>3 DEF Only, StepsOf
  <2> QED
    BY <1>1, <2>1, <2>3, <2>4 DEF Accounted, i
<1>6. ASSUME NEW s \in {"canceled", "failed"}, StepFailed(r, s) PROVE RunReckoned(r)'
  <2> DEFINE c == i \in critical[r]
  <2>1. /\ Save(r, i, s) /\ pc'[r] = (IF c THEN "decide" ELSE "body")
        /\ flags'[r] = flags[r] \cup (IF c THEN {"runErr"} ELSE {"partialErr"})
        /\ tally'[r] = tally[r] \cup {Failed(c)}
    BY <1>6, <1>a DEF StepFailed, AfterFailure, Flag, Count, Goto, i
  <2>2. SUFFICES ASSUME Undisturbed(r)' PROVE Accounted(r)'
    BY <2>1 DEF RunReckoned
  <2>3. Only(r, i) /\ rec'[r][i] = s /\ Accounted(r)
    BY <1>3, <1>4, <2>1, <2>2
  <2>4. /\ StepsOf(r, {"failed"})' \subseteq StepsOf(r, {"failed"}) \cup {i}
        /\ StepsOf(r, {"running"})' \subseteq StepsOf(r, {"running"}) \ {i}
        /\ StepsOf(r, {"success", "canceled"}) \ {i} \subseteq StepsOf(r, {"success", "canceled"})'
    BY <1>2, <2>3 DEF Only, StepsOf
  <2>5. "skipped" \notin flags'[r] /\ (c => "criticalFailed" \in tally'[r])
    BY <1>1, <2>1, <2>3 DEF Accounted, Failed
  <2>6. "succeeded" \in tally'[r] => "succeeded" \in tally[r]
    BY <2>1 DEF Failed
  <2>7. StepsOf(r, {"failed"}) \cap critical[r] = {}
    BY <1>1, <2>3 DEF Accounted
  <2>8. \A j \in StepsOf(r, {"running"})' : "runErr" \in flags'[r]
    BY <1>1, <2>1, <2>3, <2>4 DEF Accounted, i
  <2>9. "succeeded" \in tally[r] => \E j \in StepsOf(r, {"success", "canceled"}) : j # i
    BY <1>1, <2>3 DEF Accounted, i
  <2> QED
    BY <1>1, <2>1, <2>4, <2>5, <2>6, <2>7, <2>8, <2>9 DEF Accounted
<1> QED
  BY <1>5, <1>6 DEF StepEnd

\* Noting a skipped step.
LEMMA ReckonSkipStep ==
    ASSUME TypeOK, Fresh, NEW r \in Runs, RunReckoned(r), SkipStep(r)
    PROVE  RunReckoned(r)'
<1> DEFINE i == NextStep(r)
<1>a. /\ tally \in [Runs -> SUBSET Counters] /\ stepNo \in [Runs -> Slots]
      /\ flags \in [Runs -> SUBSET {"partialErr", "skipped", "runErr"}] /\ rec \in Table
  BY DEF TypeOK, Table
<1>1. StepNoted(r) /\ critical' = critical
  BY SkipStepEffect DEF SkipStep
<1>2. /\ pc[r] \in {"body", "step"} /\ UNCHANGED <<pc, ctx, open>> /\ lost \subseteq lost'
  BY <1>1 DEF StepNoted
<1>3. /\ tally'[r] \subseteq tally[r] \cup {"started", "nonCriticalFailed"}
      /\ flags'[r] = flags[r] \/ flags'[r] = flags[r] \cup {"partialErr"}
  BY <1>a DEF SkipStep, StepSkipped, StepNotSkipped, Count, Flag
<1>4. i \in Slots \ {0} /\ rec[r][i] = "none"
  <2>1. i \in Slots \ {0}
    BY <1>1 DEF StepNoted
  <2>2. Active(r) /\ i > stepNo[r]
    BY JobRunsAssumption, <1>2, <1>a DEF Active, NextStep, Slots
  <2> QED
    BY <2>1, <2>2 DEF Fresh
<1>5. ASSUME Undisturbed(r)' PROVE Accounted(r)'
  <2>1. Accounted(r)
    BY <1>2, <1>5, StaysDisturbed DEF RunReckoned
  <2>2. (Only(r, i) /\ rec'[r][i] = "skipped") \/ rec' = rec
    <3>1. <<r, i>> \notin lost'
      BY <1>4, <1>5 DEF Undisturbed
    <3> QED
      BY <1>1, <3>1 DEF StepNoted
  <2> HIDE DEF i
  <2>3. /\ StepsOf(r, {"failed"})' = StepsOf(r, {"failed"})
        /\ StepsOf(r, {"running"})' = StepsOf(r, {"running"})
        /\ StepsOf(r, {"success", "canceled"})' = StepsOf(r, {"success", "canceled"})
    BY <1>4, <2>2 DEF Only, StepsOf
  <2> QED
    BY <1>1, <1>2, <1>3, <2>1, <2>3 DEF Accounted
<1> QED
  BY <1>2, <1>5 DEF RunReckoned

\* The verdict is borne out by what was counted.
LEMMA ReckonDecide ==
    ASSUME TypeOK, NEW r \in Runs, RunReckoned(r), Decide(r)
    PROVE  RunReckoned(r)'
<1>1. /\ pc[r] = "decide" /\ pc'[r] = "finish" /\ verdict'[r] = FinalStatus(r)
      /\ UNCHANGED <<ctx, rec, lost, critical>>
  BY DEF Decide, Goto, TypeOK
<1>2. ctx[r] \in {"live", "canceled", "deadline"}
  BY DEF TypeOK
<1>3. SUFFICES ASSUME Undisturbed(r) PROVE BornOut(r, FinalStatus(r))
  BY <1>1 DEF RunReckoned, Undisturbed, BornOut, StepsOf
<1>4. Accounted(r) /\ ctx[r] # "deadline"
  BY <1>1, <1>3 DEF RunReckoned, Undisturbed
<1>5. FinalStatus(r) = "skipped" => "skipped" \in flags[r]
  BY <1>2 DEF FinalStatus
<1>6. FinalStatus(r) = "success" => "runErr" \notin flags[r] /\ "partialErr" \notin flags[r]
  BY <1>2, <1>4 DEF FinalStatus
<1>7. FinalStatus(r) = "partial" => ShouldFinalizeAsPartial(r)
  BY <1>2, <1>4 DEF FinalStatus
<1>8. StepsOf(r, {"failed", "running"}) = StepsOf(r, {"failed"}) \cup StepsOf(r, {"running"})
  BY DEF StepsOf
<1> QED
  BY <1>1, <1>4, <1>5, <1>6, <1>7, <1>8 DEF BornOut, Accounted, ShouldFinalizeAsPartial

\* What the runner counts keeps agreeing with the records of its steps.
LEMMA ReckonedStep == IInv /\ Reckoned /\ [Next]_vars => Reckoned'
<1> SUFFICES ASSUME IInv, Reckoned, [Next]_vars PROVE Reckoned'
  OBVIOUS
<1>a. /\ pc \in [Runs -> PCs] /\ ctx \in [Runs -> {"live", "canceled", "deadline"}]
      /\ open \in [Runs -> Slots] /\ stepNo \in [Runs -> Slots]
      /\ critical \in [Runs -> SUBSET Slots] /\ tally \in [Runs -> SUBSET Counters]
      /\ flags \in [Runs -> SUBSET {"partialErr", "skipped", "runErr"}]
      /\ verdict \in [Runs -> Closed \cup {"none"}]
      /\ rec \in Table /\ 0 \in Slots /\ TypeOK /\ Fresh /\ Held
  BY JobRunsAssumption DEF IInv, TypeOK, Table, Slots
<1>b. \A r \in Runs : RunReckoned(r)
  BY DEF Reckoned, RunReckoned
<1>c. ASSUME lost \subseteq lost', UNCHANGED <<pc, open, critical, tally, flags, verdict>>,
             \A q \in Runs : ctx'[q] = ctx[q] \/ ctx[q] = "live",
             \A q \in Runs, j \in Slots : rec'[q][j] = rec[q][j] \/ rec'[q][j] = "canceled"
      PROVE  Reckoned'
  <2>1. \A q \in Runs : RunReckoned(q)'
    BY <1>a, <1>b, <1>c, BystanderStep
  <2> QED
    BY <2>1 DEF Reckoned, RunReckoned
<1>1. ASSUME NEW r \in Runs, Launch(r) PROVE Reckoned'
  <2>1. RunReckoned(r)'
    BY <1>1, <1>a, <1>b DEF Launch, Goto, RunReckoned, runVars
  <2> QED
    BY <1>1, <1>a, <2>1, OneMoves DEF Launch, Goto, runVars
<1>2. ASSUME NEW r \in Runs, CheckUnique(r) PROVE Reckoned'
  <2>1. rec'[r][0] = "none" /\ pc'[r] \in {"start", "unregister"}
    BY <1>2, <1>a DEF CheckUnique, Goto, Fresh
  <2>2. tally'[r] = {} /\ flags'[r] = {}
    BY <1>2, <1>b DEF CheckUnique, RunReckoned, runVars
  <2>3. RunReckoned(r)'
    BY <2>1, <2>2 DEF RunReckoned, BornOut
  <2> QED
    BY <1>2, <1>a, <2>3, OneMoves DEF CheckUnique, Goto, runVars
<1>3. ASSUME NEW r \in Runs, StartJob(r) PROVE Reckoned'
  <2>1. /\ pc[r] = "start" /\ UNCHANGED <<ctx, open, critical, tally, flags, verdict, lost>>
        /\ tally[r] = {} /\ flags[r] = {}
    BY <1>3, <1>b DEF StartJob, RunReckoned, runVars
  <2>2. \A j \in Slots : rec[r][j] = "none"
    BY <1>a, <2>1 DEF Fresh
  <2>3. ASSUME Insert(r, 0), Goto(r, "body") PROVE Reckoned'
    <3>1. Only(r, 0) /\ pc' = [pc EXCEPT ![r] = "body"]
      BY <1>a, <2>3, InsertEffect DEF Goto
    <3>2. \A S : "none" \notin S => StepsOf(r, S)' = {}
      BY <2>2, <3>1 DEF StepsOf, Only
    <3>3. Accounted(r)'
      BY <2>1, <3>2 DEF Accounted
    <3>4. RunReckoned(r)'
      BY <1>a, <3>1, <3>3 DEF RunReckoned
    <3> QED
      BY <1>a, <2>1, <3>1, <3>4, OneMoves DEF Only
  <2>4. ASSUME UNCHANGED rec, Goto(r, "unregister") PROVE Reckoned'
    <3>1. RunReckoned(r)'
      BY <1>a, <2>2, <2>4 DEF RunReckoned, BornOut, Goto
    <3> QED
      BY <1>a, <2>1, <2>4, <3>1, OneMoves DEF Goto
  <2> QED
    BY <1>3, <2>3, <2>4 DEF StartJob
<1>4. ASSUME NEW r \in Runs, StepStart(r) PROVE Reckoned'
  <2>1. RunReckoned(r)'
    BY <1>4, <1>a, <1>b, ReckonStepStart
  <2>2. StepStarted(r)
    BY <1>4, <1>a, StepStartEffect
  <2>3. \A q \in Runs \ {r} :
           /\ critical'[q] = critical[q] /\ tally'[q] = tally[q] /\ flags'[q] = flags[q]
    BY <1>4, <1>a DEF StepStart, StepOpened, StepNotOpened, Count, Flag, AfterFailure
  <2>4. \A q \in Runs \ {r} :
           /\ ctx'[q] = ctx[q] /\ pc'[q] = pc[q] /\ open'[q] = open[q]
           /\ \A j \in Slots : rec'[q][j] = rec[q][j]
    BY <1>a, <2>2 DEF StepStarted, Only
  <2>5. verdict' = verdict /\ lost' = lost
    BY <1>4 DEF StepStart
  <2> QED
    BY <1>a, <2>1, <2>3, <2>4, <2>5, OneMoves
<1>5. ASSUME NEW r \in Runs, StepEnd(r) PROVE Reckoned'
  <2>1. RunReckoned(r)'
    BY <1>5, <1>a, <1>b, ReckonStepEnd
  <2>2. StepEnded(r)
    BY <1>5, <1>a, StepEndEffect
  <2>3. \A q \in Runs \ {r} : tally'[q] = tally[q] /\ flags'[q] = flags[q]
    BY <1>5, <1>a DEF StepEnd, StepFailed, StepSucceeded, Count, Flag, AfterFailure
  <2>4. \A q \in Runs \ {r} :
           /\ ctx'[q] = ctx[q] /\ pc'[q] = pc[q] /\ open'[q] = open[q]
           /\ \A j \in Slots : rec'[q][j] = rec[q][j]
    BY <1>a, <2>2 DEF StepEnded, Only
  <2>5. verdict' = verdict /\ critical' = critical /\ lost \subseteq lost'
    BY <1>5, <2>2 DEF StepEnd, StepEnded
  <2> QED
    BY <1>a, <2>1, <2>3, <2>4, <2>5, OneMoves
<1>6. ASSUME NEW r \in Runs, StepPanic(r) PROVE Reckoned'
  <2>1. /\ pc[r] = "step" /\ pc'[r] = "decide" /\ flags'[r] = flags[r] \cup {"runErr"}
        /\ open'[r] = 0 /\ UNCHANGED <<ctx, rec, critical, tally, lost>>
    BY <1>6, <1>a DEF StepPanic, Flag, Goto
  <2>2. Undisturbed(r) => Accounted(r)
    BY <1>b, <2>1 DEF RunReckoned
  <2>3. \A S : StepsOf(r, S)' = StepsOf(r, S)
    BY <2>1 DEF StepsOf
  <2>4. Accounted(r) => Accounted(r)'
    BY <2>1, <2>3 DEF Accounted
  <2>5. RunReckoned(r)'
    BY <2>1, <2>2, <2>4 DEF RunReckoned, Undisturbed
  <2> QED
    BY <1>6, <1>a, <2>5, OneMoves DEF StepPanic, Flag, Goto
<1>7. ASSUME NEW r \in Runs, SkipStep(r) PROVE Reckoned'
  <2>1. RunReckoned(r)'
    BY <1>7, <1>a, <1>b, ReckonSkipStep
  <2>2. StepNoted(r)
    BY <1>7, <1>a, SkipStepEffect
  <2>3. \A q \in Runs \ {r} : tally'[q] = tally[q] /\ flags'[q] = flags[q]
    BY <1>7, <1>a DEF SkipStep, StepSkipped, StepNotSkipped, Count, Flag
  <2>4. \A q \in Runs \ {r} : \A j \in Slots : rec'[q][j] = rec[q][j]
    BY <2>2 DEF StepNoted, Only
  <2>5. UNCHANGED <<pc, ctx, open, critical, verdict>> /\ lost \subseteq lost'
    BY <1>7, <2>2 DEF SkipStep, StepNoted
  <2> QED
    BY <1>a, <2>1, <2>3, <2>4, <2>5, OneMoves
<1>8. ASSUME NEW r \in Runs, Partial(r) \/ SkipParent(r) \/ BodyReturn(r) PROVE Reckoned'
  <2>1. /\ pc[r] \in {"body", "step"} /\ UNCHANGED <<ctx, rec, open, critical, tally, lost>>
        /\ \/ pc' = pc /\ flags'[r] = flags[r] \cup {"partialErr"}
           \/ /\ pc[r] = "body" /\ pc'[r] = "decide"
              /\ flags'[r] \in {flags[r], flags[r] \cup {"runErr"}, flags[r] \cup {"skipped"}}
    BY <1>8, <1>a DEF Partial, SkipParent, BodyReturn, Flag, Goto
  <2>2. Undisturbed(r) => Accounted(r)
    BY <1>b, <2>1 DEF RunReckoned
  <2>3. \A S : StepsOf(r, S)' = StepsOf(r, S)
    BY <2>1 DEF StepsOf
  <2>4. Accounted(r) => Accounted(r)'
    BY <2>1, <2>3 DEF Accounted
  <2>5. RunReckoned(r)'
    BY <2>1, <2>2, <2>4 DEF RunReckoned, Undisturbed
  <2> QED
    BY <1>8, <1>a, <2>5, OneMoves DEF Partial, SkipParent, BodyReturn, Flag, Goto
<1>9. ASSUME NEW r \in Runs, Decide(r) PROVE Reckoned'
  <2>1. RunReckoned(r)'
    BY <1>9, <1>a, <1>b, ReckonDecide
  <2> QED
    BY <1>9, <1>a, <2>1, OneMoves DEF Decide, Goto
<1>10. ASSUME NEW r \in Runs, FinishJob(r) PROVE Reckoned'
  <2>1. /\ pc[r] = "finish" /\ pc' = [pc EXCEPT ![r] = "unregister"]
        /\ UNCHANGED <<ctx, open, critical, tally, flags, verdict>>
        /\ Save(r, 0, verdict[r])
    BY <1>10 DEF FinishJob, Goto, runVars
  <2>2. /\ lost \subseteq lost' /\ Only(r, 0)
        /\ rec'[r][0] = verdict[r] \/ <<r, 0>> \in lost'
    BY <1>a, <2>1, SaveEffect DEF TypeOK
  <2>3. \A S : StepsOf(r, S)' = StepsOf(r, S)
    BY <2>2 DEF StepsOf, Only
  <2>4. ASSUME Undisturbed(r)' PROVE BornOut(r, rec[r][0])'
    <3>1. BornOut(r, verdict[r]) /\ rec'[r][0] = verdict[r]
      BY <1>a, <1>b, <2>1, <2>2, <2>4, StaysDisturbed DEF RunReckoned, Undisturbed
    <3> QED
      BY <2>1, <2>3, <3>1 DEF BornOut
  <2>5. RunReckoned(r)'
    BY <1>a, <2>1, <2>4 DEF RunReckoned
  <2> QED
    BY <1>a, <2>1, <2>2, <2>5, OneMoves DEF Only
<1>11. ASSUME NEW r \in Runs, Unregister(r) PROVE Reckoned'
  <2>1. RunReckoned(r)'
    BY <1>11, <1>a DEF Unregister, Goto, RunReckoned
  <2> QED
    BY <1>11, <1>a, <2>1, OneMoves DEF Unregister, Goto, Forget
<1>12. ASSUME NEW r \in Runs, Deadline(r) \/ CallerDone(r) PROVE Reckoned'
  BY <1>12, <1>a, <1>c DEF Deadline, CallerDone, Done, runVars
<1>13. ASSUME NEW a \in Admins, CancelFind(a) \/ CancelCall(a) PROVE Reckoned'
  BY <1>13, <1>a, <1>c DEF CancelFind, CancelCall, Cancel, Done, runVars
<1>14. ASSUME NEW a \in Admins, CancelSave(a) PROVE Reckoned'
  <2>1. CancelSaved(a)
    BY <1>14, <1>a, CancelSaveEffect
  <2>2. /\ UNCHANGED <<pc, ctx, open, critical, tally, flags, verdict>> /\ lost \subseteq lost'
        /\ \A q \in Runs, j \in Slots : rec'[q][j] = rec[q][j] \/ rec'[q][j] = "canceled"
    BY <1>14, <2>1 DEF CancelSave, CancelSaved, Only, runVars
  <2> QED
    BY <1>c, <2>2
<1>15. CASE SweepLoad \/ \E x \in Records : SweepSkip(x) \/ SweepCancel(x) \/ SweepTimeout(x)
  BY <1>15, <1>a, <1>c
     DEF SweepLoad, SweepSkip, SweepCancel, SweepTimeout, Cancel, Done, SchemaStatuses, runVars
<1>16. CASE Crash
  <2>1. \A q \in Runs : /\ tally'[q] = {} /\ flags'[q] = {}
                        /\ pc'[q] \in {"idle", "done", "dead"}
    BY <1>16, <1>a DEF Crash, Forget, Active
  <2> QED
    BY <2>1 DEF Reckoned
<1>17. CASE UNCHANGED vars
  BY <1>17, <1>c DEF vars
<1> QED
  BY <1>1, <1>2, <1>3, <1>4, <1>5, <1>6, <1>7, <1>8, <1>9, <1>10, <1>11, <1>12, <1>13,
     <1>14, <1>15, <1>16, <1>17
     DEF Next, RunStep, Prepare, Step, Conclude, CancelJob, Sweep

\* For any number of runs, steps and requests: a run that is about to return has
\* closed its record with a status its steps' records bear out, unless its deadline
\* passed or a closing save was lost (Run and shouldFinalizeAsPartial).
THEOREM VerdictsAreBornOut == Spec => []FinalizationRules
<1>1. Init => Reckoned
  BY DEF Init, Reckoned
<1>2. Reckoned => FinalizationRules
  BY DEF Reckoned, FinalizationRules
<1> QED
  BY <1>1, <1>2, Invariant, ReckonedStep, PTL DEF Spec

=============================================================================
