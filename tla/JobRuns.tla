------------------------------ MODULE JobRuns -------------------------------
(***************************************************************************)
(* The job runner of backend/internal/jobs: Runner.Run and its Stepper,    *)
(* the JobTracker's records in the job_runs collection, the in-process     *)
(* registry of cancel handles, the admin endpoint that cancels a job and   *)
(* the cleanup step that closes stale records.                             *)
(*                                                                         *)
(* Every record write, registry access and context read is a step of its   *)
(* own: cron goroutines, admin goroutines and HTTP handlers interleave     *)
(* between any two of them, and the process may stop between any two.      *)
(* A record write saves what the writer changed in the copy it holds, so a *)
(* writer with an old copy overwrites the status the row has by then.      *)
(***************************************************************************)
EXTENDS Integers, FiniteSets

CONSTANTS
    Runs,           \* executions of Runner.Run, each with a job_id of its own
    Keys,           \* values of (Kind, Step), what Unique compares
    KeyOf,          \* KeyOf[r]: the Kind and Step of run r
    UniqueRuns,     \* runs started with RunOptions.Unique
    TimedRuns,      \* runs with a deadline (Timeout # NoTimeout)
    BoundRuns,      \* runs whose RunOptions.Parent is a caller's context
    Admins,         \* concurrent CancelJob requests
    DateReadsAsTime,\* TRUE iff record.Get on a date field yields a time.Time
    MaxSteps,       \* bound: step records of one run
    MaxCrashes,     \* bound: process stops
    MaxLost         \* bound: tracker saves whose error the code ignores

ASSUME JobRunsAssumption ==
    /\ KeyOf \in [Runs -> Keys]
    /\ UniqueRuns \subseteq Runs
    /\ TimedRuns \subseteq Runs
    /\ BoundRuns \subseteq Runs
    /\ DateReadsAsTime \in BOOLEAN
    /\ MaxSteps \in Nat
    /\ MaxCrashes \in Nat
    /\ MaxLost \in Nat

\* Record 0 of a run is the job's own record, the others are its steps.
Slots == 0..MaxSteps

\* The values the job_runs schema accepts in its status field; a save with
\* any other value is rejected.
SchemaStatuses ==
    {"running", "success", "failed", "partial", "skipped", "canceled"}

Closed == SchemaStatuses \ {"running"}

VARIABLES
    pc,         \* pc[r]: where Runner.Run of r stands
    ctx,        \* ctx[r]: "live", or why the run's context is done
    handles,    \* runs with an entry in the cancel registry
    rec,        \* rec[r][i]: status of record i of run r, "none" if absent
    stepNo,     \* stepNo[r]: step records r has inserted
    open,       \* open[r]: the step being run, 0 if none
    critical,   \* critical[r]: the steps that were started as critical
    tally,      \* tally[r]: which of the runner's step counters are not zero
    flags,      \* flags[r]: which of partialErr, skipped, runErr are set
    verdict,    \* verdict[r]: the status Run decided on, "none" before
    admin,      \* admin[a]: the record CancelJob request a loaded, and how far it is
    sweep,      \* records the stale sweep has loaded and not yet looked at
    lost,       \* records whose closing save failed, the error being ignored
    panicked,   \* steps whose function panicked
    crashes     \* process stops so far

vars == <<pc, ctx, handles, rec, stepNo, open, critical, tally, flags,
          verdict, admin, sweep, lost, panicked, crashes>>

\* What only the run itself reads and writes.
runVars == <<stepNo, open, critical, tally, flags, verdict>>

Records == Runs \X Slots
NoRequest == [stage |-> "idle", target |-> <<>>]
Counters == {"started", "succeeded", "nonCriticalFailed", "criticalFailed"}
PCs == {"idle", "check", "start", "body", "step", "decide", "finish",
        "unregister", "done", "dead"}

\* The Runner of a run is gone once Run returns or the process stops.
Forget(S) ==
    /\ stepNo' = [r \in Runs |-> IF r \in S THEN 0 ELSE stepNo[r]]
    /\ open' = [r \in Runs |-> IF r \in S THEN 0 ELSE open[r]]
    /\ critical' = [r \in Runs |-> IF r \in S THEN {} ELSE critical[r]]
    /\ tally' = [r \in Runs |-> IF r \in S THEN {} ELSE tally[r]]
    /\ flags' = [r \in Runs |-> IF r \in S THEN {} ELSE flags[r]]
    /\ verdict' = [r \in Runs |-> IF r \in S THEN "none" ELSE verdict[r]]

\* Runs inside Runner.Run.
Active(r) == pc[r] \notin {"idle", "done", "dead"}

-----------------------------------------------------------------------------
(* Registry and context *)

RegisterCancel(r) == handles' = handles \cup {r}
UnregisterCancel(r) == handles' = handles \ {r}

\* The first reason a context is done is the one it keeps.
Done(r, why) == ctx' = [ctx EXCEPT ![r] = IF @ = "live" THEN why ELSE @]

\* Cancel removes the handle, then calls it.
Cancel(r) ==
    /\ r \in handles
    /\ handles' = handles \ {r}
    /\ Done(r, "canceled")

-----------------------------------------------------------------------------
(* Tracker *)

IsRunning(key) == \E r \in Runs : KeyOf[r] = key /\ rec[r][0] = "running"

Write(r, i, s) == rec' = [rec EXCEPT ![r][i] = s]

\* Start inserts a record of status running.
Insert(r, i) == Write(r, i, "running")

\* Finish, FinishPartial, FinishSkipped and FinishCanceled set a status and
\* save the row; an error of the save is dropped.
Save(r, i, s) ==
    \/ /\ s \in SchemaStatuses
       /\ Write(r, i, s)
       /\ UNCHANGED lost
    \/ /\ Cardinality(lost) < MaxLost
       /\ lost' = lost \cup {<<r, i>>}
       /\ UNCHANGED rec

-----------------------------------------------------------------------------
(* Runner.Run *)

Goto(r, l) == pc' = [pc EXCEPT ![r] = l]

\* NewRunner, buildContext and RegisterCancel.
Launch(r) ==
    /\ pc[r] = "idle"
    /\ RegisterCancel(r)
    /\ Goto(r, IF r \in UniqueRuns THEN "check" ELSE "start")
    /\ UNCHANGED <<ctx, rec, runVars, admin, sweep, lost, panicked, crashes>>

\* The uniqueness check is a query; the record is inserted later.  A run that
\* finds another one running returns, and so does one whose query fails.
CheckUnique(r) ==
    /\ pc[r] = "check"
    /\ \/ ~IsRunning(KeyOf[r]) /\ Goto(r, "start")
       \/ Goto(r, "unregister")
    /\ UNCHANGED <<ctx, handles, rec, runVars, admin, sweep, lost, panicked,
                   crashes>>

StartJob(r) ==
    /\ pc[r] = "start"
    /\ \/ Insert(r, 0) /\ Goto(r, "body")
       \/ UNCHANGED rec /\ Goto(r, "unregister")
    /\ UNCHANGED <<ctx, handles, runVars, admin, sweep, lost, panicked, crashes>>

-----------------------------------------------------------------------------
(* Stepper, as called by the body of a job *)

NextStep(r) == stepNo[r] + 1
Failed(c) == IF c THEN "criticalFailed" ELSE "nonCriticalFailed"

Count(r, S) == tally' = [tally EXCEPT ![r] = @ \cup S]
Flag(r, S) == flags' = [flags EXCEPT ![r] = @ \cup S]

\* Every body returns the error of a critical step, and goes on after any
\* other failed step, whose error the stepper keeps as partialErr.
AfterFailure(r, c) ==
    /\ Flag(r, IF c THEN {"runErr"} ELSE {"partialErr"})
    /\ Goto(r, IF c THEN "decide" ELSE "body")

\* Mutant: a step takes over the last record instead of one of its own.
StepStartReusing(r) ==
    /\ pc[r] = "body"
    /\ stepNo[r] < MaxSteps
    /\ Insert(r, stepNo[r])
    /\ open' = [open EXCEPT ![r] = stepNo[r]]
    /\ stepNo' = [stepNo EXCEPT ![r] = @ + 1]
    /\ Count(r, {"started"})
    /\ Goto(r, "step")
    /\ UNCHANGED <<ctx, handles, critical, flags, verdict, admin, sweep, lost,
                   panicked, crashes>>

StepOpened(r, c) ==
    LET i == NextStep(r) IN
    /\ Insert(r, i)
    /\ stepNo' = [stepNo EXCEPT ![r] = i]
    /\ open' = [open EXCEPT ![r] = i]
    /\ critical' = [critical EXCEPT ![r] = IF c THEN @ \cup {i} ELSE @]
    /\ Count(r, {"started"})
    /\ Goto(r, "step")
    /\ UNCHANGED flags

StepNotOpened(r, c) ==
    /\ Count(r, {"started", Failed(c)})
    /\ AfterFailure(r, c)
    /\ UNCHANGED <<rec, stepNo, open, critical>>

StepStart(r) ==
    /\ pc[r] = "body"
    /\ stepNo[r] < MaxSteps
    /\ \E c \in BOOLEAN : StepOpened(r, c) \/ StepNotOpened(r, c)
    /\ UNCHANGED <<ctx, handles, verdict, admin, sweep, lost, panicked, crashes>>

StepFailed(r, s) ==
    LET c == open[r] \in critical[r] IN
    /\ Save(r, open[r], s)
    /\ Count(r, {Failed(c)})
    /\ AfterFailure(r, c)

StepSucceeded(r) ==
    /\ Save(r, open[r], "success")
    /\ Count(r, {"succeeded"})
    /\ Goto(r, "body")
    /\ UNCHANGED flags

\* Mutant: a step whose context is done returns without closing its record.
StepEndForgetting(r) ==
    /\ pc[r] = "step"
    /\ \/ ctx[r] # "live" /\ AfterFailure(r, FALSE) /\ UNCHANGED <<rec, lost, tally>>
       \/ ctx[r] = "live" /\ (StepFailed(r, "failed") \/ StepSucceeded(r))
    /\ open' = [open EXCEPT ![r] = 0]
    /\ UNCHANGED <<ctx, handles, stepNo, critical, verdict, admin, sweep,
                   panicked, crashes>>

\* The step's function returned with or without an error; a context that is
\* done by then decides before the function's own result.
StepEnd(r) ==
    /\ pc[r] = "step"
    /\ \/ ctx[r] = "canceled" /\ StepFailed(r, "canceled")
       \/ ctx[r] = "deadline" /\ StepFailed(r, "failed")
       \/ ctx[r] = "live" /\ (StepFailed(r, "failed") \/ StepSucceeded(r))
    /\ open' = [open EXCEPT ![r] = 0]
    /\ UNCHANGED <<ctx, handles, stepNo, critical, verdict, admin, sweep,
                   panicked, crashes>>

\* A panic in the step's function unwinds to runWithRecover: the stepper does
\* not get to close the step's record.
StepPanic(r) ==
    /\ pc[r] = "step"
    /\ panicked' = panicked \cup {<<r, open[r]>>}
    /\ open' = [open EXCEPT ![r] = 0]
    /\ Flag(r, {"runErr"})
    /\ Goto(r, "decide")
    /\ UNCHANGED <<ctx, handles, rec, stepNo, critical, tally, verdict, admin,
                   sweep, lost, crashes>>

\* SkipStep inserts a record and closes it; the body may call it inside a step.
\* Its two saves are taken together, a closing save that fails included.
StepSkipped(r) ==
    LET i == NextStep(r) IN
    /\ stepNo' = [stepNo EXCEPT ![r] = i]
    /\ \/ Write(r, i, "skipped") /\ UNCHANGED lost
       \/ /\ Cardinality(lost) < MaxLost
          /\ Insert(r, i)
          /\ lost' = lost \cup {<<r, i>>}
    /\ Count(r, {"started"})
    /\ UNCHANGED flags

StepNotSkipped(r) ==
    /\ Count(r, {"started", "nonCriticalFailed"})
    /\ Flag(r, {"partialErr"})
    /\ UNCHANGED <<rec, stepNo, lost>>

SkipStep(r) ==
    /\ pc[r] \in {"body", "step"}
    /\ stepNo[r] < MaxSteps
    /\ StepSkipped(r) \/ StepNotSkipped(r)
    /\ UNCHANGED <<pc, ctx, handles, open, critical, verdict, admin, sweep,
                   panicked, crashes>>

\* Partial keeps a recoverable error of the body itself.
Partial(r) ==
    /\ pc[r] \in {"body", "step"}
    /\ Flag(r, {"partialErr"})
    /\ UNCHANGED <<pc, ctx, handles, rec, stepNo, open, critical, tally, verdict,
                   admin, sweep, lost, panicked, crashes>>

\* SkipParent: the body returns ErrJobSkipped.
SkipParent(r) ==
    /\ pc[r] = "body"
    /\ Flag(r, {"skipped"})
    /\ Goto(r, "decide")
    /\ UNCHANGED <<ctx, handles, rec, stepNo, open, critical, tally, verdict,
                   admin, sweep, lost, panicked, crashes>>

\* The body returns nil, or an error of its own, or panics outside a step.
BodyReturn(r) ==
    /\ pc[r] = "body"
    /\ \E S \in {{}, {"runErr"}} : Flag(r, S)
    /\ Goto(r, "decide")
    /\ UNCHANGED <<ctx, handles, rec, stepNo, open, critical, tally, verdict,
                   admin, sweep, lost, panicked, crashes>>

-----------------------------------------------------------------------------
(* Finalization *)

\* Mutant: a successful step is not asked for.
PartialWithoutSuccess(r) ==
    /\ "partialErr" \in flags[r]
    /\ {"started", "nonCriticalFailed"} \subseteq tally[r]
    /\ "criticalFailed" \notin tally[r]

ShouldFinalizeAsPartial(r) ==
    /\ "partialErr" \in flags[r]
    /\ {"started", "nonCriticalFailed", "succeeded"} \subseteq tally[r]
    /\ "criticalFailed" \notin tally[r]

\* Mutant: the body's own result is looked at before the context.
ResultFirst(r) ==
    CASE "skipped" \in flags[r] -> "skipped"
      [] flags[r] = {}          -> "success"
      [] flags[r] = {"runErr"}  -> "failed"
      [] OTHER -> IF ctx[r] = "canceled" THEN "canceled" ELSE "partial"

\* The chain of returns after the body: a skip first, then the context, then
\* the body's error, then a recoverable one.
FinalStatus(r) ==
    CASE "skipped" \in flags[r]     -> "skipped"
      [] "skipped" \notin flags[r] /\ ctx[r] = "deadline" -> "partial"
      [] "skipped" \notin flags[r] /\ ctx[r] = "canceled" -> "canceled"
      [] OTHER -> IF "runErr" \in flags[r] THEN "failed"
                  ELSE IF "partialErr" \notin flags[r] THEN "success"
                  ELSE IF ShouldFinalizeAsPartial(r) THEN "partial"
                  ELSE "failed"

Decide(r) ==
    /\ pc[r] = "decide"
    /\ verdict' = [verdict EXCEPT ![r] = FinalStatus(r)]
    /\ Goto(r, "finish")
    /\ UNCHANGED <<ctx, handles, rec, stepNo, open, critical, tally, flags, admin,
                   sweep, lost, panicked, crashes>>

FinishJob(r) ==
    /\ pc[r] = "finish"
    /\ Save(r, 0, verdict[r])
    /\ Goto(r, "unregister")
    /\ UNCHANGED <<ctx, handles, runVars, admin, sweep, panicked, crashes>>

\* The deferred UnregisterCancel, once Run has returned.
Unregister(r) ==
    /\ pc[r] = "unregister"
    /\ UnregisterCancel(r)
    /\ Goto(r, "done")
    /\ Forget({r})
    /\ UNCHANGED <<ctx, rec, admin, sweep, lost, panicked, crashes>>

-----------------------------------------------------------------------------
(* What happens to a run's context from outside *)

Deadline(r) ==
    /\ r \in TimedRuns
    /\ Active(r)
    /\ ctx[r] = "live"
    /\ Done(r, "deadline")
    /\ UNCHANGED <<pc, handles, rec, runVars, admin, sweep, lost, panicked, crashes>>

\* The caller's context is done: the server is terminating, or the batch that
\* runs this job was canceled or ran into its deadline.
CallerDone(r) ==
    /\ r \in BoundRuns
    /\ Active(r)
    /\ ctx[r] = "live"
    /\ \E why \in {"canceled", "deadline"} : Done(r, why)
    /\ UNCHANGED <<pc, handles, rec, runVars, admin, sweep, lost, panicked, crashes>>

-----------------------------------------------------------------------------
(* The admin endpoint CancelJob *)

\* Mutant: the record is closed whether or not a handle could be called.
CancelFindUnchecked(a) ==
    /\ admin[a].stage = "idle"
    /\ \E r \in Runs, i \in Slots :
          /\ rec[r][i] = "running"
          /\ admin' = [admin EXCEPT ![a] = [stage |-> "canceled", target |-> <<r, i>>]]
    /\ UNCHANGED <<pc, ctx, handles, rec, runVars, sweep, lost, panicked, crashes>>

\* One running record of the job is loaded, its own or one of a step.
CancelFind(a) ==
    /\ admin[a].stage = "idle"
    /\ \E r \in Runs, i \in Slots :
          /\ rec[r][i] = "running"
          /\ admin' = [admin EXCEPT ![a] = [stage |-> "found", target |-> <<r, i>>]]
    /\ UNCHANGED <<pc, ctx, handles, rec, runVars, sweep, lost, panicked, crashes>>

CancelCall(a) ==
    /\ admin[a].stage = "found"
    /\ LET r == admin[a].target[1] IN
       \/ /\ Cancel(r)
          /\ admin' = [admin EXCEPT ![a].stage = "canceled"]
       \/ /\ r \notin handles
          /\ admin' = [admin EXCEPT ![a] = NoRequest]
          /\ UNCHANGED <<ctx, handles>>
    /\ UNCHANGED <<pc, rec, runVars, sweep, lost, panicked, crashes>>

\* FinishCanceled on the copy loaded by CancelFind.
CancelSave(a) ==
    /\ admin[a].stage = "canceled"
    /\ Save(admin[a].target[1], admin[a].target[2], "canceled")
    /\ admin' = [admin EXCEPT ![a] = NoRequest]
    /\ UNCHANGED <<pc, ctx, handles, runVars, sweep, panicked, crashes>>

-----------------------------------------------------------------------------
(* MarkStaleRunningAsTimeout, a step of the cleanup job *)

SweepLoad ==
    /\ sweep = {}
    /\ sweep' = {x \in Records : rec[x[1]][x[2]] = "running"}
    /\ sweep' # {}
    /\ UNCHANGED <<pc, ctx, handles, rec, runVars, admin, lost, panicked, crashes>>

\* recordTime falls back to the current time when the field does not read as
\* a time.Time, and the record then is never older than the cutoff.
SweepSkip(x) ==
    /\ x \in sweep
    /\ sweep' = sweep \ {x}
    /\ UNCHANGED <<pc, ctx, handles, rec, runVars, admin, lost, panicked, crashes>>

SweepCancel(x) ==
    /\ DateReadsAsTime
    /\ x \in sweep
    /\ Cancel(x[1])
    /\ sweep' = sweep \ {x}
    /\ UNCHANGED <<pc, rec, runVars, admin, lost, panicked, crashes>>

\* With no live handle the record is saved as timed out; a rejected save ends
\* the sweep with that error.
SweepTimeout(x) ==
    /\ DateReadsAsTime
    /\ x \in sweep
    /\ x[1] \notin handles
    /\ rec' = IF "timeout" \in SchemaStatuses
              THEN [rec EXCEPT ![x[1]][x[2]] = "timeout"] ELSE rec
    /\ sweep' = IF "timeout" \in SchemaStatuses THEN sweep \ {x} ELSE {}
    /\ UNCHANGED <<pc, ctx, handles, runVars, admin, lost, panicked, crashes>>

-----------------------------------------------------------------------------
\* The process stops: goroutines and the registry are gone, records stay.
Crash ==
    /\ crashes < MaxCrashes
    /\ crashes' = crashes + 1
    /\ pc' = [r \in Runs |-> IF Active(r) THEN "dead" ELSE pc[r]]
    /\ handles' = {}
    /\ admin' = [a \in Admins |-> NoRequest]
    /\ sweep' = {}
    /\ Forget(Runs)
    /\ UNCHANGED <<ctx, rec, lost, panicked>>

-----------------------------------------------------------------------------
Init ==
    /\ pc = [r \in Runs |-> "idle"]
    /\ ctx = [r \in Runs |-> "live"]
    /\ handles = {}
    /\ rec = [r \in Runs |-> [i \in Slots |-> "none"]]
    /\ stepNo = [r \in Runs |-> 0]
    /\ open = [r \in Runs |-> 0]
    /\ critical = [r \in Runs |-> {}]
    /\ tally = [r \in Runs |-> {}]
    /\ flags = [r \in Runs |-> {}]
    /\ verdict = [r \in Runs |-> "none"]
    /\ admin = [a \in Admins |-> NoRequest]
    /\ sweep = {}
    /\ lost = {}
    /\ panicked = {}
    /\ crashes = 0

\* The steps of Runner.Run itself, what the scheduler owes to a run.
Prepare(r) == Launch(r) \/ CheckUnique(r) \/ StartJob(r)
Step(r) == StepStart(r) \/ StepEnd(r) \/ StepPanic(r) \/ SkipStep(r) \/ Partial(r)
Conclude(r) == SkipParent(r) \/ BodyReturn(r) \/ Decide(r) \/ FinishJob(r)
                  \/ Unregister(r)
RunStep(r) == Prepare(r) \/ Step(r) \/ Conclude(r)

CancelJob(a) == CancelFind(a) \/ CancelCall(a) \/ CancelSave(a)

Sweep ==
    \/ SweepLoad
    \/ \E x \in Records : SweepSkip(x) \/ SweepCancel(x) \/ SweepTimeout(x)

Next ==
    \/ \E r \in Runs : RunStep(r) \/ Deadline(r) \/ CallerDone(r)
    \/ \E a \in Admins : CancelJob(a)
    \/ Sweep
    \/ Crash

Spec == Init /\ [][Next]_vars

\* A goroutine that can go on does, a step's function returns, and the body of
\* a job, a sequence of finitely many steps, returns.  How long any of these
\* take, and whether anything cancels the run, is left open.
FairSpec ==
    /\ Spec
    /\ \A r \in Runs : /\ WF_vars(Prepare(r))
                       /\ WF_vars(StepEnd(r) \/ StepPanic(r))
                       /\ WF_vars(Conclude(r))

-----------------------------------------------------------------------------
(* Properties *)

\* Every variable has its type; a stored status is one the schema accepts.
TypeOK ==
    /\ pc \in [Runs -> PCs]
    /\ ctx \in [Runs -> {"live", "canceled", "deadline"}]
    /\ handles \subseteq Runs
    /\ rec \in [Runs -> [Slots -> SchemaStatuses \cup {"none"}]]
    /\ stepNo \in [Runs -> Slots]
    /\ open \in [Runs -> Slots]
    /\ critical \in [Runs -> SUBSET Slots]
    /\ tally \in [Runs -> SUBSET Counters]
    /\ flags \in [Runs -> SUBSET {"partialErr", "skipped", "runErr"}]
    /\ verdict \in [Runs -> Closed \cup {"none"}]
    /\ admin \in [Admins -> [stage : {"found", "canceled"}, target : Records]
                               \cup {NoRequest}]
    /\ sweep \subseteq Records
    /\ lost \subseteq Records
    /\ panicked \subseteq Records
    /\ crashes \in 0..MaxCrashes

\* Runs between the insertion of their record and its closing save.
Working(r) == pc[r] \in {"body", "step", "decide", "finish"}

\* A record of status running belongs to a run that will still close it: the
\* job's own record while the run works, a step's record while that step
\* runs.  The only others are those of a process that stopped, of a closing
\* save that failed and of a step that panicked.
RunningMeansLive ==
    \A r \in Runs, i \in Slots :
        rec[r][i] = "running" =>
            \/ i = 0 /\ Working(r)
            \/ i # 0 /\ pc[r] = "step" /\ open[r] = i
            \/ pc[r] = "dead"
            \/ <<r, i>> \in lost \cup panicked

\* What the uniqueness check relies on: as long as nobody took its cancel
\* handle, a run at work is visible in the table as running, whatever
\* CancelJob and the sweep write from the copies they loaded earlier.
WorkingRunHoldsItsKey ==
    \A r \in handles : Working(r) => rec[r][0] = "running"

\* The registry holds the handles of the runs of this process that have not
\* returned, so the sweep cancels every run that still works rather than
\* closing its record, unless somebody canceled it before.
HandlesAreLive ==
    /\ \A r \in handles : Active(r)
    /\ \A r \in Runs : Active(r) /\ r \notin handles => ctx[r] # "live"

\* The steps of a run whose records have one of some statuses.
StepsOf(r, S) == {i \in Slots \ {0} : rec[r][i] \in S}

\* No deadline passed and no closing save was lost.
Undisturbed(r) == ctx[r] # "deadline" /\ lost \cap ({r} \X Slots) = {}

\* A status of the job that its steps' records bear out.
BornOut(r, status) ==
    /\ status = "success" => StepsOf(r, {"failed", "running"}) = {}
    /\ status = "partial" =>
          /\ StepsOf(r, {"success", "canceled"}) # {}
          /\ StepsOf(r, {"failed"}) \cap critical[r] = {}
    /\ status = "skipped" => StepsOf(r, {"failed"}) \cap critical[r] = {}

\* The finalization rules of docs/BACKEND.md, read off the records of a run
\* that is about to return: a critical step that failed never ends in success or
\* partial, unless the deadline passed; a run without recoverable errors left no
\* failed step; partial needs a step that succeeded.  A cancellation may have
\* been written over any of the records.
FinalizationRules ==
    \A r \in Runs :
        pc[r] = "unregister" /\ Undisturbed(r) => BornOut(r, rec[r][0])

\* A job that is canceled while its body runs ends as canceled, or as skipped
\* where the body found nothing to do, in spite of what its steps return and
\* of an admin's save of an older copy; unless the process stops or the closing
\* save fails.
CanceledRunsStop ==
    \A r \in Runs :
        pc[r] \in {"body", "step"} /\ ctx[r] = "canceled"
            ~> \/ pc[r] = "done" /\ rec[r][0] \in {"canceled", "skipped"}
               \/ pc[r] = "dead"
               \/ <<r, 0>> \in lost

\* Where a run stands, for JobLifecycle.
Phase == [r \in Runs |-> CASE pc[r] = "idle"            -> "new"
                           [] pc[r] \in {"done", "dead"} -> "retired"
                           [] OTHER                     -> "admitted"]

Lifecycle == INSTANCE JobLifecycle WITH phase <- Phase, status <- rec

\* Runs, steps, cancellations, sweeps and process stops only ever move the
\* table as JobLifecycle says.
RefinesLifecycle == Lifecycle!Spec

-----------------------------------------------------------------------------
(* What the properties above rest on, step by step *)

\* A run that has not inserted its record has none, and a run inserts its step
\* records in order.
Fresh ==
    \A r \in Runs :
        /\ pc[r] \in {"idle", "check", "start"} => \A i \in Slots : rec[r][i] = "none"
        /\ Active(r) => \A i \in Slots : i > stepNo[r] => rec[r][i] = "none"

\* Only the run itself closes its record and its open step's; anybody else
\* can at most have written a cancellation.
Held ==
    \A r \in Runs :
        /\ Working(r) => rec[r][0] \in {"running", "canceled"}
        /\ pc[r] = "step" => open[r] # 0 /\ rec[r][open[r]] \in {"running", "canceled"}

\* A CancelJob request works on a record that exists, and saves its copy only
\* after it took the run's handle, which nobody registers again.
Requests ==
    \A a \in Admins : admin[a] # NoRequest =>
        /\ rec[admin[a].target[1]][admin[a].target[2]] # "none"
        /\ pc[admin[a].target[1]] # "idle"
        /\ admin[a].stage = "canceled" => admin[a].target[1] \notin handles

\* What the counters and flags of the runner say of the records of its steps.
Accounted(r) ==
    /\ StepsOf(r, {"failed"}) # {} => flags[r] \cap {"partialErr", "runErr"} # {}
    /\ StepsOf(r, {"failed"}) \cap critical[r] # {} =>
          pc[r] = "decide" /\ "criticalFailed" \in tally[r] /\ "skipped" \notin flags[r]
    /\ \A i \in StepsOf(r, {"running"}) :
          (pc[r] = "step" /\ open[r] = i) \/ "runErr" \in flags[r]
    /\ "succeeded" \in tally[r] =>
          \E i \in StepsOf(r, {"success", "canceled"}) : ~(pc[r] = "step" /\ open[r] = i)
    /\ pc[r] # "decide" => "skipped" \notin flags[r]

\* From the first step to the verdict to the record: nothing is forgotten.
Reckoned ==
    \A r \in Runs :
        /\ pc[r] \in {"idle", "check", "start"} => tally[r] = {} /\ flags[r] = {}
        /\ Undisturbed(r) =>
              /\ pc[r] \in {"body", "step", "decide"} => Accounted(r)
              /\ pc[r] = "finish" => BornOut(r, verdict[r])
              /\ pc[r] = "unregister" => BornOut(r, rec[r][0])

IInv ==
    /\ TypeOK
    /\ Fresh
    /\ Held
    /\ Requests
    /\ HandlesAreLive
    /\ RunningMeansLive
    /\ WorkingRunHoldsItsKey

-----------------------------------------------------------------------------
(* What docs/BACKEND.md says of the job runner and the code does not do *)

\* "Unique: true prevents overlapping runs for the same Kind + Step."
UniqueRunsNeverOverlap ==
    \A r, s \in UniqueRuns :
        KeyOf[r] = KeyOf[s] /\ Working(r) /\ Working(s) => r = s
=============================================================================
