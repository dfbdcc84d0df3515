---------------------------- MODULE JobLifecycle ----------------------------
(***************************************************************************)
(* What the job_runs table promises to its readers (the admin job list,    *)
(* the uniqueness check, the stale sweep), whatever the runner does inside *)
(* a job.  A job run is admitted once, writes records only while it is     *)
(* admitted, closes each of its records itself, and is retired once.  The  *)
(* only later correction of a closed record is a cancellation, or a run's  *)
(* own verdict replacing one.                                              *)
(***************************************************************************)
CONSTANTS
    Runs,       \* job runs: one execution of Runner.Run, one job_id each
    Slots,      \* the records of a run: its own and one per step
    Closed      \* statuses a closed record can have

VARIABLES
    phase,      \* phase[r] \in {"new", "admitted", "retired"}
    status      \* status[r][i]: status of record i of run r, "none" if absent

lifecycleVars == <<phase, status>>

\* Nothing has been launched and the table is empty.
Init ==
    /\ phase = [r \in Runs |-> "new"]
    /\ status = [r \in Runs |-> [i \in Slots |-> "none"]]

Admit(r) ==
    /\ phase[r] = "new"
    /\ phase' = [phase EXCEPT ![r] = "admitted"]
    /\ UNCHANGED status

\* Runs leave one at a time, or all at once when the process stops.
Retire(S) ==
    /\ \A r \in S : phase[r] = "admitted"
    /\ phase' = [r \in Runs |-> IF r \in S THEN "retired" ELSE phase[r]]
    /\ UNCHANGED status

Begin(r, i) ==
    /\ phase[r] = "admitted"
    /\ status[r][i] = "none"
    /\ status' = [status EXCEPT ![r][i] = "running"]
    /\ UNCHANGED phase

\* A step that is only noted, never run, appears already closed.
Note(r, i, s) ==
    /\ phase[r] = "admitted"
    /\ status[r][i] = "none"
    /\ s \in Closed
    /\ status' = [status EXCEPT ![r][i] = s]
    /\ UNCHANGED phase

\* The run's own verdict; it may replace a cancellation written meanwhile.
Settle(r, i, s) ==
    /\ phase[r] = "admitted"
    /\ status[r][i] \in {"running", "canceled"}
    /\ s \in Closed
    /\ status' = [status EXCEPT ![r][i] = s]
    /\ UNCHANGED phase

\* A cancellation may reach a record at any time, even a closed one.
Amend(r, i) ==
    /\ phase[r] # "new"
    /\ status[r][i] # "none"
    /\ status' = [status EXCEPT ![r][i] = "canceled"]
    /\ UNCHANGED phase

Next ==
    \/ \E r \in Runs : Admit(r)
    \/ \E S \in SUBSET Runs : Retire(S)
    \/ \E r \in Runs, i \in Slots :
          \/ Begin(r, i)
          \/ Amend(r, i)
          \/ \E s \in Closed : Note(r, i, s) \/ Settle(r, i, s)

Spec == Init /\ [][Next]_lifecycleVars
=============================================================================
