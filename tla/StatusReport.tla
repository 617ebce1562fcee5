---------------------------- MODULE StatusReport ----------------------------
(***************************************************************************)
(* `emeye status` (cli/status.py) beside running jobs.  The command asks   *)
(* three times: whether the warehouse is there, for the newest run of each *)
(* source, and for the stale runs.  Each question is a transaction of its  *)
(* own, so runs open and close between the answers; the exit code is       *)
(* computed from answers of different moments.                             *)
(***************************************************************************)
EXTENDS JobRunner

VARIABLES
  asked,     \* where the command is: "idle", "connected", "latest"
  failing,   \* whether a newest run it was shown had failed
  exit       \* the exit code of the last command, or "none" before the first

statusVars == <<starts, proc, rows, did, asked, failing, exit>>
commandVars == <<asked, failing, exit>>

StatusInit ==
  /\ RunnerInit
  /\ asked = "idle"
  /\ failing = FALSE
  /\ exit = "none"

RunStep == RunnerNext /\ UNCHANGED commandVars

Exits(code) ==
  /\ asked' = "idle"
  /\ failing' = FALSE
  /\ exit' = code
  /\ UNCHANGED runnerVars

\* check_connection said yes.
Connect ==
  /\ asked = "idle"
  /\ asked' = "connected"
  /\ UNCHANGED <<runnerVars, failing, exit>>

\* The warehouse is not there: reported as such at first, an exception later.
Unreachable == asked \in {"idle", "connected", "latest"} /\ Exits("one")

\* No runs at all: nothing collected, nothing wrong.
NothingYet ==
  /\ asked = "connected"
  /\ \A r \in Runs : rows[r] = NoRow
  /\ Exits("zero")

\* Broken variant: the failed runs are printed and then forgotten.
NeverFailing == FALSE

\* Whether the run shown for some source has failed.
ShownFailing == \E s \in Sources : \E r \in NewestOf(s) : rows[r].status = "failed"

\* The newest run of every source is read and shown.
ReadLatest ==
  /\ asked = "connected"
  /\ \E r \in Runs : rows[r] # NoRow
  /\ asked' = "latest"
  /\ failing' = ShownFailing
  /\ UNCHANGED <<runnerVars, exit>>

\* Broken variant: only the runs on display are looked at.
StaleOnDisplay == StaleRuns \cap UNION {NewestOf(s) : s \in Sources}

Suspicious == StaleRuns

\* The stale runs are read, and the verdict is given.
Conclude ==
  /\ asked = "latest"
  /\ Exits(IF Suspicious # {} \/ failing THEN "one" ELSE "zero")

StatusNext ==
  \/ RunStep
  \/ Connect
  \/ Unreachable
  \/ NothingYet
  \/ ReadLatest
  \/ Conclude

StatusSpec == StatusInit /\ [][StatusNext]_statusVars

\* Time passes, and somebody goes on asking: the command is run again and again
\* and each of its questions is answered or fails.
StatusFairness ==
  /\ WF_statusVars(AgeRuns /\ UNCHANGED commandVars)
  /\ WF_statusVars(Connect)
  /\ WF_statusVars(NothingYet \/ ReadLatest \/ Conclude)

FairStatusSpec == StatusSpec /\ StatusFairness

-----------------------------------------------------------------------------
\* Properties.

\* A run that died never disappears behind later runs: once a process has died on
\* a run, or the database failed it, from some point on every `emeye status`
\* exits non-zero, for ever, since nothing ever closes the row
\* (runner.py:142-154, status.py:94-101).
DeadRunsSurface == \A r \in Runs : Dead(r) ~> [](exit # "zero")

\* Once a dead run has become stale nothing clears it: no job that runs later, of
\* whatever source, closes its row or takes it off the list, and no `emeye status`
\* gives the all-clear any more (runner.py:104-126, 142-154, status.py:94-104).
DeadRunsNeverClear ==
  [][\A r \in StaleRuns : Dead(r) =>
       /\ r \in StaleRuns' /\ Dead(r)'
       /\ exit # "zero" => exit' # "zero"]_statusVars

\* If in the end the newest run of some source has failed, in the end status
\* exits non-zero (status.py:103-104): no answer of an earlier moment lingers.
FailuresSurface ==
  \A s \in Sources :
    <>[](\E r \in NewestOf(s) : rows[r].status = "failed") => <>[](exit # "zero")

-----------------------------------------------------------------------------
\* What the program says of stale runs, and the code does not establish.

\* "That means a process died mid-run - treat as suspicious, not as in-progress"
\* (status.py:98-100): a stale run has no live process.
StaleMeansDead == \A r \in StaleRuns : Dead(r)
=============================================================================
