----------------------------- MODULE JobRunner ------------------------------
(***************************************************************************)
(* run_job (jobs/runner.py) and the ingest_run table, the log of record.   *)
(*                                                                         *)
(* Several processes (the CLI, the scheduler) run jobs.  A run is three    *)
(* steps with the database in between: _open_run commits a 'started' row,  *)
(* the job's body works, _close_run gives the row its final status, each   *)
(* in a transaction of its own.  Any of them can fail, the process can die *)
(* anywhere, and a commit can be applied without the process learning of   *)
(* it.                                                                     *)
(*                                                                         *)
(* started_at is a wall-clock time taken when the run is opened.  The code *)
(* orders runs by it and compares its age with a threshold, so the model   *)
(* numbers runs in the order of their started_at and keeps the age of      *)
(* each, saturating just beyond the threshold.                             *)
(***************************************************************************)
EXTENDS Naturals, FiniteSets

CONSTANTS
  Processes, Jobs, Sources,
  SourceOf,      \* SourceOf[j]: the source of job j
  Enabled,       \* sources whose enable_ flag is set
  NoJob, NoRow,  \* the Nones
  MaxRuns,       \* bound: how many runs are ever started
  StaleAfter     \* find_stale_runs' older_than, in ticks

Runs == 1..MaxRuns
Final == {"succeeded", "failed", "skipped_cache"}

\* The rows of ingest_run.
RunRows == [job : Jobs, status : Final \cup {"started"}, age : 0..(StaleAfter + 1)]

ASSUME RunnerAssumption ==
  /\ SourceOf \in [Jobs -> Sources]
  /\ Enabled \subseteq Sources
  /\ NoJob \notin Jobs
  /\ NoRow \notin RunRows
  /\ MaxRuns \in Nat /\ StaleAfter \in Nat

VARIABLES
  starts,    \* how many runs were started so far; their numbers are 1..starts
  proc,      \* proc[p]: where process p is in run_job, and with which run
  rows,      \* rows[r]: the ingest_run row of run r, or NoRow
  did        \* did[r]: observer's record of what the body of run r did

runnerVars == <<starts, proc, rows, did>>

-----------------------------------------------------------------------------
\* What run_job makes of a body that returned: everything came from bronze, or
\* something was fetched.
StatusOf(hits, misses) ==
  IF misses = 0 /\ hits > 0 THEN "skipped_cache" ELSE "succeeded"

Idle == [at |-> "idle", job |-> NoJob, run |-> 0, age |-> 0, status |-> "none"]

\* Broken variant: one row per job, updated in place by its next run.
RowOfJob(j) ==
  LET Of == {r \in Runs : rows[r] # NoRow /\ rows[r].job = j}
  IN IF Of = {} THEN starts + 1 ELSE CHOOSE r \in Of : TRUE

\* Every attempt is a run, and gets a row, of its own.
RunFor(j) == starts + 1

\* Broken variant: the newest open row of the same job, whoever opened it.
NewestOpenRow(p) ==
  LET Open == {r \in Runs : rows[r] # NoRow /\ rows[r].job = proc[p].job
                            /\ rows[r].status = "started"}
  IN IF Open = {} THEN proc[p].run ELSE CHOOSE r \in Open : \A q \in Open : q <= r

\* _close_run(run_id): the row this very call opened.
RowToClose(p) == proc[p].run

Older(age) == IF age > StaleAfter THEN age ELSE age + 1

-----------------------------------------------------------------------------
RunnerInit ==
  /\ starts = 0
  /\ proc = [p \in Processes |-> Idle]
  /\ rows = [r \in Runs |-> NoRow]
  /\ did = [r \in Runs |-> "nothing"]

\* run_job for an enabled source (for a disabled one it raises and leaves no
\* trace): started_at is taken, the insert is on its way.
Begin(p, j) ==
  /\ proc[p].at = "idle"
  /\ SourceOf[j] \in Enabled
  /\ starts < MaxRuns
  /\ starts' = starts + 1
  /\ proc' = [proc EXCEPT ![p] =
       [at |-> "opening", job |-> j, run |-> RunFor(j), age |-> 0, status |-> "none"]]
  /\ UNCHANGED <<rows, did>>

StartedRow(p) == [job |-> proc[p].job, status |-> "started", age |-> proc[p].age]

\* The insert is committed and the body starts.
OpenCommits(p) ==
  /\ proc[p].at = "opening"
  /\ rows' = [rows EXCEPT ![proc[p].run] = StartedRow(p)]
  /\ did' = [did EXCEPT ![proc[p].run] = "working"]
  /\ proc' = [proc EXCEPT ![p].at = "working"]
  /\ UNCHANGED starts

\* The insert is committed, but the process dies or loses its connection before
\* it hears so: the body never starts.
OpenUnacknowledged(p) ==
  /\ proc[p].at = "opening"
  /\ rows' = [rows EXCEPT ![proc[p].run] = StartedRow(p)]
  /\ proc' = [proc EXCEPT ![p] = Idle]
  /\ UNCHANGED <<starts, did>>

\* Broken variant: a database error is no reason not to collect.
OpenFailsWorkGoesOn(p) ==
  /\ proc[p].at = "opening"
  /\ did' = [did EXCEPT ![proc[p].run] = "working"]
  /\ proc' = [proc EXCEPT ![p].at = "working"]
  /\ UNCHANGED <<starts, rows>>

\* The insert fails or the process dies first: no row, no work.
OpenFails(p) ==
  /\ proc[p].at = "opening"
  /\ proc' = [proc EXCEPT ![p] = Idle]
  /\ UNCHANGED <<starts, rows, did>>

\* The body returns counts or raises; run_job has a final status to record.
BodyEnds(p, status) ==
  /\ proc[p].at = "working"
  /\ did' = [did EXCEPT ![proc[p].run] = status]
  /\ proc' = [proc EXCEPT ![p].at = "closing", ![p].status = status]
  /\ UNCHANGED <<starts, rows>>

\* The update is committed (whether or not the process hears of it); run_job
\* returns, or raises the body's exception.
CloseCommits(p) ==
  LET r == RowToClose(p)
  IN /\ proc[p].at = "closing"
     /\ rows' = IF rows[r] = NoRow THEN rows
                ELSE [rows EXCEPT ![r].status = proc[p].status]
     /\ proc' = [proc EXCEPT ![p] = Idle]
     /\ UNCHANGED <<starts, did>>

\* The process dies while it works or closes, or the update fails: the row
\* stays as it is.
Abandon(p) ==
  /\ proc[p].at \in {"working", "closing"}
  /\ proc' = [proc EXCEPT ![p] = Idle]
  /\ UNCHANGED <<starts, rows, did>>

AgeRuns ==
  /\ rows' = [r \in Runs |-> IF rows[r] = NoRow THEN NoRow
                             ELSE [rows[r] EXCEPT !.age = Older(@)]]
  /\ proc' = [p \in Processes |-> IF proc[p].at = "opening"
                                  THEN [proc[p] EXCEPT !.age = Older(@)]
                                  ELSE proc[p]]
  /\ UNCHANGED <<starts, did>>

Outcomes == {"failed"} \cup {StatusOf(hits, misses) : hits \in 0..1, misses \in 0..1}

RunnerNext ==
  \/ \E p \in Processes :
       \/ \E j \in Jobs : Begin(p, j)
       \/ OpenCommits(p)
       \/ OpenUnacknowledged(p)
       \/ OpenFails(p)
       \/ \E status \in Outcomes : BodyEnds(p, status)
       \/ CloseCommits(p)
       \/ Abandon(p)
  \/ AgeRuns

RunnerSpec == RunnerInit /\ [][RunnerNext]_runnerVars

-----------------------------------------------------------------------------
\* The queries of runner.py and status.py on the table.

\* find_stale_runs(older_than): strictly older than the threshold.
StaleRuns == {r \in Runs : rows[r] # NoRow /\ rows[r].status = "started"
                           /\ rows[r].age > StaleAfter}

\* The run started last among the runs of a source.
NewestOf(s) ==
  LET Of == {r \in Runs : rows[r] # NoRow /\ SourceOf[rows[r].job] = s}
  IN {r \in Of : \A q \in Of : q <= r}

-----------------------------------------------------------------------------
\* Properties.

Working(p) == proc[p].at \in {"working", "closing"}

\* A run nobody works on any more although its row is still open.
Dead(r) ==
  /\ rows[r] # NoRow /\ rows[r].status = "started"
  /\ ~\E p \in Processes : Working(p) /\ proc[p].run = r

ProcStates == [at : {"idle", "opening", "working", "closing"},
               job : Jobs \cup {NoJob},
               run : 0..MaxRuns,
               age : 0..(StaleAfter + 1),
               status : Final \cup {"none"}]

\* Type invariant: no two processes share a run.
RunnerTypeOK ==
  /\ starts \in 0..MaxRuns
  /\ proc \in [Processes -> ProcStates]
  /\ rows \in [Runs -> RunRows \cup {NoRow}]
  /\ did \in [Runs -> Final \cup {"nothing", "working"}]
  /\ \A p, q \in Processes :
       proc[p].at # "idle" /\ proc[q].at # "idle" /\ p # q => proc[p].run # proc[q].run

\* The attempt is on record before it happens, whatever fails or dies in between:
\* there is no work without a row (runner.py:36-42).
NoWorkUnrecorded == \A r \in Runs : did[r] # "nothing" => rows[r] # NoRow

\* The log of record is honest: a row that is final says what the work of its own
\* run came to, also with the same job running twice at a time; a row that is
\* open belongs to work that did not get to the end or could not say so
\* (runner.py:56-68, 89-126).
LedgerHonest ==
  \A r \in Runs : rows[r] # NoRow /\ rows[r].status # "started" => rows[r].status = did[r]

\* What is on record stays on record: rows are not deleted, and once final a row
\* does not change any more (but grows older).
FinalStays ==
  [][\A r \in Runs : rows[r] # NoRow =>
       /\ rows'[r] # NoRow
       /\ rows'[r].job = rows[r].job
       /\ rows[r].status \in Final => rows'[r].status = rows[r].status]_runnerVars
=============================================================================
