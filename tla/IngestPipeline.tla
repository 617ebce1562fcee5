--------------------------- MODULE IngestPipeline ---------------------------
(***************************************************************************)
(* `emeye ingest run` end to end: the container that waits for PostgreSQL  *)
(* (docker/entrypoint.sh), the command (cli/ingest.py), run_job with its   *)
(* ledger (JobRunner), and a job that looks into bronze before it collects *)
(* (tests/integration/test_idempotency.py, "the shape every real collector *)
(* takes") and stores what it collected (Bronze).                          *)
(*                                                                         *)
(* A step of the command is a step of the part it is in, together with the *)
(* job's own locals.  The look and the store are two transactions, and the *)
(* ledger's two are others: processes run their commands beside each       *)
(* other, any exception can come out of any of them, and a process can die *)
(* anywhere.                                                               *)
(*                                                                         *)
(* Bronze is migrated and not tampered with (Bronze says what happens when *)
(* it is); nobody looks for stale runs, so runs do not age (StatusReport). *)
(***************************************************************************)
EXTENDS JobRunner

CONSTANTS
  ContentOf,  \* ContentOf[j]: what job j collects; two jobs may collect the same
  NoDoc,      \* no row inserted yet
  MaxTime,    \* bound: moments are 1..MaxTime
  WaitTimeout \* EMEYE_DB_WAIT_TIMEOUT, in seconds

Contents == {ContentOf[j] : j \in Jobs}

VARIABLES
  schema, migration, now, docs, storing,   \* as in Bronze
  box,     \* box[p]: the container of p, and the seconds it has been waiting
  seen,    \* seen[p]: what has_content told the body p is in
  exit,    \* exit[p]: how p's last command ended, and with which run
  knew,    \* observer: the runs that began with their content in bronze
  wrote    \* observer: the runs that committed a document

\* A job has one request shape, and each run at most one document.
Lake == INSTANCE Bronze WITH
  Writers <- Processes, Requests <- Jobs, EndpointOf <- [j \in Jobs |-> j],
  AnyEndpoint <- NoJob, MaxDocs <- MaxRuns

\* No None can be taken for what it stands in for.
ASSUME PipelineAssumption ==
  /\ DOMAIN ContentOf = Jobs
  /\ WaitTimeout \in Nat
  /\ NoRow \notin [after : Contents, status : Final \cup {"started"}]
  /\ Lake!BronzeAssumption

lakeVars == <<schema, migration, now, docs, storing>>
bodyVars == <<seen, knew, wrote>>
boxVars == <<box, exit>>
pipelineVars == <<runnerVars, lakeVars, bodyVars, boxVars>>

-----------------------------------------------------------------------------
Content(p) == ContentOf[proc[p].job]

Gone == [at |-> "gone", waited |-> 0]
Running == [at |-> "running", waited |-> 0]
NoExit == [code |-> 99, run |-> 0]   \* nothing has ended yet

PipelineInit ==
  /\ RunnerInit
  /\ schema = Lake!Bronzed /\ migration = Lake!NoMigration
  /\ now = 1 /\ docs = {}
  /\ storing = [p \in Processes |-> Lake!NotStoring]
  /\ seen = [p \in Processes |-> "unasked"]
  /\ box = [p \in Processes |-> Gone]
  /\ exit = [p \in Processes |-> NoExit]
  /\ knew = {} /\ wrote = {}

\* The container is gone, with this exit code.
Exit(p, code) ==
  /\ box' = [box EXCEPT ![p] = Gone]
  /\ exit' = [exit EXCEPT ![p] = [code |-> code, run |-> proc[p].run]]

\* Broken variant: the exception is logged and recorded, and goes no further.
SwallowedCodes(p) == {0}

\* A job's exception leaves run_job as it is, and run() cannot tell a KeyError of
\* the job from its own lookup's.
CodesAfter(p) == IF proc[p].status = "failed" THEN {1, 2} ELSE {0}

-----------------------------------------------------------------------------
\* A container is started: it waits for the database, unless EMEYE_WAIT_FOR_DB=0.
ContainerStarts(p) ==
  /\ box[p].at = "gone"
  /\ \E at \in {"waiting", "running"} : box' = [box EXCEPT ![p].at = at]
  /\ exit' = [exit EXCEPT ![p] = NoExit]
  /\ UNCHANGED <<runnerVars, lakeVars, bodyVars>>

Least(m, n) == IF m < n THEN m ELSE n

\* Broken variant: the deadline is set anew in every turn of the loop.
NewDeadline(p, spent) == 0

\* What `SECONDS >= deadline` can tell of the time waited.
WaitedAfter(p, spent) == Least(box[p].waited + spent, WaitTimeout)

\* The probe fails, after two seconds at most, and there is a second of sleep.
ProbeFails(p) ==
  /\ box[p].at = "waiting" /\ box[p].waited < WaitTimeout
  /\ \E probing \in 0..2 : box' = [box EXCEPT ![p].waited = WaitedAfter(p, probing + 1)]
  /\ UNCHANGED <<runnerVars, lakeVars, bodyVars, exit>>

\* It fails at or after the deadline.
TimesOut(p) ==
  /\ box[p].at = "waiting" /\ box[p].waited = WaitTimeout
  /\ Exit(p, 1)
  /\ UNCHANGED <<runnerVars, lakeVars, bodyVars>>

\* It connects: exec emeye ingest run.
ProbeConnects(p) ==
  /\ box[p].at = "waiting"
  /\ box' = [box EXCEPT ![p] = Running]
  /\ UNCHANGED <<runnerVars, lakeVars, bodyVars, exit>>

AtCommand(p) == box[p].at = "running" /\ proc[p].at = "idle"

\* get_job knows no job of this key.
UnknownJob(p) ==
  /\ AtCommand(p)
  /\ Exit(p, 2)
  /\ UNCHANGED <<runnerVars, lakeVars, bodyVars>>

\* The source is disabled: nothing is recorded.
Disabled(p) ==
  /\ AtCommand(p)
  /\ \E j \in Jobs : SourceOf[j] \notin Enabled
  /\ Exit(p, 3)
  /\ UNCHANGED <<runnerVars, lakeVars, bodyVars>>

Command(p) ==
  /\ AtCommand(p)
  /\ \E j \in Jobs : Begin(p, j)
  /\ UNCHANGED <<lakeVars, bodyVars, boxVars>>

\* The run is on record and its body starts.
Opened(p) ==
  /\ OpenCommits(p)
  /\ knew' = IF Lake!HasContent(Content(p)) THEN knew \cup {proc[p].run} ELSE knew
  /\ UNCHANGED <<lakeVars, seen, wrote, boxVars>>

\* It could not be recorded, or nobody heard that it was.
NotOpened(p) ==
  /\ OpenFails(p) \/ OpenUnacknowledged(p)
  /\ Exit(p, 1)
  /\ UNCHANGED <<lakeVars, bodyVars>>

\* has_content(digest), a transaction of its own.
Look(p) ==
  /\ proc[p].at = "working" /\ seen[p] = "unasked"
  /\ seen' = [seen EXCEPT ![p] = IF Lake!HasContent(Content(p)) THEN "hit" ELSE "miss"]
  /\ UNCHANGED <<runnerVars, lakeVars, knew, wrote, boxVars>>

\* The body is over, with its locals.
EndBody(p) == seen' = [seen EXCEPT ![p] = "unasked"]

\* JobResult(cache_hits=1): nothing to collect.
Hit(p) ==
  /\ seen[p] = "hit"
  /\ BodyEnds(p, StatusOf(1, 0))
  /\ EndBody(p)
  /\ UNCHANGED <<lakeVars, knew, wrote, boxVars>>

\* store_document without fetched_at: the document is of this moment.
Collect(p) ==
  /\ proc[p].at = "working" /\ seen[p] = "miss"
  /\ Lake!Store(p, proc[p].job, Content(p), now)
  /\ UNCHANGED <<runnerVars, bodyVars, boxVars>>

Inserted(p) ==
  /\ Lake!Insert(p)
  /\ UNCHANGED <<runnerVars, bodyVars, boxVars>>

\* The document is committed: JobResult(cache_misses=1).
Stored(p) ==
  /\ Lake!Commit(p)
  /\ wrote' = wrote \cup {proc[p].run}
  /\ BodyEnds(p, StatusOf(0, 1))
  /\ EndBody(p)
  /\ UNCHANGED <<knew, boxVars>>

\* The document is committed, and the process loses its connection, or its life,
\* before it hears so.
StoredUnheard(p) ==
  /\ Lake!Commit(p)
  /\ wrote' = wrote \cup {proc[p].run}
  /\ \/ BodyEnds(p, "failed") /\ UNCHANGED boxVars
     \/ Abandon(p) /\ Exit(p, 137)
  /\ EndBody(p)
  /\ UNCHANGED knew

\* Another run committed this request for this very moment: the constraint fails
\* the insert, the exception fails the run.
Conflict(p) ==
  /\ storing[p].at = "called"
  /\ \E d \in docs : Lake!SameKey(d, Lake!RowFor(p, d.id))
  /\ Lake!RollBack(p)
  /\ BodyEnds(p, "failed")
  /\ EndBody(p)
  /\ UNCHANGED <<knew, wrote, boxVars>>

\* Broken variant: the exception gets past session_scope.
StayInStore(p) == UNCHANGED lakeVars

\* What is pending of p is rolled back, if anything is.
LeaveStore(p) ==
  IF storing[p].at = "out" THEN UNCHANGED lakeVars ELSE Lake!RollBack(p)

\* Any other exception of the body, wherever it is.
Raises(p) ==
  /\ BodyEnds(p, "failed")
  /\ LeaveStore(p)
  /\ EndBody(p)
  /\ UNCHANGED <<knew, wrote, boxVars>>

\* The final status is on record, and the command ends.
Closed(p) ==
  /\ CloseCommits(p)
  /\ \E code \in CodesAfter(p) : Exit(p, code)
  /\ UNCHANGED <<lakeVars, bodyVars>>

\* It is on record but nobody heard, or it could not be recorded.
NotClosed(p) ==
  /\ proc[p].at = "closing"
  /\ CloseCommits(p) \/ Abandon(p)
  /\ Exit(p, 1)
  /\ UNCHANGED <<lakeVars, bodyVars>>

\* The process dies with its transactions.
Killed(p) ==
  /\ OpenFails(p) \/ Abandon(p)
  /\ LeaveStore(p)
  /\ EndBody(p)
  /\ Exit(p, 137)
  /\ UNCHANGED <<knew, wrote>>

Tick == Lake!Tick /\ UNCHANGED <<runnerVars, bodyVars, boxVars>>

\* Steps of a process that is alive, with a database that answers.
Progress(p) ==
  \/ ProbeFails(p)
  \/ TimesOut(p)
  \/ UnknownJob(p)
  \/ Disabled(p)
  \/ Command(p)
  \/ Opened(p)
  \/ Look(p)
  \/ Hit(p)
  \/ Collect(p)
  \/ Inserted(p)
  \/ Stored(p)
  \/ Conflict(p)
  \/ Closed(p)

Fault(p) ==
  \/ NotOpened(p)
  \/ StoredUnheard(p)
  \/ Raises(p)
  \/ NotClosed(p)
  \/ Killed(p)

PipelineNext ==
  \/ \E p \in Processes :
       \/ ContainerStarts(p)
       \/ ProbeConnects(p)
       \/ Progress(p)
       \/ Fault(p)
  \/ Tick

PipelineSpec == PipelineInit /\ [][PipelineNext]_pipelineVars

\* A process that can go on does.  Nothing is asked of faults or of
\* time; no container has to be started, and the database need never come up.
FairPipelineSpec == PipelineSpec /\ \A p \in Processes : WF_pipelineVars(Progress(p))

-----------------------------------------------------------------------------
\* Properties.

ExitCodes == {0, 1, 2, 3, 99, 137}

\* Type invariant: a process stores only in the middle of its job's body, for that
\* job, after it found nothing.
PipelineTypeOK ==
  /\ RunnerTypeOK
  /\ Lake!BronzeTypeOK
  /\ seen \in [Processes -> {"unasked", "hit", "miss"}]
  /\ box \in [Processes -> [at : {"gone", "waiting", "running"}, waited : 0..WaitTimeout]]
  /\ \A p \in Processes : proc[p].at # "idle" => box[p] = Running
  /\ exit \in [Processes -> [code : ExitCodes, run : 0..MaxRuns]]
  /\ knew \subseteq Runs /\ wrote \subseteq Runs
  /\ \A p \in Processes : storing[p].at # "out" =>
       /\ proc[p].at = "working" /\ seen[p] = "miss"
       /\ storing[p].request = proc[p].job /\ storing[p].content = Content(p)

\* "Running a job twice changes no row counts" (test_idempotency.py:2) whatever
\* runs beside it: a run whose content was in bronze when its body started writes
\* nothing, dies or not.  Only runs that overlap can write the same content twice,
\* has_content and store_document being two transactions (store.py:87, 134).
NoSecondCopy == knew \cap wrote = {}

\* A scheduler may go by the exit code: 0 means that this command's run is on
\* record as successful or as having had nothing to do, and that what it was after
\* is in bronze, whatever was lost, rolled back or unheard of on the way
\* (ingest.py:50-58, runner.py:89-139).
ExitTellsTruth ==
  \A p \in Processes : exit[p].code = 0 =>
    LET row == rows[exit[p].run]
    IN /\ row # NoRow
       /\ row.status \in {"succeeded", "skipped_cache"}
       /\ Lake!HasContent(ContentOf[row.job])

Promise == INSTANCE Collection WITH
  NoEntry <- NoRow,
  kept <- {d.content : d \in docs},
  entry <- [r \in Runs |-> IF rows[r] = NoRow THEN NoRow
                           ELSE [after |-> ContentOf[rows[r].job], status |-> rows[r].status]]

\* The ledger and bronze, written in transactions of their own by processes that
\* overtake each other and die, implement Collection: nothing gets into bronze but
\* for a run that is open on record, and no run is concluded as successful or
\* skipped before its content is committed (runner.py:85-126, store.py:71-87).
CollectionPromised == Promise!CollectionSpec

\* Every container ends: the wait for the database does (entrypoint.sh:6-7), and so
\* does the command, also when two of them insert the same request for the same
\* moment and one has to wait for the other (models.py:92-98).
ContainerEnds == \A p \in Processes : box[p].at # "gone" ~> box[p].at = "gone"
=============================================================================
