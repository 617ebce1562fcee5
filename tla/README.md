# emeye in TLA+

Specifications of emeye's ingestion core, model-checked with TLC and, where it
matters most, proved with TLAPS. Paths are relative to the repository root;
`client.py:113` means `src/emeye/http/client.py`, line 113, and so on.

emeye collects music data from third-party sites into a local PostgreSQL. Its
code so far is the part that has to be right before anything is collected: a
client that is polite to the sites, a log of every run that does not lie, and a
landing zone from which everything can be parsed again. Beside it stand the guards
that keep the repository itself clean.

- [1. The system](#1-the-system)
- [2. The modules](#2-the-modules)
- [3. What is checked](#3-what-is-checked)
- [4. What is proved](#4-what-is-proved)
- [5. Where the program does not do what it says](#5-where-the-program-does-not-do-what-it-says)
- [6. Assumptions and limits](#6-assumptions-and-limits)
- [7. Plan](#7-plan)

## 1. The system

| Component | State | Operations | Interacts with |
|---|---|---|---|
| Rate limiter `http/limiter.py` | `_last_request` per host, a lock per host, a lock for the table of locks | `wait(url, crawl_delay)` | called by the client before every attempt, from any number of threads |
| Robots policy `http/robots.py` | cache of entries by origin, with `fetched_at`; no lock | `is_allowed`, `crawl_delay` (both through `_entry`, `_fetch`) | called by the client; fetches `robots.txt` itself |
| Polite client `http/client.py` | one policy, one limiter, one httpx client | `__init__` (refuses disabled sources), `get` | policy, limiter, the site; jobs call it |
| Job runner `jobs/runner.py`, table `ingest_run` | one row per attempt | `run_job` (`_open_run`, the job, `_close_run`), `latest_runs`, `find_stale_runs` | jobs, the database; several processes (CLI, scheduler) |
| `emeye status` `cli/status.py` | none of its own | three reads, exit code | `ingest_run`, beside running jobs |
| Bronze `bronze/store.py`, table `raw_document` | rows that are only ever added | `store_document`, `latest_document`, `has_content`, `iter_documents` | jobs write, parsers replay |
| Migrations `db/alembic/` | the schema and the append-only trigger | `upgrade`, `downgrade` | PostgreSQL, beside writers |
| Engine `db/engine.py` | cached engine | `session_scope`, `check_connection` | everything that uses the database |
| Job contract and registry `jobs/base.py`, `jobs/registry.py` | registered classes | `register_job`, lookup | runner, CLI |
| `emeye ingest` `cli/ingest.py` | none of its own | `run` with its exit codes, `reparse` | runner, bronze; whoever reads the exit code |
| CLI root `cli/main.py`, settings `config.py`, logging `logging.py` | cached settings | dispatch | everything |
| Containers `docker/`, `compose.yaml` | none | wait for PostgreSQL, exec | PostgreSQL, `emeye ingest` |
| Repository guards `scripts/`, `.pre-commit-config.yaml`, `.github/workflows/ci.yml` | the verdicts on the pushes | licence, payload, parity, tempo and header checks | commits (as hooks), pushes (as CI) |

What is hard about it, and what makes each part correct:

- **Limiter.** Threads read a time stamp, sleep, and write it; exceptions can
  come out of the sleep. *Correct* if nobody is let through to a host before the
  interval that applies to it has passed, no host stays locked, and a slow host
  holds up nobody else's.
- **Robots policy.** A cache without a lock, with a network fetch between the
  miss and the store: fetches overtake each other. *Correct* if no failure and no
  stale entry ever becomes permission, and the verdict follows the site.
- **Client.** Permission, delay, attempts, backoff, `Retry-After`, redirects: a
  protocol of many steps over state that ages and that other threads change.
  *Correct* if what the site asks for is obeyed on every attempt of a call, and
  nothing in `get` itself keeps a call from coming back.
- **Runner.** Three steps with the database between them; the process can die and
  commits can go unacknowledged anywhere. *Correct* if there is no work without a
  row, and no final row that says something else than what happened.
- **Status.** Answers of different moments are mixed into one exit code. *Correct*
  if what went wrong surfaces and nothing hides it.
- **Bronze and its migrations.** Concurrent writers choose `fetched_at` before
  they commit; migrations can fail half-way. *Correct* if the table is never there
  without its guard, a moment of a request has one document, and a replay repeats
  what the earlier one yielded.
- **The command end to end.** The look into bronze, the store, and the two
  transactions of the record are four, and processes overtake each other between
  them; acknowledgements get lost. *Correct* if record, bronze and exit code never
  contradict each other, nothing is collected twice that was there before, and
  every container ends.
- **Guards.** Hooks look at changes and can be gone round; CI looks at everything,
  but is cancelled by the next push. *Correct* if looking at changes is enough for
  what it can be enough for, if green means clean, and if the last push is judged.

The hazards one by one, each at its line, are the `hazards` list of
`PROJECT.json`.

## 2. The modules

```
HostGate  <==implements==  RateLimiter --+
                                         +--> PoliteClient --> WireClock
                           RobotsPolicy -+
JobRunner --> StatusReport
JobRunner -+
           +--> IngestPipeline  ==implements==>  Collection
Bronze ----+
Guards --> Compliance
```

`M --> N`: N is built on M. `MC*` modules and `.cfg` files are instances for TLC,
`*Proofs` modules hold theorems. `PROJECT.json` maps every definition to the
lines it stands for. Definitions introduced as *Broken variant* are never used by
a specification: each replaces the definition after it to show that some
property notices.

### RateLimiter, HostGate

`wait` is `EnterWait` (interval computed), `TakeLock` (`with self._lock_for(host)`,
the delay, start of the sleep), `Stamp` (end of the sleep, stamp, release),
`LeaveWait` (return). `Interrupt` is any exception while waiting or sleeping.
`waiter[t]` holds a thread's locals, `holder[h]` the locks.

Time: the code subtracts readings of `time.monotonic()`, so the model keeps the
differences. `elapsed[h]` is the time since the stamp, `remaining[t]` what is left
of a sleep, and `PassTime` moves all of them. `elapsed` stops at `Horizon`; no
interval is longer, so `max(0, interval - elapsed)` cannot tell. `PassTime` is
always possible, also past a finished sleep: `time.sleep` promises a minimum.

`HostGate` is what the limiter promises about one host, without locks, sleeps or
stamps: callers ask, and are admitted at least their interval after the
previous one. `Gate(h)` in RateLimiter is the refinement mapping; there is one
gate per host, and `GatesImplemented` says all of them are implemented at once.

### RobotsPolicy

`Lookup` is the entry of `_entry` (hit or miss), `Receive` the reply and `_fetch`'s
reading of it (`EntryOf`), `Store` the assignment to the cache, `Conclude` the
return to the caller; `FetchRaises` is what `_fetch` does not catch. Which URLs
of an origin the rules permit is reduced to one answer per fetch. `lastYes` is an
observer's clock: the time since the site itself last gave permission. No action
reads it.

### PoliteClient

The composition: a step of `get` is a step of the part it calls into
(`Robots!Lookup`, `Limiter!EnterWait`, ...) together with a change of `call[t]`, its
locals. In order: `Get`, `FetchRobots`*, `Permission`, `AskDelay`, `FetchRobots`*,
`FirstAttempt`, `WaitForSlot`, `Send`, `Redirect`*, then `Deliver` (result), `Fail`
(no response) or `TurnedAway` (retryable status), a nap, `NextAttempt`, and again.
`Raise` is any exception `get` does not catch, at any place where it blocks.
`owed[t]` is an observer's record of the last retryable status and what is left of
its `Retry-After`.

`WireClock` adds a clock at the site's end of the line, for one question only.

### JobRunner

`run_job` is `Begin`, then the fate of `_open_run`'s transaction (`OpenCommits`,
`OpenUnacknowledged`: committed and not known to be, `OpenFails`), then `BodyEnds`
with a status (`StatusOf` the counts, or failed), then the fate of `_close_run`'s
(`CloseCommits`, `Abandon`). `Abandon` is also the process dying while it works.
`rows` is the table, `did[r]` an observer's record of what the body of run `r`
really came to. Runs are numbered in the order of `started_at`.

### StatusReport

JobRunner with the command beside it: `Connect`, `NothingYet` or `ReadLatest`,
`Conclude`, each a transaction of its own, with `Unreachable` possible before
each of them.

### Bronze

`store_document` is `Store` (`fetched_at` chosen), `Insert` (`session.flush()`, the
unique constraint), `Commit` or `RollBack`. `Tamper` is anybody's UPDATE or DELETE,
which the trigger is there to reject. The migration 0002 is one transaction:
`CreateTable`, `CreateTrigger`, `UpgradeCommits`; `DropTrigger`, `DropTable`,
`DowngradeCommits`; `MigrationFails` rolls back. `Latest` and `Replays` are the
queries: PostgreSQL may return rows in any order ORDER BY leaves open, so a query
is the *set* of its possible answers. `emeye ingest reparse` is one of `Replays`.
`HasContent` is the cache check.

### IngestPipeline, Collection

`emeye ingest run` in its container. `ContainerStarts`, `ProbeFails`*, then `TimesOut`
or `ProbeConnects` are `docker/entrypoint.sh`; `UnknownJob`, `Disabled` and `Command`
the ways `run_job` can begin. From there a step is a step of JobRunner or of Bronze
together with the locals of the job's body: `Opened`, `Look` (`has_content`), then
`Hit`, or `Collect`, `Inserted` and `Stored`; then `Closed` with the exit code. The
job is the one of `tests/integration/test_idempotency.py`, "the shape every real
collector takes".

What goes wrong: `NotOpened`, `StoredUnheard` and `NotClosed` are commits that fail,
or succeed without anybody hearing; `Conflict` is the unique constraint; `Raises` any
other exception of the body; `Killed` the end of the process. `CodesAfter` gives two
codes for a failed body, since `run()` takes a `KeyError` of the body for one of its
own lookup.

`knew` (the runs that began with their content in bronze) and `wrote` (the runs that
committed a document) are an observer's. Bronze is migrated and not tampered with,
and nobody looks for stale runs: Bronze and StatusReport are about those. Of the
client nothing is needed here but that fetching may raise, which `Raises` does.

`Collection` is what collecting promises, without processes and transactions:
runs are entered, keep what they are after while they are open, and are concluded as
successful or skipped only when it is kept. `Promise` is the refinement mapping:
committed rows of `ingest_run` are entries, committed documents what is kept.

### Guards, Compliance

`Guards` is what the three scripts decide about one tree: pure functions.
A text is the set of needles it contains, so that `Normalize`'s first match
decides as in the code; a path is the rule its name meets and its size; a runner
its targets. `RefusesListed` is the payload check on a path as `git ls-files` prints
it, with quotes if it is not ASCII. A task runner may be missing (`BothThere`), and
`check_task_parity.py`, which reads both, then fails. `TermsOf` is what no script can read: the terms
that really apply.

`Compliance` is when they are applied. `Commit` passes the hooks of
`.pre-commit-config.yaml`, which see what the commit changes and leaves there:
`StagedPaths` and `RunnerStaged` have no deleted file in them, because pre-commit
passes none and skips a hook that has no file to look at. `CommitUnverified` does not
pass them. `Push` starts CI's compliance job and cancels the one before (`Superseding`); its
steps are `Licences`, `Payloads`, `Parity`, `Tempo`, `Headers`, on the pushed tree.
`PayloadsUnseen` is git failing under the payload check. Spotify's tempo is mentioned
`"plain"`ly, or `"disguised"` so that the hook misses it and CI does not (in another
case, or in a file that was moved into `src/`).

## 3. What is checked

Every run exhausts its state space.

| Run | Instance | Properties |
|---|---|---|
| `rate_limiter` | 3 threads, 2 hosts (one with an override), crawl delays below, between and above the intervals, jitter 0..1 | `LimiterTypeOK`, `LockDiscipline`, `SleepSuffices`, `GatesImplemented`, `HostsIndependent` |
| `robots_policy` | 2 threads, 2 origins, 2 delays, TTL 2 | `RobotsTypeOK`, `PermissionIsFresh`, `VerdictsConverge` |
| `polite_client` | 1 thread, http and https of one host, 3 attempts, Retry-After none, 0 or 3, one redirect | `ClientTypeOK`, `RetryAfterHonoured`, `DelayObeyed`, `CallEnds` |
| `status_report` | 2 processes, 2 runs, 4 jobs of 3 sources, one of them disabled | `RunnerTypeOK`, `NoWorkUnrecorded`, `LedgerHonest`, `FinalStays`, `DeadRunsSurface`, `DeadRunsNeverClear`, `FailuresSurface` |
| `bronze` | 2 writers, 2 requests of one source, with different endpoints, 3 rows, 3 moments | `BronzeTypeOK`, `LatestIsOne`, `NeverUnguarded`, `ReplaysExtend` |
| `ingest_pipeline` | 2 processes, 2 runs, 2 moments, 2 jobs that collect the same content from different requests and one of a disabled source, wait of 2 s | `PipelineTypeOK`, `NoSecondCopy`, `ExitTellsTruth`, `CollectionPromised`, `ContainerEnds` |
| `compliance` | a clean tree and 20 that differ from it in one respect each, three of them without one of the task runners, 2 pushes | `ComplianceTypeOK`, `HooksSuffice`, `GreenIsClean`, `HeadIsJudged` |

Five more runs find a counterexample; see section 5.

**What they say.**

- `GatesImplemented`: whatever the interleaving, nobody is let through to a host
  before the interval it must respect has passed since the previous caller.
  `SleepSuffices` is the reason: what is left of a sleep covers what is missing,
  because the lock is held while sleeping (`LockDiscipline`).
- `HostsIndependent`: a host goes on serving although threads that wait for
  *other* hosts may stop for good. One lock for all hosts breaks it.
- `PermissionIsFresh`: a permission handed out of the cache was given by that very
  origin less than a TTL ago, whatever overtook what. `VerdictsConverge`: once a
  site has settled, so do the answers, in both directions.
- `RetryAfterHonoured`: between the attempts of a call, `Retry-After` is waited
  for in full. `DelayObeyed`: at every attempt, the host has been left alone for
  its interval and for the Crawl-delay last read for the origin, also when http
  and https of one host declare different ones.
- `CallEnds`: a call of `get` comes back, unless one exchange with a site never ends.
  That can happen: httpx's timeout bounds each connect, read and write, so that a
  response, or a `robots.txt`, that drips has no end. That it is the only way is the
  property: no sequence of attempts, naps, `Retry-After`s and look-ups keeps a call. It
  is said of a client of one thread. With several, one more way is open: others may get
  the lock of the host first, again and again, since `threading.Lock` is not fair.
- `NoWorkUnrecorded`, `LedgerHonest`, `FinalStays`: there is no work without a row;
  a final row says what its own run came to, also with one job running twice at a
  time; no row is deleted and no final row is rewritten.
- `DeadRunsSurface`: a run whose process died makes `emeye status` exit non-zero
  from some point on, for ever, behind whatever later runs. `DeadRunsNeverClear`:
  once such a run is stale, no step of anybody closes its row or takes it off the
  list, and no status gives the all-clear. `FailuresSurface`: a newest
  run that has failed makes it exit non-zero, too, as long as it is the newest.
- `LatestIsOne`: a request has at most one latest document. `NeverUnguarded`: nobody
  sees the table without its trigger. `ReplaysExtend`: a later replay yields every
  document of an earlier one, in the same order, with newer ones in between where
  they were committed late; whole or restricted to an endpoint or a time.
- `NoSecondCopy`: a run whose content was in bronze when its body began writes
  nothing, which is what "running a job twice changes no row counts"
  (`test_idempotency.py:2`) comes to when runs may also die, go unheard or have
  company. Two runs that *overlap* can both find nothing and both write; the look and
  the store are two transactions, and nothing prevents it.
- `ExitTellsTruth`: after exit code 0 the run is on record as successful or skipped,
  and its content is in bronze. `CollectionPromised`: the same for the record itself,
  from the first row on and in every interleaving: IngestPipeline implements
  Collection. `ContainerEnds`: no container hangs, neither waiting for PostgreSQL nor
  for another one's insert.
- `HooksSuffice`: while nobody goes round the hooks, the whole tree stays free of
  payloads and of plain mentions of the tempo, and its two runners, if it has both,
  at parity, though the hooks look at changes only. Of a runner that is deleted or
  moved away the hooks see nothing (section 6), but while it is away no change of the
  other one gets past them, and the tree has both again only at parity. `GreenIsClean`: green means clean, whatever happened
  before, except for three things the code cannot see: a failure of git, a quoted
  path, a licence text that misleads. Of these three it says nothing; they are real,
  and CI is green in spite of them. `HeadIsJudged`: cancelling goes on for as long
  as pushing does, and no longer.

**Why the bounds are enough.** *Limiter*: contention takes two callers of one
host, independence a third elsewhere; three intervals lie below, between and above
the two base intervals; `Horizon` is the longest interval. *Policy*: threads meet
only in one cache entry, so two of them show every overtaking, and two origins show
that entries are not mixed up; ages beyond the TTL are all alike. *Client*: one
thread, because threads of a client meet only in the limiter and the policy, which
have several threads in their own runs. `DelayObeyed` is meant for one thread: with
several, another one may read a new Crawl-delay in the middle of a call, which goes
on with the old one (`client.py:113-119`). Three attempts are a first, a middle and a
last one; backoff 1, 2, 2 reaches its cap; one redirect is enough to leave the
origin, and the twenty httpx allows repeat it. *Runner*: two runs are what it takes
for one to lie behind another; the theorems remove the bound. *Bronze*: two writers
of one key, three rows for two equally old and one older or younger; the theorems
remove the bound. *Pipeline*: two processes overlap in
every way two runs can, and one of them alone can run twice; two moments let their
documents be equally old or not; a wait of two seconds ends before, at and after its
deadline. *Guards*: the guards look at one respect of a tree each and the trees
have one deviation each, which a commit repairs or replaces by another; two pushes are
one that is cancelled and one that is not. The theorems remove both bounds. They
remove those of the limiter, the policy, the client and the pipeline, too.

**Fairness.** Only what the code or its surroundings justify:

- Limiter (`FairFor(h)`): time passes, a free lock is taken by *one of* its waiters,
  a finished sleep is noticed. `threading.Lock` is not fair, so no single caller is
  promised the lock, and nobody has to call `wait`.
- Policy and client: time passes, and threads go on with what they do by themselves
  (`Proceeds`). Sites owe nothing: they may fail, redirect or turn away for ever, and
  no request and no fetch of `robots.txt` needs to end. No single thread is promised a
  lock, and callers need not call.
- Status: time passes, and somebody keeps asking. Jobs need not run, end or close.
- Pipeline: a process that can go on does (`Progress`), whichever alternative is
  open to it. Faults need not happen, time need not pass, PostgreSQL need not come
  up, and nobody has to start a container.
- Compliance: a job that is not cancelled runs on. Nobody has to commit or push.
- Bronze has no liveness property.

## 4. What is proved

Each holds for every value of the constants that the modules' `ASSUME`s admit.
They say that sentinels (`NoThread`, `NoRow`, `NoEntry`, ...) are not among the
values they stand in for, that numbers are naturals, that no interval exceeds
`Horizon`, and that jobs have sources. A module that composes others assumes for
them what they assume for themselves.

| Module | Theorem | States |
|---|---|---|
| `RateLimiterProofs` | `LimiterTypes`, `LimiterLocks`, `SleepsSuffice` | `LimiterTypeOK`, `LockDiscipline`, `SleepSuffices` |
| | `LimiterImplementsGates` | `GatesImplemented`: the limiter implements one `HostGate` per host |
| `RobotsPolicyProofs` | `RobotsTypes`, `PermissionsAreFresh` | `RobotsTypeOK`, `PermissionIsFresh` |
| `PoliteClientProofs` | `ClientTypes`, `RetryAftersHonoured` | `ClientTypeOK`, `RetryAfterHonoured` |
| | `EveryAttemptWaits` | at every attempt of any thread the host has had the rest its call's Crawl-delay asks for |
| | `LoneThreadObeysDelay` | `DelayObeyed`, if there is one thread |
| | `PartsBehave` | the client implements RateLimiter and RobotsPolicy |
| | `ClientsMeetGates`, `ClientsPermissionsAreFresh` | `GatesImplemented` and `PermissionIsFresh` of the parts inside the client |
| `JobRunnerProofs` | `RunnerTypes`, `AttemptsAreRecorded`, `RecordIsHonest` | `RunnerTypeOK`, `NoWorkUnrecorded`, `LedgerHonest` |
| | `RecordIsPermanent` | `FinalStays` |
| `StatusReportProofs` | `StatusOnlyReads` | beside `emeye status` jobs run as JobRunner says |
| | `RecordIsHonestBesideStatus`, `RecordIsPermanentBesideStatus` | so the record is honest and permanent there, too |
| | `DeadRunsAreReported` | `DeadRunsNeverClear` |
| `BronzeProofs` | `BronzeTypes`, `BronzeIsGuarded`, `LatestIsWellDefined` | `BronzeTypeOK`, `NeverUnguarded`, `LatestIsOne` |
| | `BronzeIsAppendOnly` | short of a downgrade no step removes or changes a document |
| | `ReplaysAreRepeatable` | `ReplaysExtend` |
| `IngestPipelineProofs` | `PipelineTypes`, `NothingTwice`, `ZeroTellsTruth` | `PipelineTypeOK`, `NoSecondCopy`, `ExitTellsTruth` |
| | `CollectsAsPromised` | `CollectionPromised`: ledger and bronze implement `Collection` |
| | `PipelineRunsJobs`, `NothingIsLost` | the pipeline implements JobRunner; no final row and no document is ever lost |
| `ComplianceProofs` | `OneJobAtATime`, `HooksAreEnough`, `GreenCanBeRelied` | `ComplianceTypeOK`, `HooksSuffice`, `GreenIsClean` |

**The arguments.** Every module has an inductive invariant (`LimiterInv`,
`RobotsInv`, `ClientInv`, ...): its initial states satisfy it and every action keeps
it. In most cases the property itself is not inductive, and what is added is the
reason why the code works.

*Limiter.* `LimiterTypeOK /\ LockDiscipline /\ SleepSuffices` is inductive. That a
sleep is long enough when it ends is `SleepSuffices`, and it survives other
threads' steps only because they cannot stamp the host of a sleeper: a stamp needs
the lock, and the sleeper has it. Refinement then goes action by action: `EnterWait`
is `Ask`, `Stamp` is `Admit`, `Interrupt` is `Withdraw`, `PassTime` is `GateTick` or
stutters at `Horizon`, the others stutter; and every step of one host is a stutter
of every other.

*Policy.* A permission that comes out of the cache is fresh because every permission
there is, in the cache or in the hands of a thread that has not stored it yet, is at
least as old as the last one its origin gave (`YesBehind`). A store that comes late
brings its age with it, which is why nobody needs a lock.

*Client.* The client is proved from its parts. Every step of `get` is a step of the
limiter and one of the policy, or nothing to them (`StepOfParts`): that is
`PartsBehave`, and what is proved of the parts is used as it is, as instances
`LimiterP` and `RobotsP` of their proof modules. Left to prove is what a call's
locals have to do with them: `Position` (where the call is, where its thread waits,
with which host and interval) and `Owing` (within a call the nap covers what is left
of the `Retry-After`, and after the nap nothing is). For the Crawl-delay of a lone
thread, `Told` adds that the delay a call carries is the one on file. It is not
invariant with two threads, and `DelayObeyed` is then not true: one of them may read
a new `robots.txt` while the other waits with the old delay.

*Runner.* `LedgerHonest` alone is not inductive: closing writes the status the
process carries into the row it carries. `RunnerInv` adds that a process at work
has a row of its own, still open, and that what it is about to write is what its
run came to (`RunsInHand`), that numbers not yet given out are untouched
(`Untouched`), and that no two processes share a run (in `RunnerTypeOK`).

*Status.* The command changes no variable of JobRunner, so `RunnerInv` holds beside
it. A run that is dead is in nobody's hands; `RowToClose` is always the closer's own
row, and numbers are not given out twice: so it stays dead, and stale once it is.
`DeadRunsNeverClear` is the safety half of `DeadRunsSurface`.

*Bronze.* `LatestIsOne` is about committed rows, and commits add rows that were
checked when they were inserted. `OneOfAKey` therefore includes the pending rows:
no two rows, committed or not, have one key. `BronzeTypeOK` does the same for ids.
For the replays: an answer has as many places as there are rows and lists them all,
so it lists each once (a surjection between finite sets of one size is an injection);
fetch time and id order the rows in one way only (`OneOrder`); so the places of any
two answers agree (`PlacesAreOrder`), whatever was committed in between.

*Pipeline.* A step is one of the ledger and one of bronze, or nothing to them, so
`RunnerInv` and `BronzeInv` hold (the latter through the instance `LakeP`). What they
have to do with each other is `InTheBody`: a process that missed, or is storing, has
a run whose content was not there when it began; one that hit, or closes with a good
status, has its content in bronze, which only grows. From there it reaches the rows
(`GoodRowsHeld`), and from the rows the exit code (`LeftBehind`). Refinement: the
commits of `_open_run` enter, the commit of `store_document` keeps, the commits of
`_close_run` conclude; everything else stutters.

*Guards.* `HooksSuffice` is inductive: a file that a commit did not change was clean
before (`ChangesSuffice`); and if the parity hook was skipped, a runner is missing, or
both are what they were (`RunnersKeepParity`). `GreenIsClean` is not: a job is green because of the steps
that came before, so `StepsBehind` says, for every step a job is at, what the ones
behind it have established about its tree. `ComplianceInv` is both, with
`ComplianceTypeOK`.

**Only model-checked.** The liveness properties (`HostsIndependent`,
`VerdictsConverge`, `CallEnds`, `DeadRunsSurface`, `FailuresSurface`,
`ContainerEnds`, `HeadIsJudged`): liveness under fairness is out of the prover's
reach. The counterexamples of section 5. Every other property of the runs is also
a theorem, `DelayObeyed` with the restriction that it has by its nature.

## 5. Where the program does not do what it says

Each is a run whose counterexample is a behaviour of the code.

| Run | The text | The code |
|---|---|---|
| `retry_after` | "Retry-After is obeyed absolutely" (`client.py:162`) | `get` leaves its loop on the last attempt before it reads `Retry-After` (`client.py:159`); the next call goes out at once. Checked with one attempt per call. |
| `denial_blocks` | "an unreadable robots.txt blocks the request" (`.planning/phases/02-ingestion/02-02-PLAN.md:21`) | `get` asks the policy twice (`client.py:110`, `:113`) and judges the first answer only. If the entry expires in between and the second fetch fails, the request goes out, without a Crawl-delay. |
| `redirects` | "Every request consults robots.txt for its host" (same line) | httpx follows redirects (`client.py:84`) to other hosts, whose origins nobody asked the policy about. (The policy goes by origin, `scheme://netloc`, not by host.) |
| `wire_spacing` | "a minimum interval between requests to the same host" (`limiter.py:19`) | The stamp is taken when a caller is let through; a request that is slow to get out can be followed closely by the next. |
| `stale_runs` | "That means a process died mid-run" (`status.py:98`) | Only the age of the row is looked at; a run longer than the threshold is reported while it works. |

## 6. Assumptions and limits

- **Clocks.** Wall clocks of several processes agree and give different
  `started_at` to different runs. Time is discrete; a unit is as small as one likes,
  and every duration is a constant.
- **Transactions** are atomic and durable, DDL is transactional and locks the table
  as PostgreSQL does. Serialization anomalies play no part: a transaction of the
  modelled code is one statement, or (`_close_run`) reads and updates a row nobody
  else writes.
- **The trigger** is a row trigger before UPDATE or DELETE. TRUNCATE does not fire
  it, and is not among the statements of `Tamper`.
- **Several clients.** A limiter belongs to one client; two clients, or two
  processes, do not wait for each other. The code does not claim they do.
- **Left out as data:** response bodies, URLs beyond their origin, error texts,
  counts beyond what decides the status, row contents beyond their hash.
- **Exit codes of a moment.** `emeye status` mixes the answers of two transactions. A
  code that is wrong for a moment is not held against it: `DeadRunsSurface` and
  `FailuresSurface` say what shows from some point on, `DeadRunsNeverClear` that a stale
  dead run is never missed, not even for a moment.
- **A deleted task runner** gets past the hooks with nobody going round them: the
  parity hook is limited to `Makefile` and `make.ps1` (`.pre-commit-config.yaml:43`) and
  pre-commit passes no deleted file. `HooksSuffice` therefore speaks of trees that have
  both runners. CI's parity step, which mirrors the hook (`ci.yml:8-10`), always runs and
  fails on such a tree.
- **What is staged** is what lies in the working tree; the scripts read the latter.
- **Licences.** `_NORMALIZE` yields only ids of `ALLOWED`, so a text that names a
  licence of `DENIED` is at best unresolved, and fails as that: `DENIED` decides
  nothing. The model has it all the same.
- **CI's other jobs** run linters and tests in containers; only the compliance job
  looks at the repository.
- **Not modelled, and why:** the registration of job classes (once, in one thread),
  the CLI root and its stub groups (dispatch, no state), settings (read once;
  constants here), logging (nothing reads it back), the scheduler (nothing is
  scheduled yet, `crontab:14`), the licence inventory file (formatting), migration
  0001's `schema_meta` (nothing reads it), creating a host's lock under the registry
  lock (atomic).

## 7. Plan

Done, in this order: HostGate and RateLimiter with proofs; RobotsPolicy;
PoliteClient and WireClock; JobRunner and StatusReport with proofs; Bronze with
proofs; Collection and IngestPipeline; Guards and Compliance with proofs; the proofs
of RobotsPolicy, IngestPipeline, PoliteClient and StatusReport.

What is left:

1. **The safety halves of the liveness properties**, as action properties and
   theorems, as `DeadRunsNeverClear` is one of `DeadRunsSurface`: that a container's
   wait only ever gets shorter and an attempt is never given back (`ContainerEnds`,
   `CallEnds`), that an entry younger than a settled answer agrees with it
   (`VerdictsConverge`).
2. **`CodesAfter` against the ledger**: what a code other than 0 says of the row.
