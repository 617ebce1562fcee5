------------------------ MODULE StatusReportProofs --------------------------
(***************************************************************************)
(* `emeye status` beside any number of jobs.  The command only reads, so   *)
(* what JobRunnerProofs shows of the table holds while it looks on; and a  *)
(* dead run, once stale, is reported by every status that comes after.     *)
(***************************************************************************)
EXTENDS StatusReport, JobRunnerProofs

\* What a step of the jobs or of the command is for the table.
LEMMA StatusStepOfRunner == [StatusNext]_statusVars => [RunnerNext]_runnerVars
BY DEF StatusNext, RunStep, Connect, Unreachable, NothingYet, ReadLatest, Conclude, Exits,
       statusVars, runnerVars

\* Looking on changes nothing: jobs beside `emeye status` are jobs (status.py
\* only selects), so every theorem of JobRunnerProofs holds beside it.
THEOREM StatusOnlyReads == StatusSpec => RunnerSpec
<1>1. StatusInit => RunnerInit
  BY DEF StatusInit
<1> QED
  BY <1>1, StatusStepOfRunner, PTL DEF StatusSpec, RunnerSpec

\* Beside `emeye status` too, what is on record stays on record.
THEOREM RecordIsPermanentBesideStatus == StatusSpec => FinalStays
BY StatusOnlyReads, RecordIsPermanent

\* Beside `emeye status` too, final rows tell the truth, nothing is collected
\* unrecorded and no two processes share a run.
THEOREM RecordIsHonestBesideStatus ==
  StatusSpec => [](RunnerTypeOK /\ NoWorkUnrecorded /\ LedgerHonest)
<1>1. RunnerInv => RunnerTypeOK /\ NoWorkUnrecorded /\ LedgerHonest
  BY DEF RunnerInv
<1> QED
  BY <1>1, StatusOnlyReads, RunnerInvariant, PTL

-----------------------------------------------------------------------------
\* A run that died.

\* Nobody has a dead run in hand, and its number is never handed out again.
LEMMA DeadIsOutOfHand ==
  ASSUME RunnerInv, NEW r \in Runs, Dead(r), NEW p \in Processes, proc[p].at # "idle"
  PROVE  proc[p].run # r
BY DEF RunnerInv, RunsInHand, InHand, Dead, Working, RunnerTypeOK, ProcStates

LEMMA DeadHasStarted ==
  ASSUME RunnerInv, NEW r \in Runs, Dead(r)
  PROVE  r <= starts /\ starts \in Nat /\ rows[r] \in RunRows
BY RunnerAssumption DEF RunnerInv, Untouched, Dead, Runs, RunnerTypeOK

\* Its row is left alone by everybody, but for growing older.
LEMMA DeadRowStays ==
  ASSUME RunnerInv, NEW r \in Runs, Dead(r), [RunnerNext]_runnerVars
  PROVE  /\ rows'[r] # NoRow /\ rows'[r].status = "started"
         /\ rows'[r].age \in {rows[r].age, Older(rows[r].age)}
<1>1. rows[r] # NoRow /\ rows[r].status = "started" /\ rows[r] \in RunRows
  BY DeadHasStarted DEF Dead
<1>2. ASSUME NEW p \in Processes,
             OpenCommits(p) \/ OpenUnacknowledged(p) \/ CloseCommits(p)
      PROVE  rows'[r] = rows[r]
  <2>1. proc[p].run # r
    BY <1>2, DeadIsOutOfHand DEF OpenCommits, OpenUnacknowledged, CloseCommits
  <2> QED
    BY <1>2, <2>1
    DEF OpenCommits, OpenUnacknowledged, CloseCommits, RowToClose, RunnerInv, RunnerTypeOK
<1>3. CASE AgeRuns
  <2>1. rows'[r] = [rows[r] EXCEPT !.age = Older(rows[r].age)]
    BY <1>1, <1>3 DEF AgeRuns
  <2>2. Older(rows[r].age) \in 0..(StaleAfter + 1)
    BY <1>1, OlderInRange DEF RunRows
  <2>3. rows'[r] \in RunRows /\ rows'[r].status = "started"
        /\ rows'[r].age = Older(rows[r].age)
    BY <1>1, <2>1, <2>2 DEF RunRows
  <2> QED
    BY <2>3, RunnerAssumption
<1>4. AgeRuns \/ rows' = rows
        \/ \E p \in Processes :
             OpenCommits(p) \/ OpenUnacknowledged(p) \/ CloseCommits(p)
  BY DEF RunnerNext, Begin, OpenFails, BodyEnds, Abandon, runnerVars
<1> QED
  BY <1>1, <1>2, <1>3, <1>4

\* Nobody takes up a run that died.
LEMMA DeadStaysDead ==
  ASSUME RunnerInv, NEW r \in Runs, Dead(r), [RunnerNext]_runnerVars
  PROVE  Dead(r)'
<1>1. ASSUME NEW p \in Processes, Working(p)', proc'[p].run = r
      PROVE  FALSE
  <2>1. ASSUME NEW u \in Processes, u # p,
               \/ \E j \in Jobs : Begin(u, j)
               \/ OpenCommits(u) \/ OpenUnacknowledged(u) \/ OpenFails(u)
               \/ \E status \in Outcomes : BodyEnds(u, status)
               \/ CloseCommits(u) \/ Abandon(u)
        PROVE  proc'[p] = proc[p]
    BY <2>1 DEF Begin, OpenCommits, OpenUnacknowledged, OpenFails, BodyEnds, CloseCommits,
                Abandon, RunnerInv, RunnerTypeOK
  <2>2. ASSUME \/ \E j \in Jobs : Begin(p, j)
               \/ OpenUnacknowledged(p) \/ OpenFails(p) \/ CloseCommits(p) \/ Abandon(p)
        PROVE  FALSE
    BY <1>1, <2>2 DEF Begin, OpenUnacknowledged, OpenFails, CloseCommits, Abandon, Idle,
                      Working, RunnerInv, RunnerTypeOK
  <2>3. ASSUME OpenCommits(p) \/ \E status \in Outcomes : BodyEnds(p, status)
        PROVE  proc[p].at # "idle" /\ proc'[p].run = proc[p].run
    BY <2>3 DEF OpenCommits, BodyEnds, RunnerInv, RunnerTypeOK, ProcStates
  <2>4. ASSUME AgeRuns
        PROVE  proc'[p].at = proc[p].at /\ proc'[p].run = proc[p].run
    BY <2>4 DEF AgeRuns, RunnerInv, RunnerTypeOK, ProcStates
  <2>5. proc[p].at # "idle" /\ proc[p].run = r
    BY <1>1, <2>1, <2>2, <2>3, <2>4 DEF RunnerNext, runnerVars, Working
  <2> QED
    BY <2>5, DeadIsOutOfHand
<1> QED
  BY <1>1, DeadRowStays DEF Dead

LEMMA StaleDeadStaysStale ==
  ASSUME RunnerInv, NEW r \in StaleRuns, Dead(r), [RunnerNext]_runnerVars
  PROVE  r \in StaleRuns'
<1>1. r \in Runs /\ rows[r].age > StaleAfter /\ rows[r] \in RunRows
  BY DeadHasStarted DEF StaleRuns
<1>2. Older(rows[r].age) = rows[r].age
  BY <1>1 DEF Older
<1> QED
  BY <1>1, <1>2, DeadRowStays DEF StaleRuns, Runs

\* However many jobs run on, a dead run that is stale stays so, and every
\* status from then on says that something is wrong.
THEOREM DeadRunsAreReported == StatusSpec => DeadRunsNeverClear
<1>1. ASSUME RunnerInv, [StatusNext]_statusVars, NEW r \in StaleRuns, Dead(r)
      PROVE  /\ r \in StaleRuns' /\ Dead(r)'
             /\ exit # "zero" => exit' # "zero"
  <2>1. r \in StaleRuns' /\ Dead(r)'
    BY <1>1, StatusStepOfRunner, StaleDeadStaysStale, DeadStaysDead DEF StaleRuns
  <2>2. ~NothingYet
    BY <1>1 DEF NothingYet, StaleRuns
  <2>3. Conclude => exit' = "one"
    BY <1>1 DEF Conclude, Exits, Suspicious
  <2>4. Unreachable => exit' = "one"
    BY DEF Unreachable, Exits
  <2> QED
    BY <1>1, <2>1, <2>2, <2>3, <2>4
    DEF StatusNext, RunStep, commandVars, Connect, ReadLatest, statusVars
<1>2. RunnerInv /\ [StatusNext]_statusVars =>
        [\A r \in StaleRuns : Dead(r) =>
           /\ r \in StaleRuns' /\ Dead(r)'
           /\ exit # "zero" => exit' # "zero"]_statusVars
  BY <1>1
<1> QED
  BY <1>2, StatusOnlyReads, RunnerInvariant, PTL DEF StatusSpec, DeadRunsNeverClear
=============================================================================
