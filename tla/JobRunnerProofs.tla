-------------------------- MODULE JobRunnerProofs ---------------------------
(***************************************************************************)
(* What the log of record guarantees for every number of processes, jobs,  *)
(* sources and runs.  LedgerHonest is not inductive: it needs to know      *)
(* (RunsInHand) that a process that is about to close a run has the run to *)
(* itself, that its row is still open, and that what it will write is what *)
(* the body did.                                                           *)
(***************************************************************************)
EXTENDS JobRunner, TLAPS

\* Run numbers not handed out yet have left no trace.
Untouched == \A r \in Runs : r > starts => rows[r] = NoRow /\ did[r] = "nothing"

\* What is known of the run a process has in hand.
InHand(p) ==
  LET r == proc[p].run
  IN /\ proc[p].at # "idle" => r \in 1..starts /\ proc[p].job \in Jobs
     /\ proc[p].at = "opening" => rows[r] = NoRow /\ did[r] = "nothing"
     /\ proc[p].at = "working" => did[r] = "working"
     /\ proc[p].at = "closing" => did[r] = proc[p].status /\ did[r] \in Final
     /\ Working(p) => rows[r] # NoRow /\ rows[r].status = "started"

RunsInHand == \A p \in Processes : InHand(p)

RunnerInv ==
  /\ RunnerTypeOK
  /\ Untouched
  /\ RunsInHand
  /\ NoWorkUnrecorded
  /\ LedgerHonest

-----------------------------------------------------------------------------
LEMMA RunnerInitInv == RunnerInit => RunnerInv
<1> SUFFICES ASSUME RunnerInit PROVE RunnerInv
  OBVIOUS
<1>1. RunnerTypeOK
  BY RunnerAssumption DEF RunnerInit, RunnerTypeOK, Idle, ProcStates
<1> QED
  BY <1>1 DEF RunnerInit, RunnerInv, Untouched, RunsInHand, InHand, Working, Idle,
              NoWorkUnrecorded, LedgerHonest

\* Ages stay in range.
LEMMA OlderInRange ==
  ASSUME NEW a \in 0..(StaleAfter + 1)
  PROVE  Older(a) \in 0..(StaleAfter + 1)
BY RunnerAssumption DEF Older

\* The statuses a body ends with are final ones.
LEMMA OutcomesAreFinal == Outcomes \subseteq Final
BY DEF Outcomes, StatusOf, Final

-----------------------------------------------------------------------------
\* One lemma per action.

LEMMA BeginKeeps ==
  ASSUME RunnerInv, NEW p \in Processes, NEW j \in Jobs, Begin(p, j)
  PROVE  RunnerInv'
<1> DEFINE q == [at |-> "opening", job |-> j, run |-> starts + 1, age |-> 0,
                 status |-> "none"]
<1>1. /\ starts \in 0..MaxRuns /\ starts < MaxRuns /\ starts' = starts + 1
      /\ proc' = [proc EXCEPT ![p] = q]
      /\ UNCHANGED <<rows, did>>
      /\ MaxRuns \in Nat /\ StaleAfter \in Nat
  BY RunnerAssumption DEF Begin, RunFor, RunnerInv, RunnerTypeOK
<1>2. \A u \in Processes : proc[u].at # "idle" => proc[u].run \in 1..starts
  BY DEF RunnerInv, RunsInHand, InHand
<1>3. starts + 1 \in Runs /\ rows[starts + 1] = NoRow /\ did[starts + 1] = "nothing"
  BY <1>1 DEF RunnerInv, Untouched, Runs
<1>4. proc'[p] = q /\ \A u \in Processes \ {p} : proc'[u] = proc[u]
  BY <1>1 DEF RunnerInv, RunnerTypeOK
<1>5. RunnerTypeOK'
  <2>1. q \in ProcStates
    BY <1>1 DEF ProcStates
  <2>2. proc' \in [Processes -> ProcStates]
    BY <1>1, <2>1 DEF RunnerInv, RunnerTypeOK
  <2>3. \A u \in Processes \ {p} : proc[u].at # "idle" => proc[u].run # starts + 1
    BY <1>1, <1>2
  <2> QED
    BY <1>1, <1>4, <2>2, <2>3 DEF RunnerInv, RunnerTypeOK
<1>6. Untouched'
  BY <1>1 DEF RunnerInv, Untouched, Runs
<1>7. RunsInHand'
  BY <1>1, <1>2, <1>3, <1>4 DEF RunnerInv, RunsInHand, InHand, Working
<1>8. NoWorkUnrecorded' /\ LedgerHonest'
  BY <1>1 DEF RunnerInv, NoWorkUnrecorded, LedgerHonest
<1> QED
  BY <1>5, <1>6, <1>7, <1>8 DEF RunnerInv

\* What a process in hand of a run knows, spelled out for one process.
LEMMA HandFacts ==
  ASSUME RunnerInv, NEW p \in Processes, proc[p].at # "idle"
  PROVE  /\ proc[p].run \in Runs /\ proc[p].run <= starts /\ proc[p].job \in Jobs
         /\ proc[p].age \in 0..(StaleAfter + 1)
         /\ \A u \in Processes \ {p} : proc[u].at # "idle" => proc[u].run # proc[p].run
         /\ StartedRow(p) \in RunRows /\ StartedRow(p) # NoRow
<1>1. proc[p].run \in 1..starts /\ proc[p].job \in Jobs
  BY DEF RunnerInv, RunsInHand, InHand
<1>2. /\ starts \in 0..MaxRuns /\ MaxRuns \in Nat /\ proc[p].age \in 0..(StaleAfter + 1)
  BY RunnerAssumption DEF RunnerInv, RunnerTypeOK, ProcStates
<1>3. StartedRow(p) \in RunRows
  BY <1>1, <1>2 DEF StartedRow, RunRows
<1> QED
  BY <1>1, <1>2, <1>3, RunnerAssumption DEF Runs, RunnerInv, RunnerTypeOK

LEMMA OpenCommitsKeeps ==
  ASSUME RunnerInv, NEW p \in Processes, OpenCommits(p)
  PROVE  RunnerInv'
<1> DEFINE r == proc[p].run
<1>1. /\ proc[p].at = "opening"
      /\ rows' = [rows EXCEPT ![r] = StartedRow(p)]
      /\ did' = [did EXCEPT ![r] = "working"]
      /\ proc' = [proc EXCEPT ![p].at = "working"]
      /\ starts' = starts
  BY DEF OpenCommits
<1>2. /\ r \in Runs /\ r <= starts /\ proc[p].job \in Jobs
      /\ \A u \in Processes \ {p} : proc[u].at # "idle" => proc[u].run # r
      /\ StartedRow(p) \in RunRows /\ StartedRow(p) # NoRow
  BY <1>1, HandFacts
<1>3. /\ proc'[p] = [proc[p] EXCEPT !.at = "working"]
      /\ proc'[p].run = r
      /\ \A u \in Processes \ {p} : proc'[u] = proc[u]
  BY <1>1 DEF RunnerInv, RunnerTypeOK
<1>4. /\ rows'[r] = StartedRow(p) /\ rows'[r].status = "started" /\ did'[r] = "working"
      /\ \A s \in Runs \ {r} : rows'[s] = rows[s] /\ did'[s] = did[s]
  BY <1>1, <1>2 DEF RunnerInv, RunnerTypeOK, StartedRow
<1>5. RunnerTypeOK'
  <2>1. proc'[p] \in ProcStates
    BY <1>3 DEF RunnerInv, RunnerTypeOK, ProcStates
  <2>2. proc' \in [Processes -> ProcStates]
    BY <1>1, <1>3, <2>1 DEF RunnerInv, RunnerTypeOK
  <2>3. rows' \in [Runs -> RunRows \cup {NoRow}]
    BY <1>1, <1>2 DEF RunnerInv, RunnerTypeOK
  <2>4. did' \in [Runs -> Final \cup {"nothing", "working"}]
    BY <1>1, <1>2 DEF RunnerInv, RunnerTypeOK
  <2> QED
    BY <1>1, <1>2, <1>3, <2>2, <2>3, <2>4 DEF RunnerInv, RunnerTypeOK
<1>6. Untouched'
  BY <1>1, <1>2, <1>4 DEF RunnerInv, RunnerTypeOK, Untouched, Runs
<1>7. RunsInHand'
  <2> SUFFICES ASSUME NEW u \in Processes PROVE InHand(u)'
    BY DEF RunsInHand
  <2>1. CASE u = p
    BY <1>1, <1>2, <1>3, <1>4, <2>1 DEF InHand, Working, RunnerInv, RunsInHand, RunnerTypeOK
  <2>2. CASE u # p
    <3>1. InHand(u) /\ proc'[u] = proc[u] /\ starts' = starts
      BY <1>1, <1>3, <2>2 DEF RunnerInv, RunsInHand
    <3>2. proc[u].at # "idle" => proc[u].run \in Runs \ {r}
      BY <1>2, <2>2, HandFacts
    <3> QED
      BY <1>4, <3>1, <3>2 DEF InHand, Working
  <2> QED
    BY <2>1, <2>2
<1>8. NoWorkUnrecorded' /\ LedgerHonest'
  BY <1>2, <1>4 DEF RunnerInv, NoWorkUnrecorded, LedgerHonest
<1> QED
  BY <1>5, <1>6, <1>7, <1>8 DEF RunnerInv

\* A process leaves its run behind: what this means for proc alone.
LEMMA BackToIdle ==
  ASSUME RunnerInv, NEW p \in Processes, proc' = [proc EXCEPT ![p] = Idle]
  PROVE  /\ proc' \in [Processes -> ProcStates]
         /\ proc'[p] = Idle /\ Idle.at = "idle"
         /\ \A u \in Processes \ {p} : proc'[u] = proc[u]
         /\ \A u, v \in Processes :
              proc'[u].at # "idle" /\ proc'[v].at # "idle" /\ u # v
                => proc'[u].run # proc'[v].run
<1>1. Idle \in ProcStates /\ Idle.at = "idle"
  BY RunnerAssumption DEF Idle, ProcStates
<1>2. proc'[p] = Idle /\ \A u \in Processes \ {p} : proc'[u] = proc[u]
  BY DEF RunnerInv, RunnerTypeOK
<1>3. proc' \in [Processes -> ProcStates]
  BY <1>1 DEF RunnerInv, RunnerTypeOK
<1> QED
  BY <1>1, <1>2, <1>3 DEF RunnerInv, RunnerTypeOK

\* Leaving a run without touching its row or its record.
LEMMA LeavingKeeps ==
  ASSUME RunnerInv, NEW p \in Processes, proc' = [proc EXCEPT ![p] = Idle],
         UNCHANGED <<starts, rows, did>>
  PROVE  RunnerInv'
<1>1. RunnerTypeOK'
  BY BackToIdle DEF RunnerInv, RunnerTypeOK
<1>2. RunsInHand'
  <2> SUFFICES ASSUME NEW u \in Processes PROVE InHand(u)'
    BY DEF RunsInHand
  <2>1. CASE u = p
    BY <2>1, BackToIdle DEF InHand, Working
  <2>2. CASE u # p
    BY <2>2, BackToIdle DEF RunnerInv, RunsInHand, InHand, Working
  <2> QED
    BY <2>1, <2>2
<1> QED
  BY <1>1, <1>2 DEF RunnerInv, Untouched, NoWorkUnrecorded, LedgerHonest

LEMMA OpenUnacknowledgedKeeps ==
  ASSUME RunnerInv, NEW p \in Processes, OpenUnacknowledged(p)
  PROVE  RunnerInv'
<1> DEFINE r == proc[p].run
<1>1. /\ proc[p].at = "opening"
      /\ rows' = [rows EXCEPT ![r] = StartedRow(p)]
      /\ proc' = [proc EXCEPT ![p] = Idle]
      /\ starts' = starts /\ did' = did
  BY DEF OpenUnacknowledged
<1>2. /\ r \in Runs /\ r <= starts
      /\ \A u \in Processes \ {p} : proc[u].at # "idle" => proc[u].run # r
      /\ StartedRow(p) \in RunRows /\ StartedRow(p) # NoRow
  BY <1>1, HandFacts
<1>3. /\ rows'[r] = StartedRow(p) /\ rows'[r].status = "started"
      /\ \A s \in Runs \ {r} : rows'[s] = rows[s]
  BY <1>1, <1>2 DEF RunnerInv, RunnerTypeOK, StartedRow
<1>4. RunnerTypeOK'
  <2>1. rows' \in [Runs -> RunRows \cup {NoRow}]
    BY <1>1, <1>2 DEF RunnerInv, RunnerTypeOK
  <2> QED
    BY <1>1, <2>1, BackToIdle DEF RunnerInv, RunnerTypeOK
<1>5. Untouched'
  BY <1>1, <1>2, <1>3 DEF RunnerInv, RunnerTypeOK, Untouched, Runs
<1>6. RunsInHand'
  <2> SUFFICES ASSUME NEW u \in Processes PROVE InHand(u)'
    BY DEF RunsInHand
  <2>1. CASE u = p
    BY <1>1, <2>1, BackToIdle DEF InHand, Working
  <2>2. CASE u # p
    <3>1. InHand(u) /\ proc'[u] = proc[u]
      BY <1>1, <2>2, BackToIdle DEF RunnerInv, RunsInHand
    <3>2. proc[u].at # "idle" => proc[u].run \in Runs \ {r}
      BY <1>2, <2>2, HandFacts
    <3> QED
      BY <1>1, <1>3, <3>1, <3>2 DEF InHand, Working
  <2> QED
    BY <2>1, <2>2
<1>7. NoWorkUnrecorded' /\ LedgerHonest'
  BY <1>1, <1>2, <1>3 DEF RunnerInv, NoWorkUnrecorded, LedgerHonest
<1> QED
  BY <1>4, <1>5, <1>6, <1>7 DEF RunnerInv

LEMMA BodyEndsKeeps ==
  ASSUME RunnerInv, NEW p \in Processes, NEW status \in Final, BodyEnds(p, status)
  PROVE  RunnerInv'
<1> DEFINE r == proc[p].run
<1>1. /\ proc[p].at = "working"
      /\ did' = [did EXCEPT ![r] = status]
      /\ proc' = [proc EXCEPT ![p].at = "closing", ![p].status = status]
      /\ starts' = starts /\ rows' = rows
  BY DEF BodyEnds
<1>2. /\ r \in Runs /\ r <= starts /\ proc[p].job \in Jobs
      /\ \A u \in Processes \ {p} : proc[u].at # "idle" => proc[u].run # r
      /\ rows[r] # NoRow /\ rows[r].status = "started"
  BY <1>1, HandFacts DEF RunnerInv, RunsInHand, InHand, Working
<1>3. /\ proc'[p] = [proc[p] EXCEPT !.at = "closing", !.status = status]
      /\ \A u \in Processes \ {p} : proc'[u] = proc[u]
  BY <1>1 DEF RunnerInv, RunnerTypeOK
<1>4. /\ proc'[p].at = "closing" /\ proc'[p].status = status
      /\ proc'[p].run = r /\ proc'[p].job = proc[p].job /\ proc'[p] \in ProcStates
  BY <1>3 DEF RunnerInv, RunnerTypeOK, ProcStates
<1>5. did'[r] = status /\ \A s \in Runs \ {r} : did'[s] = did[s]
  BY <1>1, <1>2 DEF RunnerInv, RunnerTypeOK
<1>6. RunnerTypeOK'
  <2>1. proc' \in [Processes -> ProcStates]
    BY <1>1, <1>3, <1>4 DEF RunnerInv, RunnerTypeOK
  <2>2. did' \in [Runs -> Final \cup {"nothing", "working"}]
    BY <1>1 DEF RunnerInv, RunnerTypeOK
  <2> QED
    BY <1>1, <1>2, <1>3, <1>4, <2>1, <2>2 DEF RunnerInv, RunnerTypeOK
<1>7. Untouched'
  BY <1>1, <1>2, <1>5 DEF RunnerInv, RunnerTypeOK, Untouched, Runs
<1>8. RunsInHand'
  <2> SUFFICES ASSUME NEW u \in Processes PROVE InHand(u)'
    BY DEF RunsInHand
  <2>1. CASE u = p
    BY <1>1, <1>2, <1>4, <1>5, <2>1
    DEF InHand, Working, RunnerInv, RunsInHand, RunnerTypeOK
  <2>2. CASE u # p
    <3>1. InHand(u) /\ proc'[u] = proc[u]
      BY <1>3, <2>2 DEF RunnerInv, RunsInHand
    <3>2. proc[u].at # "idle" => proc[u].run \in Runs \ {r}
      BY <1>2, <2>2, HandFacts
    <3> QED
      BY <1>1, <1>5, <3>1, <3>2 DEF InHand, Working
  <2> QED
    BY <2>1, <2>2
<1>9. NoWorkUnrecorded' /\ LedgerHonest'
  BY <1>1, <1>2, <1>5 DEF RunnerInv, NoWorkUnrecorded, LedgerHonest, Final
<1> QED
  BY <1>6, <1>7, <1>8, <1>9 DEF RunnerInv

LEMMA CloseCommitsKeeps ==
  ASSUME RunnerInv, NEW p \in Processes, CloseCommits(p)
  PROVE  RunnerInv'
<1> DEFINE r == proc[p].run
<1>1. /\ proc[p].at = "closing"
      /\ proc' = [proc EXCEPT ![p] = Idle]
      /\ starts' = starts /\ did' = did
  BY DEF CloseCommits
<1>2. /\ r \in Runs /\ r <= starts
      /\ \A u \in Processes \ {p} : proc[u].at # "idle" => proc[u].run # r
      /\ rows[r] # NoRow /\ did[r] = proc[p].status /\ did[r] \in Final
  BY <1>1, HandFacts DEF RunnerInv, RunsInHand, InHand, Working
<1>3. rows' = [rows EXCEPT ![r].status = proc[p].status]
  BY <1>2 DEF CloseCommits, RowToClose
<1>4. rows[r] \in RunRows
  BY <1>2 DEF RunnerInv, RunnerTypeOK
<1>5. /\ rows'[r] = [rows[r] EXCEPT !.status = proc[p].status]
      /\ \A s \in Runs \ {r} : rows'[s] = rows[s]
  BY <1>2, <1>3 DEF RunnerInv, RunnerTypeOK
<1>6. rows'[r] \in RunRows /\ rows'[r].status = did[r]
  BY <1>2, <1>4, <1>5 DEF RunRows
<1>7. RunnerTypeOK'
  <2>1. rows' \in [Runs -> RunRows \cup {NoRow}]
    BY <1>2, <1>3, <1>5, <1>6 DEF RunnerInv, RunnerTypeOK
  <2> QED
    BY <1>1, <2>1, BackToIdle DEF RunnerInv, RunnerTypeOK
<1>8. Untouched'
  BY <1>1, <1>2, <1>5 DEF RunnerInv, RunnerTypeOK, Untouched, Runs
<1>9. RunsInHand'
  <2> SUFFICES ASSUME NEW u \in Processes PROVE InHand(u)'
    BY DEF RunsInHand
  <2>1. CASE u = p
    BY <1>1, <2>1, BackToIdle DEF InHand, Working
  <2>2. CASE u # p
    <3>1. InHand(u) /\ proc'[u] = proc[u]
      BY <1>1, <2>2, BackToIdle DEF RunnerInv, RunsInHand
    <3>2. proc[u].at # "idle" => proc[u].run \in Runs \ {r}
      BY <1>2, <2>2, HandFacts
    <3> QED
      BY <1>1, <1>5, <3>1, <3>2 DEF InHand, Working
  <2> QED
    BY <2>1, <2>2
<1>10. NoWorkUnrecorded' /\ LedgerHonest'
  <2>1. rows'[r] # NoRow
    BY <1>6, RunnerAssumption
  <2> QED
    BY <1>1, <1>2, <1>5, <1>6, <2>1 DEF RunnerInv, NoWorkUnrecorded, LedgerHonest
<1> QED
  BY <1>7, <1>8, <1>9, <1>10 DEF RunnerInv

\* Time does nothing but make rows (and what is about to be one) older.
LEMMA AgeRunsChanges ==
  ASSUME RunnerInv, AgeRuns
  PROVE  /\ \A r \in Runs : /\ rows[r] = NoRow => rows'[r] = NoRow
                            /\ rows[r] # NoRow => /\ rows'[r] \in RunRows
                                                  /\ rows'[r] # NoRow
                                                  /\ rows'[r].job = rows[r].job
                                                  /\ rows'[r].status = rows[r].status
         /\ \A p \in Processes : /\ proc'[p] \in ProcStates
                                 /\ proc'[p].at = proc[p].at
                                 /\ proc'[p].job = proc[p].job
                                 /\ proc'[p].run = proc[p].run
                                 /\ proc'[p].status = proc[p].status
<1>1. ASSUME NEW r \in Runs, rows[r] # NoRow
      PROVE  /\ rows'[r] \in RunRows /\ rows'[r] # NoRow
             /\ rows'[r].job = rows[r].job /\ rows'[r].status = rows[r].status
  <2>1. rows[r] \in RunRows
    BY <1>1 DEF RunnerInv, RunnerTypeOK
  <2>2. rows'[r] = [rows[r] EXCEPT !.age = Older(rows[r].age)]
    BY <1>1 DEF AgeRuns
  <2>3. Older(rows[r].age) \in 0..(StaleAfter + 1)
    BY <2>1, OlderInRange DEF RunRows
  <2>4. rows'[r] \in RunRows
    BY <2>1, <2>2, <2>3 DEF RunRows
  <2> QED
    BY <2>1, <2>2, <2>4, RunnerAssumption DEF RunRows
<1>2. ASSUME NEW p \in Processes
      PROVE  /\ proc'[p] \in ProcStates /\ proc'[p].at = proc[p].at
             /\ proc'[p].job = proc[p].job /\ proc'[p].run = proc[p].run
             /\ proc'[p].status = proc[p].status
  <2>1. proc[p] \in ProcStates
    BY DEF RunnerInv, RunnerTypeOK
  <2>2. proc'[p] = IF proc[p].at = "opening"
                   THEN [proc[p] EXCEPT !.age = Older(proc[p].age)] ELSE proc[p]
    BY DEF AgeRuns
  <2>3. Older(proc[p].age) \in 0..(StaleAfter + 1)
    BY <2>1, OlderInRange DEF ProcStates
  <2> QED
    BY <2>1, <2>2, <2>3 DEF ProcStates
<1>3. ASSUME NEW r \in Runs, rows[r] = NoRow PROVE rows'[r] = NoRow
  BY <1>3 DEF AgeRuns
<1> QED
  BY <1>1, <1>2, <1>3

LEMMA AgeRunsKeeps ==
  ASSUME RunnerInv, AgeRuns
  PROVE  RunnerInv'
<1>1. starts' = starts /\ did' = did
  BY DEF AgeRuns
<1>2. rows' \in [Runs -> RunRows \cup {NoRow}]
  <2>1. rows' = [r \in Runs |-> rows'[r]]
    BY DEF AgeRuns
  <2>2. \A r \in Runs : rows'[r] \in RunRows \cup {NoRow}
    BY AgeRunsChanges
  <2> QED
    BY <2>1, <2>2
<1>3. proc' \in [Processes -> ProcStates]
  <2>1. proc' = [p \in Processes |-> proc'[p]]
    BY DEF AgeRuns
  <2>2. \A p \in Processes : proc'[p] \in ProcStates
    BY AgeRunsChanges
  <2> QED
    BY <2>1, <2>2
<1>4. RunnerTypeOK'
  BY <1>1, <1>2, <1>3, AgeRunsChanges DEF RunnerInv, RunnerTypeOK
<1>5. Untouched' /\ NoWorkUnrecorded' /\ LedgerHonest'
  BY <1>1, AgeRunsChanges DEF RunnerInv, Untouched, NoWorkUnrecorded, LedgerHonest
<1>6. RunsInHand'
  <2> SUFFICES ASSUME NEW u \in Processes PROVE InHand(u)'
    BY DEF RunsInHand
  <2>1. InHand(u)
    BY DEF RunnerInv, RunsInHand
  <2>2. proc[u].at # "idle" => proc[u].run \in Runs
    BY HandFacts
  <2>3. /\ proc'[u].at = proc[u].at /\ proc'[u].job = proc[u].job
        /\ proc'[u].run = proc[u].run /\ proc'[u].status = proc[u].status
    BY AgeRunsChanges
  <2>4. proc[u].at \in {"idle", "opening", "working", "closing"}
    BY DEF RunnerInv, RunnerTypeOK, ProcStates
  <2> QED
    BY <1>1, <2>1, <2>2, <2>3, <2>4, AgeRunsChanges DEF InHand, Working
<1> QED
  BY <1>4, <1>5, <1>6 DEF RunnerInv

-----------------------------------------------------------------------------
LEMMA RunnerStepInv == RunnerInv /\ [RunnerNext]_runnerVars => RunnerInv'
<1> SUFFICES ASSUME RunnerInv, [RunnerNext]_runnerVars PROVE RunnerInv'
  OBVIOUS
<1>1. ASSUME NEW p \in Processes, NEW j \in Jobs, Begin(p, j) PROVE RunnerInv'
  BY <1>1, BeginKeeps
<1>2. ASSUME NEW p \in Processes, OpenCommits(p) PROVE RunnerInv'
  BY <1>2, OpenCommitsKeeps
<1>3. ASSUME NEW p \in Processes, OpenUnacknowledged(p) PROVE RunnerInv'
  BY <1>3, OpenUnacknowledgedKeeps
<1>4. ASSUME NEW p \in Processes, OpenFails(p) \/ Abandon(p) PROVE RunnerInv'
  BY <1>4, LeavingKeeps DEF OpenFails, Abandon
<1>5. ASSUME NEW p \in Processes, NEW status \in Outcomes, BodyEnds(p, status)
      PROVE  RunnerInv'
  BY <1>5, BodyEndsKeeps, OutcomesAreFinal
<1>6. ASSUME NEW p \in Processes, CloseCommits(p) PROVE RunnerInv'
  BY <1>6, CloseCommitsKeeps
<1>7. CASE AgeRuns
  BY <1>7, AgeRunsKeeps
<1>8. CASE UNCHANGED runnerVars
  <2>1. UNCHANGED <<starts, proc, rows, did>>
    BY <1>8 DEF runnerVars
  <2> QED
    BY <2>1 DEF RunnerInv, RunnerTypeOK, Untouched, RunsInHand, InHand, Working,
                NoWorkUnrecorded, LedgerHonest
<1> QED
  BY <1>1, <1>2, <1>3, <1>4, <1>5, <1>6, <1>7, <1>8 DEF RunnerNext

\* The inductive invariant holds throughout (runner.py:36-139).
THEOREM RunnerInvariant == RunnerSpec => []RunnerInv
BY RunnerInitInv, RunnerStepInv, PTL DEF RunnerSpec

\* However many processes run jobs at a time, no two share a run, and the table
\* and the processes' books stay well-formed.
THEOREM RunnerTypes == RunnerSpec => []RunnerTypeOK
<1>1. RunnerInv => RunnerTypeOK
  BY DEF RunnerInv
<1> QED
  BY <1>1, RunnerInvariant, PTL

\* Nothing is ever collected without a row that says it was attempted
\* (runner.py:36-42), for every number of processes, jobs and runs.
THEOREM AttemptsAreRecorded == RunnerSpec => []NoWorkUnrecorded
<1>1. RunnerInv => NoWorkUnrecorded
  BY DEF RunnerInv
<1> QED
  BY <1>1, RunnerInvariant, PTL

\* A final row says what its own run came to (runner.py:56-68, 89-126), for
\* every number of processes, jobs and runs.
THEOREM RecordIsHonest == RunnerSpec => []LedgerHonest
<1>1. RunnerInv => LedgerHonest
  BY DEF RunnerInv
<1> QED
  BY <1>1, RunnerInvariant, PTL

-----------------------------------------------------------------------------
\* What a step may do to a row that is there.
RowKept(r) ==
  rows[r] # NoRow =>
    /\ rows'[r] # NoRow
    /\ rows'[r].job = rows[r].job
    /\ rows[r].status \in Final => rows'[r].status = rows[r].status

\* Writing into a row that was not there, or was still open.
LEMMA OneRowWritten ==
  ASSUME RunnerInv, NEW s \in Runs, NEW row \in RunRows,
         rows' = [rows EXCEPT ![s] = row],
         rows[s] # NoRow => rows[s].status = "started" /\ row.job = rows[s].job
  PROVE  \A r \in Runs : RowKept(r)
<1> SUFFICES ASSUME NEW r \in Runs PROVE RowKept(r)
  OBVIOUS
<1>1. rows'[r] = IF r = s THEN row ELSE rows[r]
  BY DEF RunnerInv, RunnerTypeOK
<1>2. row # NoRow /\ "started" \notin Final
  BY RunnerAssumption DEF Final
<1> QED
  BY <1>1, <1>2 DEF RowKept

LEMMA StepKeepsRows ==
  RunnerInv /\ [RunnerNext]_runnerVars => \A r \in Runs : RowKept(r)
<1> SUFFICES ASSUME RunnerInv, [RunnerNext]_runnerVars PROVE \A r \in Runs : RowKept(r)
  OBVIOUS
<1>1. ASSUME NEW p \in Processes, OpenCommits(p) \/ OpenUnacknowledged(p)
      PROVE  \A r \in Runs : RowKept(r)
  <2>1. proc[p].at = "opening" /\ rows' = [rows EXCEPT ![proc[p].run] = StartedRow(p)]
    BY <1>1 DEF OpenCommits, OpenUnacknowledged
  <2>2. /\ proc[p].run \in Runs /\ StartedRow(p) \in RunRows
        /\ rows[proc[p].run] = NoRow
    BY <2>1, HandFacts DEF RunnerInv, RunsInHand, InHand
  <2> QED
    BY <2>1, <2>2, OneRowWritten
<1>2. ASSUME NEW p \in Processes, CloseCommits(p) PROVE \A r \in Runs : RowKept(r)
  <2> DEFINE s == proc[p].run
             row == [rows[s] EXCEPT !.status = proc[p].status]
  <2>1. /\ s \in Runs /\ rows[s] # NoRow /\ rows[s].status = "started"
        /\ proc[p].status \in Final
    BY <1>2, HandFacts DEF CloseCommits, RunnerInv, RunsInHand, InHand, Working
  <2>2. rows[s] \in RunRows
    BY <2>1 DEF RunnerInv, RunnerTypeOK
  <2>3. row \in RunRows /\ row.job = rows[s].job
    BY <2>1, <2>2 DEF RunRows
  <2>4. rows' = [rows EXCEPT ![s] = row]
    BY <1>2, <2>1 DEF CloseCommits, RowToClose
  <2> HIDE DEF row
  <2> QED
    BY <2>1, <2>3, <2>4, OneRowWritten
<1>3. CASE AgeRuns
  BY <1>3, AgeRunsChanges DEF RowKept
<1>4. CASE UNCHANGED rows
  BY <1>4 DEF RowKept
<1>5. AgeRuns \/ UNCHANGED rows
        \/ \E p \in Processes :
             OpenCommits(p) \/ OpenUnacknowledged(p) \/ CloseCommits(p)
  BY DEF RunnerNext, Begin, OpenFails, BodyEnds, Abandon, runnerVars
<1> QED
  BY <1>1, <1>2, <1>3, <1>4, <1>5

\* No step ever deletes a row or rewrites a final one (runner.py:56-68).
THEOREM RecordIsPermanent == RunnerSpec => FinalStays
<1>1. RunnerInv /\ [RunnerNext]_runnerVars =>
        [\A r \in Runs : rows[r] # NoRow =>
           /\ rows'[r] # NoRow
           /\ rows'[r].job = rows[r].job
           /\ rows[r].status \in Final => rows'[r].status = rows[r].status]_runnerVars
  BY StepKeepsRows DEF RowKept
<1> QED
  BY <1>1, RunnerInvariant, PTL DEF RunnerSpec, FinalStays
=============================================================================
