------------------------ MODULE IngestPipelineProofs ------------------------
(***************************************************************************)
(* What `emeye ingest run` guarantees end to end, for every number of      *)
(* processes, jobs, runs and moments.                                      *)
(*                                                                         *)
(* The ledger's part and bronze's part of a step keep the invariants of    *)
(* their modules, and what is proved there is used here.  What is left is  *)
(* what the two have to do with each other, through the locals of a        *)
(* process (InTheBody) and through the rows (GoodRowsHeld): the exit code  *)
(* speaks of a row, the row of a document, and the document was looked for *)
(* or stored several transactions ago.                                     *)
(***************************************************************************)
EXTENDS IngestPipeline, JobRunnerProofs

LakeP == INSTANCE BronzeProofs WITH
  Writers <- Processes, Requests <- Jobs, EndpointOf <- [j \in Jobs |-> j],
  AnyEndpoint <- NoJob, MaxDocs <- MaxRuns

Good == {"succeeded", "skipped_cache"}

\* What is so about a process in run_job, between its transactions.
InTheBody(p) ==
  LET run == proc[p].run
  IN /\ proc[p].at # "idle" => box[p] = Running
     /\ storing[p].at # "out" =>
          /\ proc[p].at = "working" /\ seen[p] = "miss"
          /\ storing[p].request = proc[p].job /\ storing[p].content = Content(p)
     /\ storing[p].at = "inserted" => storing[p].doc.content = Content(p)
     /\ seen[p] # "unasked" => proc[p].at = "working"
     /\ seen[p] = "hit" => Lake!HasContent(Content(p))
     /\ seen[p] = "miss" => run \notin knew
     /\ proc[p].at = "opening" => run \notin knew \cup wrote
     /\ proc[p].at = "working" /\ run \in knew => Lake!HasContent(Content(p))
     /\ proc[p].at = "closing" /\ proc[p].status \in Good => Lake!HasContent(Content(p))
     /\ Working(p) => rows[run].job = proc[p].job

\* What the last command of a process left behind.
LeftBehind(p) ==
  exit[p].code = 0 =>
    /\ exit[p].run \in Runs /\ rows[exit[p].run] # NoRow
    /\ rows[exit[p].run].status \in Good

\* The content of every run that is on record as good is in bronze.
GoodRowsHeld ==
  \A r \in Runs : rows[r] # NoRow /\ rows[r].status \in Good =>
    Lake!HasContent(ContentOf[rows[r].job])

\* The observer's sets speak of runs that were started.
Observed == knew \cup wrote \subseteq 1..starts /\ NoSecondCopy

\* The locals of the processes; only a container that waits counts seconds.
Answers == {"unasked", "hit", "miss"}
Boxes == {b \in [at : {"gone", "waiting", "running"}, waited : 0..WaitTimeout] :
            b.at # "waiting" => b.waited = 0}
Exits == [code : ExitCodes, run : 0..MaxRuns]

Locals ==
  /\ seen \in [Processes -> Answers]
  /\ box \in [Processes -> Boxes]
  /\ exit \in [Processes -> Exits]

PipelineInv ==
  /\ RunnerInv
  /\ LakeP!BronzeInv
  /\ Locals
  /\ \A p \in Processes : InTheBody(p) /\ LeftBehind(p)
  /\ GoodRowsHeld
  /\ Observed

-----------------------------------------------------------------------------
\* Bronze's theorems speak of the lake.

LEMMA LakeAssumed == LakeP!BronzeAssumption
BY PipelineAssumption
DEF Lake!BronzeAssumption, LakeP!BronzeAssumption, Lake!Documents, LakeP!Documents,
    Lake!Ids, LakeP!Ids, Lake!Moments, LakeP!Moments

LEMMA LakeTypes == LakeP!BronzeTypeOK <=> Lake!BronzeTypeOK
BY DEF Lake!BronzeTypeOK, LakeP!BronzeTypeOK, Lake!Documents, LakeP!Documents,
       Lake!Ids, LakeP!Ids, Lake!Moments, LakeP!Moments, Lake!Stores, LakeP!Stores,
       Lake!Pending, LakeP!Pending

\* The part of process p in a step on bronze.
LakeStep(p) ==
  \/ /\ proc[p].at = "working"
     /\ Lake!Store(p, proc[p].job, Content(p), now)
  \/ Lake!Insert(p)
  \/ Lake!Commit(p)
  \/ Lake!RollBack(p)
  \/ UNCHANGED lakeVars

LEMMA ContentKnown ==
  ASSUME RunnerInv, NEW p \in Processes, proc[p].at # "idle"
  PROVE  Content(p) \in Contents /\ proc[p].job \in Jobs
BY HandFacts, PipelineAssumption DEF Content, Contents

\* What is in bronze stays there.
LEMMA ContentStays ==
  ASSUME docs \subseteq docs', NEW c, Lake!HasContent(c)
  PROVE  Lake!HasContent(c)'
BY DEF Lake!HasContent

LEMMA LakeStepKeeps ==
  ASSUME PipelineInv, NEW p \in Processes, LakeStep(p)
  PROVE  /\ LakeP!BronzeInv'
         /\ docs \subseteq docs'
         /\ \A q \in Processes \ {p} : storing'[q] = storing[q]
<1> USE LakeAssumed
<1>1. LakeP!BronzeInv /\ RunnerInv /\ storing \in [Processes -> LakeP!Stores]
  BY DEF PipelineInv, LakeP!BronzeInv, LakeP!BronzeTypeOK
<1>2. CASE proc[p].at = "working" /\ Lake!Store(p, proc[p].job, Content(p), now)
  <2>1. LakeP!Store(p, proc[p].job, Content(p), now)
    BY <1>2 DEF Lake!Store, LakeP!Store
  <2>2. proc[p].job \in Jobs /\ Content(p) \in Contents /\ now \in LakeP!Moments
    BY <1>1, <1>2, ContentKnown DEF LakeP!BronzeInv, LakeP!BronzeTypeOK
  <2>3. LakeP!BronzeInv'
    BY <1>1, <2>1, <2>2, LakeP!StoreKeeps
  <2> QED
    BY <1>1, <2>1, <2>3 DEF LakeP!Store
<1>3. CASE Lake!Insert(p)
  <2>1. LakeP!Insert(p)
    BY <1>3 DEF Lake!Insert, LakeP!Insert, Lake!Usable, LakeP!Usable, Lake!NewId,
                LakeP!NewId, Lake!Unique, LakeP!Unique, Lake!Pending, LakeP!Pending,
                Lake!RowFor, LakeP!RowFor, Lake!SameKey, LakeP!SameKey, Lake!Ids, LakeP!Ids
  <2>2. LakeP!BronzeInv'
    BY <1>1, <2>1, LakeP!InsertKeeps
  <2> QED
    BY <1>1, <2>1, <2>2 DEF LakeP!Insert
<1>4. CASE Lake!Commit(p) \/ Lake!RollBack(p)
  <2>1. LakeP!Commit(p) \/ LakeP!RollBack(p)
    BY <1>4 DEF Lake!Commit, LakeP!Commit, Lake!RollBack, LakeP!RollBack,
                Lake!NotStoring, LakeP!NotStoring
  <2>2. LakeP!BronzeInv'
    BY <1>1, <2>1, LakeP!EndKeeps
  <2> QED
    BY <1>1, <2>1, <2>2 DEF LakeP!Commit, LakeP!RollBack
<1>5. CASE UNCHANGED lakeVars
  <2>1. UNCHANGED LakeP!bronzeVars
    BY <1>5 DEF lakeVars, LakeP!bronzeVars
  <2>2. LakeP!BronzeInv'
    BY <1>1, <2>1, LakeP!BronzeStepInv
  <2> QED
    BY <1>5, <2>2 DEF lakeVars
<1> QED
  BY <1>2, <1>3, <1>4, <1>5 DEF LakeStep

\* The part of process p in a step on the ledger.
RunnerStep(p) ==
  \/ \E j \in Jobs : Begin(p, j)
  \/ OpenCommits(p)
  \/ OpenUnacknowledged(p)
  \/ OpenFails(p)
  \/ \E status \in Outcomes : BodyEnds(p, status)
  \/ CloseCommits(p)
  \/ Abandon(p)
  \/ UNCHANGED runnerVars

LEMMA RunnerStepKeeps ==
  ASSUME PipelineInv, NEW p \in Processes, RunnerStep(p)
  PROVE  /\ RunnerInv'
         /\ starts' >= starts /\ starts \in Nat /\ starts' \in Nat
         /\ \A r \in Runs : RowKept(r)
         /\ \A q \in Processes \ {p} : proc'[q] = proc[q]
<1>1. RunnerInv /\ [RunnerNext]_runnerVars
  BY DEF PipelineInv, RunnerStep, RunnerNext
<1>2. RunnerInv' /\ \A r \in Runs : RowKept(r)
  BY <1>1, RunnerStepInv, StepKeepsRows
<1>3. starts' >= starts /\ starts \in Nat /\ starts' \in Nat
  <2>1. starts \in 0..MaxRuns /\ MaxRuns \in Nat
    BY <1>1, RunnerAssumption DEF RunnerInv, RunnerTypeOK
  <2>2. starts' \in {starts, starts + 1}
    BY DEF RunnerStep, Begin, OpenCommits, OpenUnacknowledged, OpenFails, BodyEnds,
           CloseCommits, Abandon, runnerVars
  <2> QED
    BY <2>1, <2>2
<1>4. \A q \in Processes \ {p} : proc'[q] = proc[q]
  <2>1. proc \in [Processes -> ProcStates]
    BY <1>1 DEF RunnerInv, RunnerTypeOK
  <2> QED
    BY <2>1 DEF RunnerStep, Begin, OpenCommits, OpenUnacknowledged, OpenFails, BodyEnds,
                CloseCommits, Abandon, runnerVars
<1> QED
  BY <1>2, <1>3, <1>4

-----------------------------------------------------------------------------
\* Every step is one process's, or time's.

\* The part of process p in a step on the locals of the processes and on what the
\* observer wrote down.
LocalsStep(p) ==
  /\ seen' = seen \/ \E s \in Answers : seen' = [seen EXCEPT ![p] = s]
  /\ box' = box \/ \E b \in Boxes : box' = [box EXCEPT ![p] = b]
  /\ exit' = exit \/ \E e \in Exits : exit' = [exit EXCEPT ![p] = e]
  /\ knew' = knew \/ (proc[p].at = "opening" /\ knew' = knew \cup {proc[p].run})
  /\ wrote' = wrote \/ (seen[p] = "miss" /\ wrote' = wrote \cup {proc[p].run})

ProcessStep(p) ==
  \/ ContainerStarts(p)
  \/ ProbeConnects(p)
  \/ Progress(p)
  \/ Fault(p)

\* The exit of a container, whatever the code.
LEMMA ExitMeans ==
  ASSUME PipelineInv, NEW p \in Processes, NEW code \in ExitCodes, Exit(p, code)
  PROVE  /\ box' = [box EXCEPT ![p] = Gone] /\ Gone \in Boxes
         /\ exit' = [exit EXCEPT ![p] = [code |-> code, run |-> proc[p].run]]
         /\ [code |-> code, run |-> proc[p].run] \in Exits
<1>1. proc[p].run \in 0..MaxRuns
  BY DEF PipelineInv, RunnerInv, RunnerTypeOK, ProcStates
<1>2. Gone \in Boxes
  BY PipelineAssumption DEF Gone, Boxes
<1> QED
  BY <1>1, <1>2 DEF Exit, Exits

LEMMA WaitedInRange ==
  ASSUME PipelineInv, NEW p \in Processes, NEW spent \in Nat
  PROVE  WaitedAfter(p, spent) \in 0..WaitTimeout
<1>1. box[p].waited \in 0..WaitTimeout /\ WaitTimeout \in Nat
  BY PipelineAssumption DEF PipelineInv, Locals, Boxes
<1> QED
  BY <1>1 DEF WaitedAfter, Least

LEMMA BoxAlone ==
  ASSUME PipelineInv, NEW p \in Processes,
         ContainerStarts(p) \/ ProbeConnects(p) \/ ProbeFails(p) \/ TimesOut(p)
           \/ UnknownJob(p) \/ Disabled(p)
  PROVE  /\ UNCHANGED <<runnerVars, lakeVars, bodyVars>>
         /\ proc[p].at = "idle"
         /\ \E b \in Boxes : box' = [box EXCEPT ![p] = b]
         /\ exit' = exit \/ \E e \in Exits : e.code # 0 /\ exit' = [exit EXCEPT ![p] = e]
<1>1. box \in [Processes -> Boxes] /\ box[p] \in Boxes
  BY DEF PipelineInv, Locals
<1>2. proc[p].at = "idle"
  BY DEF PipelineInv, InTheBody, Running, ContainerStarts, ProbeConnects, ProbeFails, TimesOut,
         UnknownJob, Disabled, AtCommand
<1>3. CASE ContainerStarts(p)
  <2>1. PICK at \in {"waiting", "running"} : box' = [box EXCEPT ![p].at = at]
    BY <1>3 DEF ContainerStarts
  <2>2. [box[p] EXCEPT !.at = at] \in Boxes
    BY <1>1, <1>3 DEF Boxes, ContainerStarts
  <2>3. NoExit \in Exits /\ NoExit.code # 0
    BY RunnerAssumption DEF NoExit, Exits, ExitCodes
  <2> QED
    BY <1>1, <1>2, <1>3, <2>1, <2>2, <2>3 DEF ContainerStarts
<1>4. CASE ProbeConnects(p)
  <2>1. Running \in Boxes
    BY PipelineAssumption DEF Running, Boxes
  <2> QED
    BY <1>2, <1>4, <2>1 DEF ProbeConnects
<1>5. CASE ProbeFails(p)
  <2>1. PICK probing \in 0..2 :
          box' = [box EXCEPT ![p].waited = WaitedAfter(p, probing + 1)]
    BY <1>5 DEF ProbeFails
  <2>2. WaitedAfter(p, probing + 1) \in 0..WaitTimeout
    BY WaitedInRange
  <2>3. [box[p] EXCEPT !.waited = WaitedAfter(p, probing + 1)] \in Boxes
    BY <1>1, <1>5, <2>2 DEF Boxes, ProbeFails
  <2> QED
    BY <1>1, <1>2, <1>5, <2>1, <2>3 DEF ProbeFails
<1>6. CASE TimesOut(p) \/ UnknownJob(p) \/ Disabled(p)
  <2>1. PICK code \in {1, 2, 3} :
          Exit(p, code) /\ UNCHANGED <<runnerVars, lakeVars, bodyVars>>
    BY <1>6 DEF TimesOut, UnknownJob, Disabled
  <2>2. code \in ExitCodes /\ code # 0
    BY DEF ExitCodes
  <2> DEFINE e == [code |-> code, run |-> proc[p].run]
  <2>3. /\ box' = [box EXCEPT ![p] = Gone] /\ Gone \in Boxes
        /\ exit' = [exit EXCEPT ![p] = e] /\ e \in Exits /\ e.code # 0
    BY <2>1, <2>2, ExitMeans
  <2> HIDE DEF e
  <2> QED
    BY <1>2, <2>1, <2>3
<1> QED
  BY <1>3, <1>4, <1>5, <1>6

LEMMA StatusesAreOutcomes ==
  /\ StatusOf(1, 0) = "skipped_cache" /\ StatusOf(0, 1) = "succeeded"
  /\ {"failed", "skipped_cache", "succeeded"} \subseteq Outcomes
BY DEF StatusOf, Outcomes

\* What there is to show of a step of process p.
Fine(p) ==
  /\ RunnerStep(p) /\ LakeStep(p) /\ LocalsStep(p)
  /\ InTheBody(p)' /\ LeftBehind(p)'

LEMMA Functions ==
  ASSUME PipelineInv
  PROVE  /\ proc \in [Processes -> ProcStates]
         /\ storing \in [Processes -> LakeP!Stores]
         /\ seen \in [Processes -> Answers]
         /\ box \in [Processes -> Boxes]
         /\ exit \in [Processes -> Exits]
         /\ rows \in [Runs -> RunRows \cup {NoRow}]
BY DEF PipelineInv, RunnerInv, RunnerTypeOK, LakeP!BronzeInv, LakeP!BronzeTypeOK, Locals

\* What a process has in hand, once more, and with the other processes' runs.
LEMMA RunInHand ==
  ASSUME PipelineInv, NEW p \in Processes, proc[p].at # "idle"
  PROVE  /\ proc[p].run \in Runs /\ proc[p].run \in 1..starts
         /\ \A q \in Processes \ {p} : proc[q].at # "idle" => proc[q].run # proc[p].run
         /\ Working(p) => rows[proc[p].run] # NoRow /\ rows[proc[p].run].status = "started"
BY HandFacts DEF PipelineInv, RunnerInv, RunsInHand, InHand

\* The row a command left behind stays as it is.
LEMMA ExitStays ==
  ASSUME PipelineInv, NEW q \in Processes, exit'[q] = exit[q], \A r \in Runs : RowKept(r)
  PROVE  LeftBehind(q)'
<1> SUFFICES ASSUME exit[q].code = 0
             PROVE  /\ exit[q].run \in Runs /\ rows'[exit[q].run] # NoRow
                    /\ rows'[exit[q].run].status \in Good
  BY DEF LeftBehind
<1>1. /\ exit[q].run \in Runs /\ rows[exit[q].run] # NoRow
      /\ rows[exit[q].run].status \in Good
  BY DEF PipelineInv, LeftBehind
<1> QED
  BY <1>1 DEF RowKept, Good, Final

\* A step of p is nothing to the others.
LEMMA OthersKeep ==
  ASSUME PipelineInv, NEW p \in Processes, RunnerStep(p), LakeStep(p), LocalsStep(p),
         NEW q \in Processes \ {p}
  PROVE  InTheBody(q)' /\ LeftBehind(q)'
<1>1. /\ proc'[q] = proc[q] /\ storing'[q] = storing[q]
      /\ docs \subseteq docs' /\ \A r \in Runs : RowKept(r)
  BY RunnerStepKeeps, LakeStepKeeps
<1>2. seen'[q] = seen[q] /\ box'[q] = box[q] /\ exit'[q] = exit[q]
  BY Functions DEF LocalsStep
<1>3. InTheBody(q)
  BY DEF PipelineInv
<1>4. proc[q].at # "idle" => /\ proc[q].run \in knew' => proc[q].run \in knew
                             /\ proc[q].run \in wrote' => proc[q].run \in wrote
  <2>1. proc[q].at # "idle" /\ proc[p].at # "idle" => proc[q].run # proc[p].run
    BY RunInHand
  <2>2. seen[p] = "miss" => proc[p].at # "idle"
    BY DEF PipelineInv, InTheBody
  <2> QED
    BY <2>1, <2>2 DEF LocalsStep
<1>5. \A c : Lake!HasContent(c) => Lake!HasContent(c)'
  BY <1>1, ContentStays
<1>6. Working(q) => rows'[proc[q].run].job = rows[proc[q].run].job
  BY <1>1, RunInHand DEF RowKept, Working
<1>7. InTheBody(q)'
  BY <1>1, <1>2, <1>3, <1>4, <1>5, <1>6 DEF InTheBody, Content, Working
<1> QED
  BY <1>1, <1>2, <1>7, ExitStays

\* A row becomes good only when the process that worked for it says so.
LEMMA RowBecomesGood ==
  ASSUME PipelineInv, NEW p \in Processes, RunnerStep(p), NEW r \in Runs,
         rows'[r] # NoRow, rows'[r].status \in Good
  PROVE  \/ rows[r] # NoRow /\ rows[r].status \in Good /\ rows'[r].job = rows[r].job
         \/ /\ proc[p].at = "closing" /\ proc[p].status \in Good /\ proc[p].run = r
            /\ rows'[r].job = rows[r].job
<1>1. CASE OpenCommits(p) \/ OpenUnacknowledged(p)
  <2>1. proc[p].at = "opening" /\ rows' = [rows EXCEPT ![proc[p].run] = StartedRow(p)]
    BY <1>1 DEF OpenCommits, OpenUnacknowledged
  <2>2. rows'[r] = IF r = proc[p].run THEN StartedRow(p) ELSE rows[r]
    BY <2>1, Functions
  <2>3. StartedRow(p).status \notin Good
    BY DEF StartedRow, Good
  <2> QED
    BY <2>2, <2>3
<1>2. CASE CloseCommits(p)
  <2>1. proc[p].at = "closing" /\ rows[proc[p].run] # NoRow /\ proc[p].run \in Runs
    BY <1>2, RunInHand DEF CloseCommits, Working
  <2>2. rows[proc[p].run] \in RunRows
    BY <2>1, Functions
  <2>3. rows'[r] = IF r = proc[p].run THEN [rows[r] EXCEPT !.status = proc[p].status] ELSE rows[r]
    BY <1>2, <2>1, Functions DEF CloseCommits, RowToClose
  <2> QED
    BY <2>1, <2>2, <2>3 DEF RunRows
<1>3. CASE UNCHANGED rows
  BY <1>3
<1> QED
  BY <1>1, <1>2, <1>3 DEF RunnerStep, Begin, OpenFails, BodyEnds, Abandon, runnerVars

LEMMA FineKeeps ==
  ASSUME PipelineInv, NEW p \in Processes, Fine(p)
  PROVE  PipelineInv'
<1>1. RunnerInv' /\ LakeP!BronzeInv' /\ docs \subseteq docs' /\ starts' >= starts
      /\ starts \in Nat /\ starts' \in Nat
  BY RunnerStepKeeps, LakeStepKeeps DEF Fine
<1>2. Locals'
  <2>1. seen' \in [Processes -> Answers]
    BY Functions DEF Fine, LocalsStep
  <2>2. box' \in [Processes -> Boxes]
    BY Functions DEF Fine, LocalsStep
  <2>3. exit' \in [Processes -> Exits]
    BY Functions DEF Fine, LocalsStep
  <2> QED
    BY <2>1, <2>2, <2>3 DEF Locals
<1>3. \A q \in Processes : InTheBody(q)' /\ LeftBehind(q)'
  BY OthersKeep DEF Fine
<1>4. GoodRowsHeld'
  <2> SUFFICES ASSUME NEW r \in Runs, rows'[r] # NoRow, rows'[r].status \in Good
               PROVE  \E d \in docs' : d.content = ContentOf[rows'[r].job]
    BY DEF GoodRowsHeld, Lake!HasContent
  <2>1. CASE rows[r] # NoRow /\ rows[r].status \in Good /\ rows'[r].job = rows[r].job
    <3>1. Lake!HasContent(ContentOf[rows[r].job])
      BY <2>1 DEF PipelineInv, GoodRowsHeld
    <3> QED
      BY <1>1, <2>1, <3>1 DEF Lake!HasContent
  <2>2. CASE /\ proc[p].at = "closing" /\ proc[p].status \in Good /\ proc[p].run = r
             /\ rows'[r].job = rows[r].job
    <3>1. Lake!HasContent(ContentOf[rows[r].job])
      BY <2>2 DEF PipelineInv, InTheBody, Working, Content
    <3> QED
      BY <1>1, <2>2, <3>1 DEF Lake!HasContent
  <2> QED
    BY <2>1, <2>2, RowBecomesGood DEF Fine
<1>5. Observed'
  <2>1. knew \cup wrote \subseteq 1..starts' /\ NoSecondCopy
    BY <1>1 DEF PipelineInv, Observed
  <2>2. proc[p].at # "idle" => proc[p].run \in 1..starts'
    BY <1>1, RunInHand
  <2>3. /\ proc[p].at = "opening" => proc[p].run \notin wrote
        /\ seen[p] = "miss" => proc[p].at = "working" /\ proc[p].run \notin knew
    BY DEF PipelineInv, InTheBody
  <2> QED
    BY <2>1, <2>2, <2>3 DEF Fine, LocalsStep, Observed, NoSecondCopy
<1> QED
  BY <1>1, <1>2, <1>3, <1>4, <1>5 DEF PipelineInv

-----------------------------------------------------------------------------
\* One lemma per action, or per kind of action.

LEMMA BoxAloneFine ==
  ASSUME PipelineInv, NEW p \in Processes,
         ContainerStarts(p) \/ ProbeConnects(p) \/ ProbeFails(p) \/ TimesOut(p)
           \/ UnknownJob(p) \/ Disabled(p)
  PROVE  Fine(p)
<1>1. /\ UNCHANGED <<runnerVars, lakeVars, bodyVars>> /\ proc[p].at = "idle"
      /\ \E b \in Boxes : box' = [box EXCEPT ![p] = b]
      /\ exit' = exit \/ \E e \in Exits : e.code # 0 /\ exit' = [exit EXCEPT ![p] = e]
  BY BoxAlone
<1>2. RunnerStep(p) /\ LakeStep(p) /\ LocalsStep(p)
  BY <1>1 DEF RunnerStep, LakeStep, LocalsStep, bodyVars
<1>3. /\ UNCHANGED <<proc, rows, storing, docs, seen>>
      /\ storing[p].at = "out" /\ seen[p] = "unasked"
  BY <1>1, Functions DEF runnerVars, lakeVars, bodyVars, PipelineInv, InTheBody, Answers,
                         LakeP!Stores
<1>4. InTheBody(p)'
  BY <1>1, <1>3 DEF InTheBody, Working
<1>5. LeftBehind(p)'
  BY <1>1, <1>3, Functions DEF PipelineInv, LeftBehind
<1> QED
  BY <1>2, <1>4, <1>5 DEF Fine

\* run_job is entered, with a run nobody has heard of.
LEMMA CommandFine ==
  ASSUME PipelineInv, NEW p \in Processes, Command(p)
  PROVE  Fine(p)
<1>1. PICK j \in Jobs : Begin(p, j)
  BY DEF Command
<1>2. /\ proc[p].at = "idle" /\ box[p].at = "running"
      /\ UNCHANGED <<lakeVars, bodyVars, boxVars>>
  BY DEF Command, AtCommand
<1>3. RunnerStep(p) /\ LakeStep(p) /\ LocalsStep(p)
  BY <1>1, <1>2 DEF RunnerStep, LakeStep, LocalsStep, bodyVars, boxVars
<1>4. /\ UNCHANGED <<rows, storing, docs, seen, knew, wrote, box, exit>>
      /\ storing[p].at = "out" /\ seen[p] = "unasked"
  BY <1>1, <1>2, Functions DEF Begin, lakeVars, bodyVars, boxVars, PipelineInv, InTheBody,
                               Answers, LakeP!Stores
<1>5. proc'[p].at = "opening" /\ proc'[p].run = starts + 1
  BY <1>1, Functions DEF Begin, RunFor
<1>6. starts + 1 \notin knew \cup wrote
  BY <1>3, RunnerStepKeeps DEF PipelineInv, Observed
<1>7. box[p] = Running
  <2>1. box[p] \in Boxes
    BY Functions
  <2>2. box[p].waited = 0
    BY <1>2, <2>1 DEF Boxes
  <2> QED
    BY <1>2, <2>1, <2>2 DEF Boxes, Running
<1>8. InTheBody(p)'
  BY <1>4, <1>5, <1>6, <1>7 DEF InTheBody, Working
<1>9. LeftBehind(p)'
  BY <1>4 DEF PipelineInv, LeftBehind
<1> QED
  BY <1>3, <1>8, <1>9 DEF Fine

LEMMA OpenedFine ==
  ASSUME PipelineInv, NEW p \in Processes, Opened(p)
  PROVE  Fine(p)
<1> DEFINE run == proc[p].run
<1>1. /\ OpenCommits(p) /\ proc[p].at = "opening"
      /\ UNCHANGED <<lakeVars, seen, wrote, boxVars>>
      /\ knew' = IF Lake!HasContent(Content(p)) THEN knew \cup {run} ELSE knew
  BY DEF Opened, OpenCommits
<1>2. RunnerStep(p) /\ LakeStep(p) /\ LocalsStep(p)
  BY <1>1 DEF RunnerStep, LakeStep, LocalsStep, boxVars
<1>3. /\ UNCHANGED <<storing, docs, seen, box, exit>>
      /\ storing[p].at = "out" /\ seen[p] = "unasked" /\ box[p] = Running
      /\ run \notin knew /\ run \in Runs
  BY <1>1, Functions, RunInHand DEF lakeVars, boxVars, PipelineInv, InTheBody, Answers,
                                    LakeP!Stores
<1>4. proc'[p].at = "working" /\ proc'[p].run = run /\ proc'[p].job = proc[p].job
  BY <1>1, Functions DEF OpenCommits, ProcStates
<1>5. rows'[run].job = proc[p].job
  BY <1>1, <1>3, Functions DEF OpenCommits, StartedRow
<1>6. run \in knew' => Lake!HasContent(Content(p))
  BY <1>1, <1>3
<1>7. InTheBody(p)'
  BY <1>3, <1>4, <1>5, <1>6 DEF InTheBody, Working, Content, Lake!HasContent
<1>8. LeftBehind(p)'
  BY <1>2, <1>3, ExitStays, RunnerStepKeeps
<1> QED
  BY <1>2, <1>7, <1>8 DEF Fine

\* has_content's answer is kept, and a miss is one for the observer, too.
LEMMA LookFine ==
  ASSUME PipelineInv, NEW p \in Processes, Look(p)
  PROVE  Fine(p)
<1> DEFINE s == IF Lake!HasContent(Content(p)) THEN "hit" ELSE "miss"
<1>1. /\ proc[p].at = "working" /\ seen[p] = "unasked"
      /\ seen' = [seen EXCEPT ![p] = s] /\ s \in Answers
      /\ UNCHANGED <<runnerVars, lakeVars, knew, wrote, boxVars>>
  BY DEF Look, Answers
<1>2. RunnerStep(p) /\ LakeStep(p) /\ LocalsStep(p)
  BY <1>1 DEF RunnerStep, LakeStep, LocalsStep, boxVars
<1>3. UNCHANGED <<proc, rows, storing, docs, knew, box, exit>>
  BY <1>1 DEF runnerVars, lakeVars, boxVars
<1>4. seen'[p] = s /\ storing[p].at = "out"
  BY <1>1, Functions DEF PipelineInv, InTheBody, LakeP!Stores
<1>5. InTheBody(p)
  BY DEF PipelineInv
<1>6. InTheBody(p)'
  BY <1>1, <1>3, <1>4, <1>5 DEF InTheBody, Working, Content, Lake!HasContent
<1>7. LeftBehind(p)'
  BY <1>3 DEF PipelineInv, LeftBehind
<1> QED
  BY <1>2, <1>6, <1>7 DEF Fine

\* store_document up to its commit.
LEMMA CollectFine ==
  ASSUME PipelineInv, NEW p \in Processes, Collect(p) \/ Inserted(p)
  PROVE  Fine(p)
<1>1. UNCHANGED <<runnerVars, bodyVars, boxVars>>
  BY DEF Collect, Inserted
<1>2. RunnerStep(p) /\ LakeStep(p) /\ LocalsStep(p)
  BY <1>1 DEF RunnerStep, LakeStep, LocalsStep, bodyVars, boxVars, Collect, Inserted
<1>3. UNCHANGED <<proc, rows, seen, knew, wrote, box, exit>>
  BY <1>1 DEF runnerVars, bodyVars, boxVars
<1>4. docs' = docs
  BY DEF Collect, Inserted, Lake!Store, Lake!Insert
<1>5. InTheBody(p)
  BY DEF PipelineInv
<1>6. /\ proc[p].at = "working" /\ seen[p] = "miss"
      /\ storing'[p].request = proc[p].job /\ storing'[p].content = Content(p)
      /\ storing'[p].at = "inserted" => storing'[p].doc.content = Content(p)
  <2>1. CASE Collect(p)
    BY <2>1, Functions DEF Collect, Lake!Store
  <2>2. CASE Inserted(p)
    <3>1. storing[p].at = "called"
      BY <2>2 DEF Inserted, Lake!Insert
    <3>2. PICK id \in Lake!Ids : storing' = [storing EXCEPT ![p].at = "inserted",
                                                           ![p].doc = Lake!RowFor(p, id)]
      BY <2>2 DEF Inserted, Lake!Insert
    <3>3. storing'[p] = [storing[p] EXCEPT !.at = "inserted", !.doc = Lake!RowFor(p, id)]
      BY <3>2, Functions
    <3>4. storing[p] \in LakeP!Stores
      BY Functions
    <3>5. Lake!RowFor(p, id).content = storing[p].content
      BY DEF Lake!RowFor
    <3> HIDE DEF Lake!RowFor
    <3>6. /\ storing'[p].request = storing[p].request
          /\ storing'[p].content = storing[p].content
          /\ storing'[p].doc = Lake!RowFor(p, id)
      BY <3>3, <3>4 DEF LakeP!Stores
    <3> QED
      BY <1>5, <3>1, <3>5, <3>6 DEF InTheBody
  <2> QED
    BY <2>1, <2>2
<1>7. InTheBody(p)'
  BY <1>3, <1>4, <1>5, <1>6 DEF InTheBody, Working, Content, Lake!HasContent
<1>8. LeftBehind(p)'
  BY <1>3 DEF PipelineInv, LeftBehind
<1> QED
  BY <1>2, <1>7, <1>8 DEF Fine

\* However a store ends, nothing of p's is pending afterwards; a commit puts what
\* p collected into bronze.
LEMMA StoreEnds ==
  ASSUME PipelineInv, NEW p \in Processes, Lake!Commit(p) \/ LeaveStore(p)
  PROVE  /\ LakeStep(p) /\ storing'[p].at = "out"
         /\ Lake!Commit(p) => /\ proc[p].at = "working" /\ seen[p] = "miss"
                              /\ \E d \in docs' : d.content = Content(p)
<1>1. CASE Lake!Commit(p) \/ Lake!RollBack(p)
  <2>1. storing' = [storing EXCEPT ![p] = Lake!NotStoring]
    BY <1>1 DEF Lake!Commit, Lake!RollBack
  <2>2. storing'[p].at = "out"
    BY <2>1, Functions DEF Lake!NotStoring
  <2> QED
    BY <1>1, <2>2 DEF LakeStep, Lake!Commit, PipelineInv, InTheBody
<1>2. CASE storing[p].at = "out" /\ UNCHANGED lakeVars
  BY <1>2 DEF LakeStep, lakeVars, Lake!Commit
<1> QED
  BY <1>1, <1>2 DEF LeaveStore

\* What a body may write down when it ends.
Written(p) ==
  /\ knew' = knew
  /\ wrote' = wrote \/ (seen[p] = "miss" /\ wrote' = wrote \cup {proc[p].run})

\* The body is over and run_job knows the status to record.
LEMMA BodyOver ==
  ASSUME PipelineInv, NEW p \in Processes, NEW status \in Outcomes, BodyEnds(p, status),
         LakeStep(p), storing'[p].at = "out", EndBody(p), Written(p), UNCHANGED boxVars,
         status \in Good => \E d \in docs' : d.content = Content(p)
  PROVE  Fine(p)
<1>1. /\ RunnerStep(p) /\ proc[p].at = "working"
      /\ proc' = [proc EXCEPT ![p].at = "closing", ![p].status = status]
      /\ rows' = rows
  BY DEF RunnerStep, BodyEnds
<1>2. LocalsStep(p)
  BY DEF LocalsStep, Written, EndBody, boxVars, Answers
<1>3. /\ seen'[p] = "unasked" /\ box' = box /\ exit' = exit
      /\ box[p] = Running /\ rows[proc[p].run].job = proc[p].job
  BY <1>1, Functions DEF EndBody, boxVars, PipelineInv, InTheBody, Working
<1>4. /\ proc'[p].at = "closing" /\ proc'[p].status = status
      /\ proc'[p].run = proc[p].run /\ proc'[p].job = proc[p].job
  BY <1>1, Functions DEF ProcStates
<1>5. InTheBody(p)'
  BY <1>1, <1>3, <1>4 DEF InTheBody, Working, Content, Lake!HasContent
<1>6. LeftBehind(p)'
  BY <1>1, <1>3 DEF PipelineInv, LeftBehind
<1> QED
  BY <1>1, <1>2, <1>5, <1>6 DEF Fine

\* A process leaves run_job without good news.
LEMMA LeftWithFailure ==
  ASSUME PipelineInv, NEW p \in Processes, NEW code \in ExitCodes \ {0}, Exit(p, code),
         RunnerStep(p), proc' = [proc EXCEPT ![p] = Idle],
         LakeStep(p), storing'[p].at = "out",
         seen' = seen \/ EndBody(p), seen'[p] = "unasked", Written(p)
  PROVE  Fine(p)
<1> DEFINE e == [code |-> code, run |-> proc[p].run]
<1>1. /\ box' = [box EXCEPT ![p] = Gone] /\ Gone \in Boxes
      /\ exit' = [exit EXCEPT ![p] = e] /\ e \in Exits /\ e.code # 0
  BY ExitMeans
<1> HIDE DEF e
<1>2. LocalsStep(p)
  BY <1>1 DEF LocalsStep, Written, EndBody, Answers
<1>3. proc'[p].at = "idle" /\ exit'[p].code # 0
  BY <1>1, Functions DEF Idle
<1> QED
  BY <1>2, <1>3 DEF Fine, InTheBody, LeftBehind, Working

LEMMA BodyFine ==
  ASSUME PipelineInv, NEW p \in Processes,
         Hit(p) \/ Stored(p) \/ Conflict(p) \/ Raises(p)
  PROVE  Fine(p)
<1> USE StatusesAreOutcomes
<1>1. CASE Hit(p)
  <2>1. /\ seen[p] = "hit" /\ BodyEnds(p, "skipped_cache")
        /\ EndBody(p) /\ UNCHANGED <<lakeVars, knew, wrote, boxVars>>
    BY <1>1 DEF Hit
  <2>2. storing[p].at = "out" /\ Lake!HasContent(Content(p))
    BY <2>1, Functions DEF PipelineInv, InTheBody, LakeP!Stores
  <2>3. /\ LakeStep(p) /\ storing'[p].at = "out"
        /\ \E d \in docs' : d.content = Content(p)
    BY <2>1, <2>2 DEF LakeStep, lakeVars, Lake!HasContent
  <2> QED
    BY <2>1, <2>3, BodyOver DEF Written
<1>2. CASE Stored(p)
  <2>1. /\ Lake!Commit(p) /\ wrote' = wrote \cup {proc[p].run}
        /\ BodyEnds(p, "succeeded") /\ EndBody(p) /\ UNCHANGED <<knew, boxVars>>
    BY <1>2 DEF Stored
  <2>2. Written(p)
    BY <2>1, StoreEnds DEF Written
  <2> QED
    BY <2>1, <2>2, StoreEnds, BodyOver
<1>3. CASE Conflict(p) \/ Raises(p)
  <2>1. /\ BodyEnds(p, "failed") /\ EndBody(p) /\ UNCHANGED <<knew, wrote, boxVars>>
        /\ LeaveStore(p)
    BY <1>3 DEF Conflict, Raises, LeaveStore
  <2>2. "failed" \notin Good /\ Written(p)
    BY <2>1 DEF Good, Written
  <2> QED
    BY <2>1, <2>2, StoreEnds, BodyOver
<1> QED
  BY <1>1, <1>2, <1>3

LEMMA StoredUnheardFine ==
  ASSUME PipelineInv, NEW p \in Processes, StoredUnheard(p)
  PROVE  Fine(p)
<1>1. /\ Lake!Commit(p) /\ wrote' = wrote \cup {proc[p].run} /\ EndBody(p)
      /\ knew' = knew
      /\ \/ BodyEnds(p, "failed") /\ UNCHANGED boxVars
         \/ Abandon(p) /\ Exit(p, 137)
  BY DEF StoredUnheard
<1>2. Written(p) /\ LakeStep(p) /\ storing'[p].at = "out"
  BY <1>1, StoreEnds DEF Written
<1>3. CASE BodyEnds(p, "failed") /\ UNCHANGED boxVars
  BY <1>1, <1>2, <1>3, BodyOver, StatusesAreOutcomes DEF Good
<1>4. CASE Abandon(p) /\ Exit(p, 137)
  <2>1. RunnerStep(p) /\ proc' = [proc EXCEPT ![p] = Idle]
    BY <1>4 DEF RunnerStep, Abandon
  <2>2. 137 \in ExitCodes \ {0} /\ seen'[p] = "unasked"
    BY <1>1, Functions DEF ExitCodes, EndBody
  <2> QED
    BY <1>1, <1>2, <1>4, <2>1, <2>2, LeftWithFailure
<1> QED
  BY <1>1, <1>3, <1>4

\* Outside its body, a process has asked nothing and stores nothing.
LEMMA OutsideTheBody ==
  ASSUME PipelineInv, NEW p \in Processes, proc[p].at # "working", UNCHANGED lakeVars
  PROVE  seen[p] = "unasked" /\ storing'[p].at = "out" /\ LakeStep(p)
BY Functions DEF PipelineInv, InTheBody, lakeVars, LakeStep, LakeP!Stores

\* The row says what the body came to, and the exit code what the row says.
LEMMA ClosedFine ==
  ASSUME PipelineInv, NEW p \in Processes, NEW code \in ExitCodes,
         CloseCommits(p), Exit(p, code), UNCHANGED <<lakeVars, bodyVars>>,
         code = 0 => proc[p].status \in Good
  PROVE  Fine(p)
<1> DEFINE run == proc[p].run
           e == [code |-> code, run |-> run]
<1>1. /\ proc[p].at = "closing" /\ proc' = [proc EXCEPT ![p] = Idle] /\ RunnerStep(p)
      /\ UNCHANGED <<seen, knew, wrote>>
  BY DEF CloseCommits, RunnerStep, bodyVars
<1>2. /\ box' = [box EXCEPT ![p] = Gone] /\ Gone \in Boxes
      /\ exit' = [exit EXCEPT ![p] = e] /\ e \in Exits /\ e.code = code /\ e.run = run
  BY ExitMeans
<1>3. seen[p] = "unasked" /\ storing'[p].at = "out" /\ LakeStep(p)
  BY <1>1, OutsideTheBody
<1>4. run \in Runs /\ rows[run] \in RunRows
  BY <1>1, RunInHand, Functions DEF Working
<1>5. rows'[run] # NoRow /\ rows'[run].status = proc[p].status
  <2>1. rows[run] # NoRow
    BY <1>1, RunInHand DEF Working
  <2>2. rows' = [rows EXCEPT ![run].status = proc[p].status]
    BY <2>1 DEF CloseCommits, RowToClose
  <2>3. rows'[run].status = proc[p].status
    BY <1>4, <2>2, Functions DEF RunRows
  <2>4. rows'[run] # NoRow
    BY <1>1, <1>4, <2>1, RunnerStepKeeps DEF RowKept
  <2> QED
    BY <2>3, <2>4
<1> HIDE DEF e
<1>6. LocalsStep(p)
  BY <1>1, <1>2 DEF LocalsStep
<1>7. proc'[p].at = "idle"
  BY <1>1, Functions DEF Idle
<1>8. InTheBody(p)'
  BY <1>1, <1>3, <1>7 DEF InTheBody, Working
<1>9. LeftBehind(p)'
  <2>1. exit'[p] = e
    BY <1>2, Functions
  <2> QED
    BY <1>2, <1>4, <1>5, <2>1 DEF LeftBehind
<1> QED
  BY <1>1, <1>3, <1>6, <1>8, <1>9 DEF Fine

LEMMA EndingsFine ==
  ASSUME PipelineInv, NEW p \in Processes,
         NotOpened(p) \/ Closed(p) \/ NotClosed(p) \/ Killed(p)
  PROVE  Fine(p)
<1>1. CASE NotOpened(p)
  <2>1. /\ RunnerStep(p) /\ proc[p].at = "opening" /\ proc' = [proc EXCEPT ![p] = Idle]
        /\ Exit(p, 1) /\ UNCHANGED <<lakeVars, bodyVars>>
    BY <1>1 DEF NotOpened, RunnerStep, OpenFails, OpenUnacknowledged
  <2>2. 1 \in ExitCodes \ {0} /\ Written(p) /\ seen' = seen
    BY <2>1 DEF ExitCodes, Written, bodyVars
  <2> QED
    BY <2>1, <2>2, OutsideTheBody, LeftWithFailure
<1>2. CASE Closed(p)
  <2>1. PICK code \in CodesAfter(p) :
          CloseCommits(p) /\ Exit(p, code) /\ UNCHANGED <<lakeVars, bodyVars>>
    BY <1>2 DEF Closed
  <2>2. proc[p].status \in Final
    BY <2>1 DEF CloseCommits, PipelineInv, RunnerInv, RunsInHand, InHand
  <2>3. code \in ExitCodes /\ (code = 0 => proc[p].status \in Good)
    BY <2>1, <2>2 DEF CodesAfter, ExitCodes, Good, Final
  <2> QED
    BY <2>1, <2>3, ClosedFine
<1>3. CASE NotClosed(p)
  <2>1. /\ proc[p].at = "closing" /\ Exit(p, 1) /\ UNCHANGED <<lakeVars, bodyVars>>
        /\ CloseCommits(p) \/ Abandon(p)
    BY <1>3 DEF NotClosed
  <2>2. 1 \in ExitCodes \ {0} /\ Written(p) /\ seen' = seen
    BY <2>1 DEF ExitCodes, Written, bodyVars
  <2>3. CASE CloseCommits(p)
    BY <2>1, <2>2, <2>3, ClosedFine
  <2>4. CASE Abandon(p)
    <3>1. RunnerStep(p) /\ proc' = [proc EXCEPT ![p] = Idle]
      BY <2>4 DEF RunnerStep, Abandon
    <3> QED
      BY <2>1, <2>2, <3>1, OutsideTheBody, LeftWithFailure
  <2> QED
    BY <2>1, <2>3, <2>4
<1>4. CASE Killed(p)
  <2>1. /\ RunnerStep(p) /\ proc' = [proc EXCEPT ![p] = Idle]
        /\ LeaveStore(p) /\ EndBody(p) /\ Exit(p, 137) /\ UNCHANGED <<knew, wrote>>
    BY <1>4 DEF Killed, RunnerStep, OpenFails, Abandon
  <2>2. 137 \in ExitCodes \ {0} /\ Written(p) /\ seen'[p] = "unasked"
    BY <2>1, Functions DEF ExitCodes, Written, EndBody
  <2> QED
    BY <2>1, <2>2, StoreEnds, LeftWithFailure
<1> QED
  BY <1>1, <1>2, <1>3, <1>4

-----------------------------------------------------------------------------
\* The invariant, from the first state on.

LEMMA PipelineInitInv == PipelineInit => PipelineInv
<1> SUFFICES ASSUME PipelineInit PROVE PipelineInv
  OBVIOUS
<1> USE LakeAssumed
<1>1. RunnerInv
  BY RunnerInitInv DEF PipelineInit
<1>2. LakeP!BronzeInv
  <2>1. /\ schema = [table |-> TRUE, trigger |-> TRUE]
        /\ migration = [way |-> "none", table |-> FALSE, trigger |-> FALSE]
        /\ now = 1 /\ docs = {}
        /\ storing = [p \in Processes |-> LakeP!NotStoring]
    BY DEF PipelineInit, Lake!Bronzed, Lake!NoMigration, Lake!NotStoring, LakeP!NotStoring
  <2>2. LakeP!NotStoring \in LakeP!Stores /\ LakeP!NotStoring.doc = NoDoc
        /\ LakeP!NotStoring.at = "out"
    BY DEF LakeP!NotStoring, LakeP!Stores, LakeP!BronzeAssumption
  <2>3. LakeP!Pending = {} /\ LakeP!Rows = {}
    BY <2>1, <2>2 DEF LakeP!Pending, LakeP!Rows
  <2>4. schema \in [table : BOOLEAN, trigger : BOOLEAN]
        /\ migration \in [way : {"none", "up", "down"}, table : BOOLEAN, trigger : BOOLEAN]
    BY <2>1
  <2>5. now \in LakeP!Moments
    BY <2>1 DEF LakeP!Moments, LakeP!BronzeAssumption
  <2>6. LakeP!BronzeTypeOK
    BY <2>1, <2>2, <2>3, <2>4, <2>5 DEF LakeP!BronzeTypeOK
  <2> QED
    BY <2>1, <2>3, <2>6 DEF LakeP!BronzeInv, LakeP!OneOfAKey, LakeP!NeverUnguarded
<1>3. /\ proc = [p \in Processes |-> Idle] /\ Idle.at = "idle"
      /\ rows = [r \in Runs |-> NoRow]
      /\ storing = [p \in Processes |-> Lake!NotStoring] /\ Lake!NotStoring.at = "out"
      /\ seen = [p \in Processes |-> "unasked"]
      /\ exit = [p \in Processes |-> NoExit] /\ NoExit.code # 0
      /\ box = [p \in Processes |-> Gone]
      /\ knew = {} /\ wrote = {}
  BY DEF PipelineInit, RunnerInit, Idle, Lake!NotStoring, NoExit
<1>4. Locals
  <2>1. Gone \in Boxes
    BY PipelineAssumption DEF Gone, Boxes
  <2>2. NoExit \in Exits
    BY RunnerAssumption DEF NoExit, Exits, ExitCodes
  <2> QED
    BY <1>3, <2>1, <2>2 DEF Locals, Answers
<1>5. \A p \in Processes : InTheBody(p) /\ LeftBehind(p)
  BY <1>3 DEF InTheBody, LeftBehind, Working
<1> QED
  BY <1>1, <1>2, <1>3, <1>4, <1>5 DEF PipelineInv, GoodRowsHeld, Observed, NoSecondCopy

LEMMA ProcessStepFine ==
  ASSUME PipelineInv, NEW p \in Processes, ProcessStep(p)
  PROVE  Fine(p)
BY BoxAloneFine, CommandFine, OpenedFine, LookFine, CollectFine, BodyFine,
   StoredUnheardFine, EndingsFine
DEF ProcessStep, Progress, Fault

\* Time passes, or nothing does: rows, documents and locals stay.
LEMMA TickKeeps ==
  ASSUME PipelineInv, Tick \/ UNCHANGED pipelineVars
  PROVE  PipelineInv'
<1>1. /\ UNCHANGED <<starts, proc, rows, did>> /\ UNCHANGED runnerVars
      /\ UNCHANGED <<docs, storing, seen, box, exit, knew, wrote>>
  BY DEF Tick, Lake!Tick, pipelineVars, runnerVars, lakeVars, bodyVars, boxVars
<1>2. RunnerInv'
  BY <1>1, RunnerStepInv DEF PipelineInv
<1>3. LakeP!BronzeInv'
  <2>1. LakeP!Tick \/ UNCHANGED LakeP!bronzeVars
    BY DEF Tick, Lake!Tick, LakeP!Tick, pipelineVars, lakeVars, LakeP!bronzeVars
  <2>2. [LakeP!BronzeNext]_(LakeP!bronzeVars)
    BY <2>1 DEF LakeP!BronzeNext
  <2> QED
    BY <2>2, LakeAssumed, LakeP!BronzeStepInv DEF PipelineInv
<1>4. \A p \in Processes : InTheBody(p)' /\ LeftBehind(p)'
  BY <1>1 DEF PipelineInv, InTheBody, LeftBehind, Working, Content, Lake!HasContent
<1> QED
  BY <1>1, <1>2, <1>3, <1>4
  DEF PipelineInv, Locals, GoodRowsHeld, Observed, NoSecondCopy, Lake!HasContent

LEMMA PipelineStepInv == PipelineInv /\ [PipelineNext]_pipelineVars => PipelineInv'
<1> SUFFICES ASSUME PipelineInv, [PipelineNext]_pipelineVars PROVE PipelineInv'
  OBVIOUS
<1>1. ASSUME NEW p \in Processes, ProcessStep(p) PROVE PipelineInv'
  BY <1>1, ProcessStepFine, FineKeeps
<1>2. CASE Tick \/ UNCHANGED pipelineVars
  BY <1>2, TickKeeps
<1> QED
  BY <1>1, <1>2 DEF PipelineNext, ProcessStep

\* The inductive invariant holds throughout (ingest.py:50-58, runner.py:36-139,
\* store.py:71-134).
THEOREM PipelineInvariant == PipelineSpec => []PipelineInv
BY PipelineInitInv, PipelineStepInv, PTL DEF PipelineSpec

\* A step of the pipeline is one of the ledger and one of bronze, or nothing to them.
LEMMA StepOfBoth ==
  ASSUME PipelineInv, [PipelineNext]_pipelineVars
  PROVE  [RunnerNext]_runnerVars /\ docs \subseteq docs'
<1>1. ASSUME NEW p \in Processes, ProcessStep(p)
      PROVE  [RunnerNext]_runnerVars /\ docs \subseteq docs'
  <2>1. RunnerStep(p) /\ LakeStep(p)
    BY <1>1, ProcessStepFine DEF Fine
  <2> QED
    BY <2>1, LakeStepKeeps DEF RunnerStep, RunnerNext
<1>2. CASE Tick \/ UNCHANGED pipelineVars
  BY <1>2 DEF Tick, Lake!Tick, pipelineVars, lakeVars
<1> QED
  BY <1>1, <1>2 DEF PipelineNext, ProcessStep

\* The pipeline runs jobs as JobRunner does, whatever bodies and containers do: the
\* theorems of JobRunnerProofs hold of it.
THEOREM PipelineRunsJobs == PipelineSpec => RunnerSpec
<1>1. PipelineInit => RunnerInit
  BY DEF PipelineInit
<1> QED
  BY <1>1, StepOfBoth, PipelineInvariant, PTL DEF PipelineSpec, RunnerSpec

\* Nothing that is in bronze or final on record is lost on the way, however runs
\* fail and die (runner.py:56-68, store.py:71-87).
THEOREM NothingIsLost ==
  PipelineSpec => FinalStays /\ [][docs \subseteq docs']_pipelineVars
<1>1. PipelineInv /\ [PipelineNext]_pipelineVars => [docs \subseteq docs']_pipelineVars
  BY StepOfBoth
<1> QED
  BY <1>1, PipelineRunsJobs, RecordIsPermanent, PipelineInvariant, PTL DEF PipelineSpec

\* For every number of processes and runs, a process stores only in the middle of
\* its job's body, for that job, after it found nothing.
THEOREM PipelineTypes == PipelineSpec => []PipelineTypeOK
<1>1. PipelineInv => PipelineTypeOK
  <2> SUFFICES ASSUME PipelineInv PROVE PipelineTypeOK
    OBVIOUS
  <2>1. RunnerTypeOK /\ Lake!BronzeTypeOK
    BY LakeTypes DEF PipelineInv, RunnerInv, LakeP!BronzeInv
  <2>2. knew \subseteq Runs /\ wrote \subseteq Runs
    BY <2>1, RunnerAssumption DEF PipelineInv, Observed, RunnerTypeOK, Runs
  <2>3. box \in [Processes -> [at : {"gone", "waiting", "running"}, waited : 0..WaitTimeout]]
    BY Functions DEF Boxes
  <2> QED
    BY <2>1, <2>2, <2>3, Functions
    DEF PipelineInv, PipelineTypeOK, InTheBody, Answers, Exits
<1> QED
  BY <1>1, PipelineInvariant, PTL

\* However many processes collect beside each other and whichever die: a run
\* whose content was there when its body started writes nothing
\* (test_idempotency.py:2, store.py:87, 134).
THEOREM NothingTwice == PipelineSpec => []NoSecondCopy
<1>1. PipelineInv => NoSecondCopy
  BY DEF PipelineInv, Observed
<1> QED
  BY <1>1, PipelineInvariant, PTL

\* Exit code 0 can be relied on, for every number of processes, jobs and runs
\* (ingest.py:50-58, runner.py:89-139).
THEOREM ZeroTellsTruth == PipelineSpec => []ExitTellsTruth
<1>1. PipelineInv => ExitTellsTruth
  <2> SUFFICES ASSUME PipelineInv, NEW p \in Processes, exit[p].code = 0
               PROVE  LET row == rows[exit[p].run]
                      IN /\ row # NoRow
                         /\ row.status \in Good
                         /\ Lake!HasContent(ContentOf[row.job])
    BY DEF ExitTellsTruth, Good
  <2>1. exit[p].run \in Runs /\ rows[exit[p].run] # NoRow
        /\ rows[exit[p].run].status \in Good
    BY DEF PipelineInv, LeftBehind
  <2> QED
    BY <2>1 DEF PipelineInv, GoodRowsHeld
<1> QED
  BY <1>1, PipelineInvariant, PTL

-----------------------------------------------------------------------------
\* The refinement: what each step is to Collection.

\* What a run is entered with, and what is kept.
Entry(r) == IF rows[r] = NoRow THEN NoRow
            ELSE [after |-> ContentOf[rows[r].job], status |-> rows[r].status]
Kept == {d.content : d \in docs}

\* A run on record is entered.
LEMMA EntryOfRow ==
  ASSUME PipelineInv, NEW r \in Runs, rows[r] # NoRow
  PROVE  /\ Entry(r) = [after |-> ContentOf[rows[r].job], status |-> rows[r].status]
         /\ Entry(r) # NoRow
         /\ Entry(r).after = ContentOf[rows[r].job] /\ Entry(r).status = rows[r].status
         /\ rows[r].job \in Jobs /\ ContentOf[rows[r].job] \in Contents
<1>1. rows[r].job \in Jobs /\ rows[r].status \in Final \cup {"started"}
  BY Functions DEF RunRows
<1>2. ContentOf[rows[r].job] \in Contents
  BY <1>1 DEF Contents
<1> QED
  BY <1>1, <1>2, PipelineAssumption DEF Entry

\* The row of p's run is inserted: an attempt.
LEMMA OpeningAttempts ==
  ASSUME PipelineInv, NEW p \in Processes, OpenCommits(p) \/ OpenUnacknowledged(p),
         UNCHANGED lakeVars
  PROVE  Promise!CollectionNext
<1> DEFINE new == [after |-> Content(p), status |-> "started"]
<1>0. proc[p].at = "opening"
  BY DEF OpenCommits, OpenUnacknowledged
<1>run. PICK run \in Runs : run = proc[p].run
  BY <1>0, RunInHand
<1>1. rows' = [rows EXCEPT ![run] = StartedRow(p)] /\ docs' = docs
  BY <1>run DEF OpenCommits, OpenUnacknowledged, lakeVars
<1>2. /\ rows[run] = NoRow /\ Content(p) \in Contents
      /\ StartedRow(p) # NoRow
  BY <1>0, <1>run, HandFacts, ContentKnown DEF PipelineInv, RunnerInv, RunsInHand, InHand
<1>3. rows' = [r \in Runs |-> IF r = run THEN StartedRow(p) ELSE rows[r]]
  BY <1>1, <1>2, Functions
<1>4. /\ StartedRow(p).job = proc[p].job /\ StartedRow(p).status = "started"
  BY DEF StartedRow
<1>5. [r \in Runs |-> Entry(r)'] = [[r \in Runs |-> Entry(r)] EXCEPT ![run] = new]
  BY <1>2, <1>3, <1>4 DEF Entry, Content
<1>6. Promise!Attempt(run)
  BY <1>1, <1>2, <1>5 DEF Promise!Attempt, Entry
<1> QED
  BY <1>6 DEF Promise!CollectionNext

\* What p stored is committed while its run is open: it is kept.
LEMMA CommitKeeps ==
  ASSUME PipelineInv, NEW p \in Processes, Lake!Commit(p), rows' = rows
  PROVE  Promise!CollectionNext
<1>1. /\ proc[p].at = "working" /\ storing[p].doc.content = Content(p)
      /\ rows[proc[p].run].job = proc[p].job /\ docs' = docs \cup {storing[p].doc}
  BY DEF Lake!Commit, PipelineInv, InTheBody, Working
<1>run. PICK run \in Runs : run = proc[p].run
  BY <1>1, RunInHand
<1>2. rows[run] # NoRow /\ rows[run].status = "started"
  BY <1>1, <1>run, RunInHand DEF Working
<1>3. /\ Entry(run) # NoRow /\ Entry(run).status = "started"
      /\ Entry(run).after = Content(p)
  BY <1>1, <1>run, <1>2, EntryOfRow DEF Content
<1>4. {d.content : d \in docs'} = Kept \cup {Content(p)}
  BY <1>1 DEF Kept
<1>5. Promise!Keep(run)
  BY <1>3, <1>4 DEF Promise!Keep, Promise!Open, Entry, Kept
<1> QED
  BY <1>5 DEF Promise!CollectionNext

\* The row of p's run becomes final: the run is concluded.
LEMMA ClosingConcludes ==
  ASSUME PipelineInv, NEW p \in Processes, CloseCommits(p), UNCHANGED lakeVars
  PROVE  Promise!CollectionNext
<1>0. proc[p].at = "closing"
  BY DEF CloseCommits
<1>run. PICK run \in Runs : run = proc[p].run
  BY <1>0, RunInHand
<1>status. PICK status \in Final : status = proc[p].status
  BY <1>0 DEF PipelineInv, RunnerInv, RunsInHand, InHand
<1>1. /\ docs' = docs
      /\ rows[run].job = proc[p].job
      /\ status \in Good => Lake!HasContent(Content(p))
  BY <1>0, <1>run, <1>status DEF PipelineInv, InTheBody, Working, lakeVars
<1>2. rows[run] # NoRow /\ rows[run].status = "started"
  BY <1>0, <1>run, RunInHand DEF Working
<1>4. rows' = [rows EXCEPT ![run].status = status]
  BY <1>run, <1>status, <1>2 DEF CloseCommits, RowToClose
<1>5. rows[run] \in RunRows
  BY <1>2, Functions
<1>6. /\ rows'[run].job = rows[run].job /\ rows'[run].status = status
      /\ \A r \in Runs \ {run} : rows'[r] = rows[r]
  BY <1>2, <1>4, <1>5, Functions DEF RunRows
<1>7. rows'[run] # NoRow
  <2>1. RunnerStep(p)
    BY DEF RunnerStep
  <2> QED
    BY <1>2, <2>1, RunnerStepKeeps DEF RowKept
<1>8. /\ Entry(run) # NoRow /\ Entry(run).status = "started"
      /\ Entry(run).after = Content(p)
      /\ Entry(run) = [after |-> ContentOf[rows[run].job], status |-> "started"]
  BY <1>1, <1>2, EntryOfRow DEF Content
<1>9. [r \in Runs |-> Entry(r)'] = [[r \in Runs |-> Entry(r)] EXCEPT ![run].status = status]
  <2>1. Entry(run)' = [after |-> ContentOf[rows[run].job], status |-> status]
    BY <1>6, <1>7 DEF Entry
  <2>3. Entry(run)' = [Entry(run) EXCEPT !.status = status]
    BY <1>8, <2>1
  <2>2. \A r \in Runs \ {run} : Entry(r)' = Entry(r)
    BY <1>6 DEF Entry
  <2> QED
    BY <2>2, <2>3
<1>10. status \in {"succeeded", "skipped_cache"} => Entry(run).after \in Kept
  BY <1>1, <1>8 DEF Good, Kept, Lake!HasContent
<1>11. Promise!Conclude(run, status)
  BY <1>1, <1>8, <1>9, <1>10 DEF Promise!Conclude, Promise!Open, Entry, Kept
<1> QED
  BY <1>11 DEF Promise!CollectionNext, Final

\* Any step that writes neither rows nor documents is nothing to Collection.
LEMMA NothingCollected ==
  ASSUME rows' = rows, docs' = docs
  PROVE  UNCHANGED Promise!collectionVars
BY DEF Promise!collectionVars

LEMMA StepCollects ==
  ASSUME PipelineInv, [PipelineNext]_pipelineVars
  PROVE  [Promise!CollectionNext]_(Promise!collectionVars)
<1>1. ASSUME NEW p \in Processes, ProcessStep(p)
      PROVE  \/ (OpenCommits(p) \/ OpenUnacknowledged(p)) /\ UNCHANGED lakeVars
             \/ CloseCommits(p) /\ UNCHANGED lakeVars
             \/ Lake!Commit(p) /\ rows' = rows
             \/ rows' = rows /\ docs' = docs
  <2>1. CASE \/ ContainerStarts(p) \/ ProbeConnects(p) \/ ProbeFails(p) \/ TimesOut(p)
             \/ UnknownJob(p) \/ Disabled(p) \/ Command(p)
    BY <2>1 DEF ContainerStarts, ProbeConnects, ProbeFails, TimesOut, UnknownJob, Disabled,
                Command, Begin, runnerVars, lakeVars
  <2>2. CASE Opened(p) \/ NotOpened(p)
    BY <2>2 DEF Opened, NotOpened, OpenFails, lakeVars
  <2>3. CASE Look(p) \/ Hit(p) \/ Collect(p) \/ Inserted(p)
    BY <2>3 DEF Look, Hit, Collect, Inserted, BodyEnds, Lake!Store, Lake!Insert,
                runnerVars, lakeVars
  <2>4. CASE Stored(p) \/ StoredUnheard(p)
    BY <2>4 DEF Stored, StoredUnheard, BodyEnds, Abandon
  <2>5. CASE Conflict(p) \/ Raises(p) \/ Killed(p)
    BY <2>5 DEF Conflict, Raises, Killed, LeaveStore, BodyEnds, OpenFails, Abandon,
                Lake!RollBack, lakeVars
  <2>6. CASE Closed(p) \/ NotClosed(p)
    BY <2>6 DEF Closed, NotClosed, Abandon, lakeVars
  <2> QED
    BY <1>1, <2>1, <2>2, <2>3, <2>4, <2>5, <2>6 DEF ProcessStep, Progress, Fault
<1>2. ASSUME NEW p \in Processes, ProcessStep(p)
      PROVE  [Promise!CollectionNext]_(Promise!collectionVars)
  BY <1>1, <1>2, OpeningAttempts, ClosingConcludes, CommitKeeps, NothingCollected
<1>3. CASE Tick \/ UNCHANGED pipelineVars
  <2>1. rows' = rows /\ docs' = docs
    BY <1>3 DEF Tick, Lake!Tick, pipelineVars, runnerVars, lakeVars
  <2> QED
    BY <2>1, NothingCollected
<1> QED
  BY <1>2, <1>3 DEF PipelineNext, ProcessStep

\* The ledger and bronze implement Collection, for every number of processes, jobs
\* and runs: nothing gets into bronze but for a run that is open on record, and no
\* run is concluded as successful or skipped before its content is committed
\* (runner.py:85-126, store.py:71-87).
THEOREM CollectsAsPromised == PipelineSpec => CollectionPromised
<1>1. PipelineInit => Promise!CollectionInit
  BY DEF PipelineInit, RunnerInit, Promise!CollectionInit
<1>2. PipelineInv /\ [PipelineNext]_pipelineVars
        => [Promise!CollectionNext]_(Promise!collectionVars)
  BY StepCollects
<1> QED
  BY <1>1, <1>2, PipelineInvariant, PTL
  DEF PipelineSpec, CollectionPromised, Promise!CollectionSpec
=============================================================================
