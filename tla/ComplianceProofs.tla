-------------------------- MODULE ComplianceProofs --------------------------
(***************************************************************************)
(* What the hooks and CI guarantee for all trees, paths, packages and any  *)
(* number of pushes.  The hooks' promise is inductive: a file that did not *)
(* change was looked at before, and a runner that comes back is looked at. *)
(* CI's is not: a job is green because of the steps that came before, so   *)
(* StepsBehind says for every step what the ones behind it established.    *)
(***************************************************************************)
EXTENDS Compliance, TLAPS

\* CI looked at every file of push n that has a name it can read.
FilesSeen(n) ==
  n \in blind \/ \A p \in Present(pushed[n].files) : ~RefusesListed(pushed[n].files, p)

StepsBehind(n) ==
  /\ job[n] \in {"payloads", "parity", "tempo", "headers", "green"} =>
       LicencesPass(pushed[n].deps)
  /\ job[n] \in {"parity", "tempo", "headers", "green"} => FilesSeen(n)
  /\ job[n] \in {"tempo", "headers", "green"} => ParityPasses(pushed[n].runners)
  /\ job[n] \in {"headers", "green"} => pushed[n].tempo = "none"
  /\ job[n] = "green" => pushed[n].headers

ComplianceInv ==
  /\ ComplianceTypeOK
  /\ HooksSuffice
  /\ \A n \in DOMAIN pushed : StepsBehind(n)

-----------------------------------------------------------------------------
\* Lemmas about one tree and about one commit.

\* The script's verdict on the runners is that of a reader of both.
LEMMA ParityIsAtParity ==
  ASSUME NEW r, ParityPasses(r)
  PROVE  AtParity(r)
BY DEF ParityPasses, AtParity

\* A commit the hooks let through keeps the files clean: what it changed they
\* looked at, what it did not change was clean before.
LEMMA ChangesSuffice ==
  ASSUME NEW old, NEW new, PayloadsClean(old.files), HooksPass(old, new)
  PROVE  PayloadsClean(new.files)
<1> SUFFICES ASSUME NEW p \in Present(new.files) PROVE ~RefusesFile(new.files, p)
  BY DEF PayloadsClean
<1>1. CASE p \in StagedPaths(old.files, new.files)
  BY <1>1 DEF HooksPass
<1>2. CASE p \notin StagedPaths(old.files, new.files)
  <2>1. new.files[p] = old.files[p]
    BY <1>2 DEF StagedPaths
  <2>2. p \in Present(old.files)
    BY <2>1 DEF Present
  <2>3. ~RefusesFile(old.files, p)
    BY <2>2 DEF PayloadsClean
  <2> QED
    BY <2>1, <2>3 DEF RefusesFile
<1> QED
  BY <1>1, <1>2

\* If the hook was skipped, a runner is gone, or both are what they were.
LEMMA RunnersKeepParity ==
  ASSUME NEW old, NEW new, HooksPass(old, new),
         BothThere(old.runners) => AtParity(old.runners)
  PROVE  BothThere(new.runners) => AtParity(new.runners)
<1> SUFFICES ASSUME BothThere(new.runners) PROVE AtParity(new.runners)
  OBVIOUS
<1>1. CASE RunnerStaged(old.runners, new.runners)
  BY <1>1, ParityIsAtParity DEF HooksPass
<1>2. CASE ~RunnerStaged(old.runners, new.runners)
  <2>1. new.runners.makefile = old.runners.makefile /\ new.runners.ps1 = old.runners.ps1
    BY <1>2 DEF RunnerStaged, BothThere
  <2>2. AtParity(old.runners)
    BY <2>1 DEF BothThere
  <2> QED
    BY <2>1, <2>2 DEF AtParity, BothThere
<1> QED
  BY <1>1, <1>2

LEMMA HooksKeepPromise ==
  ASSUME NEW t \in Trees, HooksSuffice, Commit(t)
  PROVE  HooksSuffice'
<1> SUFFICES ASSUME hooked
             PROVE  /\ PayloadsClean(t.files)
                    /\ BothThere(t.runners) => AtParity(t.runners)
                    /\ t.tempo # "plain"
  BY DEF Commit, HooksSuffice
<1>1. /\ PayloadsClean(head.files)
      /\ BothThere(head.runners) => AtParity(head.runners)
      /\ head.tempo # "plain"
      /\ HooksPass(head, t)
  BY DEF HooksSuffice, Commit
<1>2. PayloadsClean(t.files)
  BY <1>1, ChangesSuffice
<1>3. BothThere(t.runners) => AtParity(t.runners)
  BY <1>1, RunnersKeepParity
<1>4. t.tempo # "plain"
  BY <1>1 DEF HooksPass
<1> QED
  BY <1>2, <1>3, <1>4

-----------------------------------------------------------------------------
\* The inductive invariant.

LEMMA ComplianceInitInv == ComplianceInit => ComplianceInv
<1> SUFFICES ASSUME ComplianceInit PROVE ComplianceInv
  OBVIOUS
<1>1. ComplianceTypeOK
  BY ComplianceAssumption DEF ComplianceInit, ComplianceTypeOK
<1>2. HooksSuffice
  BY ComplianceAssumption DEF ComplianceInit, HooksSuffice, Clean
<1> QED
  BY <1>1, <1>2 DEF ComplianceInit, ComplianceInv

\* A push adds a job at its first step and changes no earlier one but to cancel it.
LEMMA PushKeeps ==
  ASSUME ComplianceInv, Push
  PROVE  ComplianceInv'
<1> DEFINE m == Len(job)
<1>1. /\ pushed \in Seq(Trees) /\ job \in Seq(Verdicts \cup DOMAIN After)
      /\ Len(pushed) = m /\ m \in Nat /\ m < MaxPushes /\ MaxPushes \in Nat
      /\ head \in Trees
      /\ blind \subseteq DOMAIN pushed
  BY ComplianceAssumption DEF Push, ComplianceInv, ComplianceTypeOK
<1>2. /\ pushed' = Append(pushed, head)
      /\ UNCHANGED <<head, hooked, blind>>
  BY DEF Push
<1> DEFINE cut == [n \in DOMAIN job |-> IF job[n] \in Verdicts THEN job[n] ELSE "cancelled"]
<1>3. /\ cut \in Seq(Verdicts \cup DOMAIN After) /\ Len(cut) = m
      /\ \A n \in 1..m : cut[n] \in Verdicts /\ (cut[n] = job[n] \/ cut[n] = "cancelled")
  <2>1. /\ DOMAIN job = 1..m
        /\ \A n \in 1..m : cut[n] \in Verdicts /\ (cut[n] = job[n] \/ cut[n] = "cancelled")
    BY <1>1 DEF Verdicts
  <2>2. cut \in [1..m -> Verdicts \cup DOMAIN After]
    BY <2>1
  <2> QED
    BY <1>1, <2>1, <2>2
<1>4. job' = Append(cut, "licences")
  BY DEF Push, Superseding
<1>5. /\ job' \in Seq(Verdicts \cup DOMAIN After) /\ Len(job') = m + 1
      /\ \A n \in 1..m : job'[n] = cut[n]
      /\ job'[m + 1] = "licences"
  <2>1. "licences" \in Verdicts \cup DOMAIN After
    BY DEF After
  <2> HIDE DEF cut
  <2> QED
    BY <1>1, <1>3, <1>4, <2>1
<1>6. /\ pushed' \in Seq(Trees) /\ Len(pushed') = m + 1
      /\ \A n \in 1..m : pushed'[n] = pushed[n]
      /\ DOMAIN pushed' = 1..(m + 1)
  BY <1>1, <1>2
<1>7. \A n \in 1..m : job'[n] \in Verdicts
                      /\ (job'[n] = job[n] \/ job'[n] = "cancelled")
  BY <1>3, <1>5
<1>8. ComplianceTypeOK'
  <2>1. \A n \in DOMAIN pushed' :
          /\ InProgress(n)' => n = Len(job')
          /\ n = Len(job') => job'[n] # "cancelled"
    BY <1>1, <1>5, <1>6, <1>7 DEF InProgress
  <2>2. blind' \subseteq DOMAIN pushed'
    BY <1>1, <1>2, <1>6
  <2> QED
    BY <1>1, <1>2, <1>5, <1>6, <2>1, <2>2 DEF ComplianceInv, ComplianceTypeOK
<1>9. HooksSuffice'
  BY <1>2 DEF ComplianceInv, HooksSuffice
<1>10. ASSUME NEW n \in DOMAIN pushed' PROVE StepsBehind(n)'
  <2>1. CASE n = m + 1
    BY <1>5, <2>1 DEF StepsBehind
  <2>2. CASE n \in 1..m
    <3>1. n \in DOMAIN pushed /\ StepsBehind(n) /\ pushed'[n] = pushed[n]
      BY <1>1, <1>6, <2>2 DEF ComplianceInv
    <3> QED
      BY <1>2, <1>7, <2>2, <3>1 DEF StepsBehind, FilesSeen
  <2> QED
    BY <1>1, <1>6, <2>1, <2>2
<1> QED
  BY <1>8, <1>9, <1>10 DEF ComplianceInv

\* A step turns its job red, or to the next step; other jobs are left alone.
LEMMA JobStepKeeps ==
  ASSUME ComplianceInv, NEW n \in DOMAIN pushed, JobStep(n)
  PROVE  ComplianceInv'
<1>1. PICK name \in DOMAIN After :
        \E passes \in BOOLEAN :
          /\ job[n] = name
          /\ job' = [job EXCEPT ![n] = IF passes THEN After[name] ELSE "red"]
  BY DEF JobStep, Licences, Payloads, PayloadsUnseen, Parity, Tempo, Headers, Step, After
<1>2. /\ UNCHANGED <<head, hooked, pushed>>
      /\ blind' = blind \/ blind' = blind \cup {n}
  BY DEF JobStep, Licences, Payloads, PayloadsUnseen, Parity, Tempo, Headers, Step
<1>3. /\ job \in Seq(Verdicts \cup DOMAIN After) /\ Len(pushed) = Len(job)
      /\ pushed \in Seq(Trees)
  BY DEF ComplianceInv, ComplianceTypeOK
<1>4. n \in DOMAIN job
  BY <1>3
<1>5. /\ job' \in Seq(Verdicts \cup DOMAIN After) /\ Len(job') = Len(job)
      /\ \A k \in DOMAIN pushed : k # n => job'[k] = job[k]
      /\ job'[n] \in {After[name], "red"}
  BY <1>1, <1>3, <1>4 DEF Verdicts, After
<1>6. InProgress(n)
  BY <1>1 DEF InProgress, Verdicts, After
<1>7. ComplianceTypeOK'
  <2>1. \A k \in DOMAIN pushed :
          /\ InProgress(k)' => k = Len(job')
          /\ k = Len(job') => job'[k] # "cancelled"
    BY <1>1, <1>5, <1>6 DEF ComplianceInv, ComplianceTypeOK, InProgress, After
  <2> QED
    BY <1>2, <1>5, <2>1 DEF ComplianceInv, ComplianceTypeOK
<1>8. HooksSuffice'
  BY <1>2 DEF ComplianceInv, HooksSuffice
<1>9. ASSUME NEW k \in DOMAIN pushed, k # n PROVE StepsBehind(k)'
  <2>1. StepsBehind(k) /\ job'[k] = job[k]
    BY <1>5, <1>9 DEF ComplianceInv
  <2> QED
    BY <1>2, <2>1 DEF StepsBehind, FilesSeen
<1>10. StepsBehind(n)'
  <2>1. StepsBehind(n) /\ pushed'[n] = pushed[n]
    BY <1>2 DEF ComplianceInv
  <2>2. CASE Licences(n)
    BY <1>4, <2>1, <2>2, <1>3 DEF Licences, Step, StepsBehind, After
  <2>3. CASE Payloads(n)
    BY <1>4, <2>1, <2>3, <1>3 DEF Payloads, Step, StepsBehind, FilesSeen, TrackedPaths, After
  <2>4. CASE PayloadsUnseen(n)
    BY <1>4, <2>1, <2>4, <1>3 DEF PayloadsUnseen, Step, StepsBehind, FilesSeen, After
  <2>5. CASE Parity(n)
    BY <1>4, <2>1, <2>5, <1>3 DEF Parity, Step, StepsBehind, FilesSeen, After
  <2>6. CASE Tempo(n)
    BY <1>4, <2>1, <2>6, <1>3 DEF Tempo, Step, StepsBehind, FilesSeen, After
  <2>7. CASE Headers(n)
    BY <1>4, <2>1, <2>7, <1>3 DEF Headers, Step, StepsBehind, FilesSeen, After
  <2> QED
    BY <2>2, <2>3, <2>4, <2>5, <2>6, <2>7 DEF JobStep
<1> QED
  BY <1>2, <1>7, <1>8, <1>9, <1>10 DEF ComplianceInv

\* Commits touch nothing CI knows.
LEMMA CommitKeepsJobs ==
  ASSUME ComplianceInv, NEW t \in Trees, head' = t, hooked' \in BOOLEAN,
         UNCHANGED <<pushed, job, blind>>
  PROVE  ComplianceTypeOK' /\ \A n \in DOMAIN pushed' : StepsBehind(n)'
BY DEF ComplianceInv, ComplianceTypeOK, InProgress, StepsBehind, FilesSeen

LEMMA ComplianceStepInv == ComplianceInv /\ [ComplianceNext]_complianceVars => ComplianceInv'
<1> SUFFICES ASSUME ComplianceInv, [ComplianceNext]_complianceVars PROVE ComplianceInv'
  OBVIOUS
<1>1. ASSUME NEW t \in Trees, Commit(t) PROVE ComplianceInv'
  <2>1. HooksSuffice'
    BY <1>1, HooksKeepPromise DEF ComplianceInv
  <2>2. hooked' \in BOOLEAN
    BY <1>1 DEF Commit, ComplianceInv, ComplianceTypeOK
  <2> QED
    BY <1>1, <2>1, <2>2, CommitKeepsJobs DEF Commit, ComplianceInv
<1>2. ASSUME NEW t \in Trees, CommitUnverified(t) PROVE ComplianceInv'
  <2>1. HooksSuffice'
    BY <1>2 DEF CommitUnverified, HooksSuffice
  <2> QED
    BY <1>2, <2>1, CommitKeepsJobs DEF CommitUnverified, ComplianceInv
<1>3. CASE Push
  BY <1>3, PushKeeps
<1>4. ASSUME NEW n \in DOMAIN pushed, JobStep(n) PROVE ComplianceInv'
  BY <1>4, JobStepKeeps
<1>5. CASE UNCHANGED complianceVars
  BY <1>5 DEF complianceVars, ComplianceInv, ComplianceTypeOK, InProgress, HooksSuffice,
              StepsBehind, FilesSeen
<1> QED
  BY <1>1, <1>2, <1>3, <1>4, <1>5 DEF ComplianceNext

\* The inductive invariant holds throughout (ci.yml:19-99).
THEOREM ComplianceInvariant == ComplianceSpec => []ComplianceInv
BY ComplianceInitInv, ComplianceStepInv, PTL DEF ComplianceSpec

\* However many pushes there are, only the last one's job is ever in progress, and it
\* is never cancelled (ci.yml:19-21).
THEOREM OneJobAtATime == ComplianceSpec => []ComplianceTypeOK
<1>1. ComplianceInv => ComplianceTypeOK
  BY DEF ComplianceInv
<1> QED
  BY <1>1, ComplianceInvariant, PTL

\* Looking at what each commit changes keeps the whole tree free of payloads and plain
\* mentions, and runners that are both there at parity, for all trees and histories
\* that never go round the hooks, runners deleted and added again among them
\* (.pre-commit-config.yaml:32-51).
THEOREM HooksAreEnough == ComplianceSpec => []HooksSuffice
<1>1. ComplianceInv => HooksSuffice
  BY DEF ComplianceInv
<1> QED
  BY <1>1, ComplianceInvariant, PTL

\* CI's green can be relied on, up to what the guards cannot see (ci.yml:72-99).
THEOREM GreenCanBeRelied == ComplianceSpec => []GreenIsClean
<1>1. ComplianceInv => GreenIsClean
  <2> SUFFICES ASSUME ComplianceInv, NEW n \in DOMAIN pushed,
                      job[n] = "green", n \notin blind,
                      \A p \in Quoted : \/ pushed[n].files[p] = "absent"
                                       \/ KindOf[p] \in QuotedToo,
                      \A k \in pushed[n].deps : ~Misread(k)
               PROVE  Clean(pushed[n])
    BY DEF GreenIsClean
  <2>1. /\ LicencesPass(pushed[n].deps) /\ FilesSeen(n) /\ ParityPasses(pushed[n].runners)
        /\ pushed[n].tempo = "none" /\ pushed[n].headers
    BY DEF ComplianceInv, StepsBehind
  <2>2. \A k \in pushed[n].deps : TermsOf[k] \subseteq Allowed
    BY <2>1 DEF LicencesPass, Misread
  <2>3. PayloadsClean(pushed[n].files)
    BY <2>1 DEF PayloadsClean, FilesSeen, RefusesListed, Present
  <2>4. AtParity(pushed[n].runners)
    BY <2>1, ParityIsAtParity
  <2> QED
    BY <2>1, <2>2, <2>3, <2>4 DEF Clean
<1> QED
  BY <1>1, ComplianceInvariant, PTL
=============================================================================
