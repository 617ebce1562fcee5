----------------------------- MODULE Compliance -----------------------------
(***************************************************************************)
(* How the repository is kept clean: pre-commit hooks that look at what a  *)
(* commit changes and can be bypassed (.pre-commit-config.yaml), and CI's  *)
(* compliance job, which looks at the whole tree of a push, step by step,  *)
(* and is cancelled by the next push (.github/workflows/ci.yml).           *)
(***************************************************************************)
EXTENDS Guards

CONSTANTS
  Trees,      \* what a commit can leave: files, deps, the two runners, whether Spotify's tempo
              \* is mentioned (plainly, or disguised: in another case, or in a file
              \* that was moved here), whether all sources have their header
  Start,      \* the tree the hooks were installed on
  MaxPushes   \* bound on the pushes

VARIABLES
  head,       \* the tree of the developer's last commit
  hooked,     \* every commit went through the hooks
  pushed,     \* pushed[n]: the tree of the n-th push
  job,        \* job[n]: the step CI's compliance job for it is at, or its verdict
  blind       \* the pushes for which git failed to list the files

complianceVars == <<head, hooked, pushed, job, blind>>

-----------------------------------------------------------------------------
\* What follows a step that passes.
After == [licences |-> "payloads", payloads |-> "parity", parity |-> "tempo",
          tempo |-> "headers", headers |-> "green"]
Verdicts == {"green", "red", "cancelled"}

\* Whoever sees a target can run it, on either platform.
AtParity(r) ==
  /\ BothThere(r)
  /\ \A target \in r.makefile.phony \cup r.ps1.switch :
       target \in r.makefile.rules \cap r.ps1.switch \cap r.ps1.help

PayloadsClean(files) == \A p \in Present(files) : ~RefusesFile(files, p)

Clean(t) ==
  /\ \A k \in t.deps : TermsOf[k] \subseteq Allowed
  /\ PayloadsClean(t.files)
  /\ AtParity(t.runners)
  /\ t.tempo = "none" /\ t.headers

ASSUME ComplianceAssumption ==
  /\ Start \in Trees /\ Clean(Start)
  /\ MaxPushes \in Nat

ComplianceInit ==
  /\ head = Start
  /\ hooked = TRUE
  /\ pushed = <<>> /\ job = <<>> /\ blind = {}

-----------------------------------------------------------------------------
\* Hooks.

\* Broken variant: new files only.
AddedPaths(files, new) == {p \in Present(new) : files[p] = "absent"}

\* The files pre-commit passes: added or modified, never deleted.
StagedPaths(files, new) == {p \in Present(new) : new[p] # files[p]}

\* The same of the runners: the hook runs if it is passed one of the two.  It is not
\* if the commit only deletes a runner, or moves it away.
RunnerStaged(old, new) ==
  \E name \in {"makefile", "ps1"} : new[name].there /\ new[name] # old[name]

HooksPass(old, new) ==
  /\ \A p \in StagedPaths(old.files, new.files) : ~RefusesFile(new.files, p)
  /\ RunnerStaged(old.runners, new.runners) => ParityPasses(new.runners)
  /\ new.tempo = "plain" => old.tempo = "plain"

Commit(t) ==
  /\ HooksPass(head, t)
  /\ head' = t
  /\ UNCHANGED <<hooked, pushed, job, blind>>

\* --no-verify, a merge, no hooks installed.
CommitUnverified(t) ==
  /\ head' = t
  /\ hooked' = FALSE
  /\ UNCHANGED <<pushed, job, blind>>

-----------------------------------------------------------------------------
\* CI.

\* Broken variants: the run in progress goes on; none is left.
NothingCancelled(jobs) == Append(jobs, "licences")

AllCancelled(jobs) == [n \in 1..(Len(jobs) + 1) |-> "cancelled"]

\* cancel-in-progress: what has no verdict yet is cancelled by the new one.
Superseding(jobs) ==
  Append([n \in DOMAIN jobs |-> IF jobs[n] \in Verdicts THEN jobs[n] ELSE "cancelled"], "licences")

Push ==
  /\ Len(pushed) < MaxPushes
  /\ pushed' = Append(pushed, head)
  /\ job' = Superseding(job)
  /\ UNCHANGED <<head, hooked, blind>>

\* A step passes and the next one begins, or it fails and the job is red.
Step(n, name, passes) ==
  /\ job[n] = name
  /\ job' = [job EXCEPT ![n] = IF passes THEN After[name] ELSE "red"]
  /\ UNCHANGED <<head, hooked, pushed>>

\* Broken variant: without --all, what is staged, which is nothing in a fresh checkout.
StagedInCheckout(files) == {}

TrackedPaths(files) == Present(files)

Licences(n) == Step(n, "licences", LicencesPass(pushed[n].deps)) /\ UNCHANGED blind

Payloads(n) ==
  LET files == pushed[n].files
  IN /\ Step(n, "payloads", \A p \in TrackedPaths(files) : ~RefusesListed(files, p))
     /\ UNCHANGED blind

\* git fails, _git returns nothing: "OK - nothing to check".
PayloadsUnseen(n) == Step(n, "payloads", TRUE) /\ blind' = blind \cup {n}

Parity(n) == Step(n, "parity", ParityPasses(pushed[n].runners)) /\ UNCHANGED blind

Tempo(n) == Step(n, "tempo", pushed[n].tempo = "none") /\ UNCHANGED blind

Headers(n) == Step(n, "headers", pushed[n].headers) /\ UNCHANGED blind

JobStep(n) ==
  \/ Licences(n)
  \/ Payloads(n)
  \/ PayloadsUnseen(n)
  \/ Parity(n)
  \/ Tempo(n)
  \/ Headers(n)

ComplianceNext ==
  \/ \E t \in Trees :
       \/ Commit(t)
       \/ CommitUnverified(t)
  \/ Push
  \/ \E n \in DOMAIN pushed : JobStep(n)

ComplianceSpec == ComplianceInit /\ [][ComplianceNext]_complianceVars

\* A job that is not cancelled runs to its end.  Nobody has to commit or push.
FairComplianceSpec ==
  ComplianceSpec /\ WF_complianceVars(\E n \in DOMAIN pushed : JobStep(n))

-----------------------------------------------------------------------------
\* Properties.

InProgress(n) == job[n] \notin Verdicts

\* Type invariant: the job of the last push only can be in progress, and it has not
\* been cancelled.
ComplianceTypeOK ==
  /\ head \in Trees /\ hooked \in BOOLEAN
  /\ pushed \in Seq(Trees) /\ job \in Seq(Verdicts \cup DOMAIN After)
  /\ Len(pushed) = Len(job) /\ Len(job) <= MaxPushes
  /\ \A n \in DOMAIN pushed :
       /\ InProgress(n) => n = Len(job)
       /\ n = Len(job) => job[n] # "cancelled"
  /\ blind \subseteq DOMAIN pushed

\* What looking at changes is enough for: as long as nobody went round the hooks, the
\* tree that grew from commit to commit has no payload and does not mention Spotify's
\* tempo in plain words, and its two runners, if it has both, are at parity, though
\* nobody looked at it as a whole.  A runner can be deleted unseen; but while it is
\* away the other cannot change, and it can only come back at parity
\* (.pre-commit-config.yaml:32-51, check_no_payloads.py:65-66).
HooksSuffice ==
  hooked =>
    /\ PayloadsClean(head.files)
    /\ BothThere(head.runners) => AtParity(head.runners)
    /\ head.tempo # "plain"

\* Where CI's word counts ("CI is the authority", .pre-commit-config.yaml:3-4), it can
\* be relied on: the tree of a green push is clean, whatever was pushed before,
\* meanwhile and round the hooks.  Except for what the guards cannot see: git
\* failed, the name is quoted, or the metadata says something else than the licence.
GreenIsClean ==
  \A n \in DOMAIN pushed :
    LET t == pushed[n]
    IN /\ job[n] = "green"
       /\ n \notin blind
       /\ \A p \in Quoted : t.files[p] = "absent" \/ KindOf[p] \in QuotedToo
       /\ \A k \in t.deps : ~Misread(k)
       => Clean(t)

\* Pushes cancel the job of the one before, but not for ever: the last push is
\* judged (ci.yml:19-21).
HeadIsJudged ==
  \A n \in 1..MaxPushes :
    (Len(pushed) = n) ~> (Len(pushed) > n \/ (n \in DOMAIN job /\ job[n] \in {"green", "red"}))
=============================================================================
