----------------------------- MODULE Collection -----------------------------
(***************************************************************************)
(* What collecting promises, without processes, transactions or rows:      *)
(* every run is entered before it keeps anything, what was kept stays, and *)
(* a run is concluded as successful, or as having had nothing to do, only  *)
(* when what it was after is kept.                                         *)
(***************************************************************************)
CONSTANTS
  Runs,
  Contents,
  NoEntry

VARIABLES
  kept,    \* the contents that are kept
  entry    \* entry[r]: what run r is after and what came of it, or NoEntry

collectionVars == <<kept, entry>>

CollectionInit ==
  /\ kept = {}
  /\ entry = [r \in Runs |-> NoEntry]

Open(r) == entry[r] # NoEntry /\ entry[r].status = "started"

Attempt(r) ==
  /\ entry[r] = NoEntry
  /\ \E c \in Contents : entry' = [entry EXCEPT ![r] = [after |-> c, status |-> "started"]]
  /\ UNCHANGED kept

Keep(r) ==
  /\ Open(r)
  /\ kept' = kept \cup {entry[r].after}
  /\ UNCHANGED entry

Conclude(r, status) ==
  /\ Open(r)
  /\ status \in {"succeeded", "skipped_cache"} => entry[r].after \in kept
  /\ entry' = [entry EXCEPT ![r].status = status]
  /\ UNCHANGED kept

CollectionNext ==
  \E r \in Runs :
    \/ Attempt(r)
    \/ Keep(r)
    \/ \E status \in {"succeeded", "skipped_cache", "failed"} : Conclude(r, status)

CollectionSpec == CollectionInit /\ [][CollectionNext]_collectionVars
=============================================================================
