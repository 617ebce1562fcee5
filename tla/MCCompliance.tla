---------------------------- MODULE MCCompliance ----------------------------
(***************************************************************************)
(* Instance of Compliance for TLC: a clean tree, and trees that differ     *)
(* from it in one respect each.  %E9 in a path is a letter that is not     *)
(* ASCII.                                                                  *)
(***************************************************************************)
EXTENDS Compliance

MCKindOf == [p \in Paths |->
  CASE p = ".env" -> "environment"
    [] p = "docs/.env.caf%E9" -> "nested environment"
    [] p = "docs/warehouse.sql.gz" -> "dump"
    [] p \in {"data/top100.json", "data/caf%E9.json"} -> "collected"
    [] OTHER -> "plain"]

MCFieldsOf == [k \in Packages |->
  CASE k = "httpx" -> <<{"bsd license", "bsd"}, {"bsd-3-clause", "bsd"}>>
    [] k = "psycopg" -> <<{"lgpl", "gnu lesser general public license v3"}>>
    [] k = "typing_extensions" -> <<{}>>
    [] k = "gpl2" -> <<{}, {}>>
    [] k = "both" -> <<{}, {"mit"}>>]

MCTermsOf == [k \in Packages |->
  CASE k = "httpx" -> {"BSD-3-Clause"}
    [] k = "psycopg" -> {"LGPL-3.0"}
    [] k = "typing_extensions" -> {"PSF-2.0"}
    [] k = "gpl2" -> {"GPL-2.0-only"}
    [] k = "both" -> {"MIT", "GPL-2.0-only"}]

Targets == {"up", "test"}
InStep == [
  makefile |-> [there |-> TRUE, phony |-> Targets, rules |-> Targets],
  ps1 |-> [there |-> TRUE, switch |-> Targets, help |-> Targets]]
NoMakefile == [there |-> FALSE, phony |-> {}, rules |-> {}]
NoPs1 == [there |-> FALSE, switch |-> {}, help |-> {}]
Half == {"up"}

MCRunners ==
  {[InStep EXCEPT !.makefile[part] = Half] : part \in {"phony", "rules"}}
  \cup {[InStep EXCEPT !.ps1[part] = Half] : part \in {"switch", "help"}}
  \cup {[InStep EXCEPT !.makefile = NoMakefile],
        [InStep EXCEPT !.ps1 = NoPs1],
        [InStep EXCEPT !.ps1 = NoPs1, !.makefile.phony = Half]}

MCStart == [
  files |-> [p \in Paths |-> IF p = "uv.lock" THEN "large"
                             ELSE IF p = "src/emeye/bronze/store.py" THEN "small"
                             ELSE "absent"],
  deps |-> {"httpx", "typing_extensions"},
  runners |-> InStep, tempo |-> "none", headers |-> TRUE]

MCTrees ==
  {MCStart}
  \cup {[MCStart EXCEPT !.files[p] = "small"] : p \in Paths \ {"uv.lock"}}
  \cup {[MCStart EXCEPT !.files["docs/charts.csv"] = "large"]}
  \cup {[MCStart EXCEPT !.deps = @ \cup {k}] : k \in {"psycopg", "gpl2", "both"}}
  \cup {[MCStart EXCEPT !.runners = r] : r \in MCRunners}
  \cup {[MCStart EXCEPT !.tempo = how] : how \in {"plain", "disguised"}}
  \cup {[MCStart EXCEPT !.headers = FALSE]}
=============================================================================
