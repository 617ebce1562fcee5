------------------------------- MODULE Guards -------------------------------
(***************************************************************************)
(* What the repository guards decide about one tree: the licences of its   *)
(* dependencies (scripts/check_licenses.py), its files                     *)
(* (scripts/check_no_payloads.py) and its task runners                     *)
(* (scripts/check_task_parity.py).  Pure functions; Compliance says when   *)
(* they are applied, and to what.                                          *)
(*                                                                         *)
(* A text is the set of needles it contains, a path is what its name shows *)
(* (the first rule it meets), a runner has sets of targets.                *)
(***************************************************************************)
EXTENDS Naturals, Sequences

CONSTANTS
  Paths,
  KindOf,       \* KindOf[p]: the rule the name of path p meets, or "plain"
  SizeExempt,   \* paths whose name is in SIZE_ALLOWLIST
  Quoted,       \* paths git ls-files puts in quotes
  Packages,
  Excepted,     \* packages with an entry of their own in EXCEPTIONS
  FieldsOf,     \* FieldsOf[k]: the texts of package k's licence classifiers, expression
                \* and free text, in this order
  TermsOf       \* TermsOf[k]: the licences that really apply to package k, all of them

Unresolved == "unresolved"

-----------------------------------------------------------------------------
\* Licences.

Allowed == {"AGPL-3.0", "AGPL-3.0-or-later", "Apache-2.0", "BSD-2-Clause", "BSD-3-Clause",
            "GPL-3.0", "GPL-3.0-or-later", "HPND", "ISC", "LGPL-3.0", "LGPL-3.0-or-later",
            "MIT", "MPL-2.0", "PSF-2.0", "Python-2.0", "Unlicense", "Zlib"}

Denied == {"GPL-2.0", "GPL-2.0-only", "SSPL-1.0", "BUSL-1.1", "Commons-Clause", "Elastic-2.0"}

\* Needles that mean the same and follow each other are one row.
NeedlesFor == <<
  [any |-> {"apache software license", "apache 2.0", "apache-2.0", "apache license"},
   id |-> "Apache-2.0"],
  [any |-> {"bsd-3-clause"}, id |-> "BSD-3-Clause"],
  [any |-> {"bsd-2-clause"}, id |-> "BSD-2-Clause"],
  [any |-> {"bsd license", "bsd"}, id |-> "BSD-3-Clause"],
  [any |-> {"gnu affero", "agpl"}, id |-> "AGPL-3.0-or-later"],
  [any |-> {"gnu lesser general public license v3", "lgpl-3", "lgpl"}, id |-> "LGPL-3.0"],
  [any |-> {"gnu general public license v3", "gpl-3"}, id |-> "GPL-3.0"],
  [any |-> {"mozilla public license 2.0", "mpl-2.0"}, id |-> "MPL-2.0"],
  [any |-> {"mit license", "mit"}, id |-> "MIT"],
  [any |-> {"isc"}, id |-> "ISC"],
  [any |-> {"python software foundation", "psf"}, id |-> "PSF-2.0"],
  [any |-> {"historical permission notice"}, id |-> "HPND"],
  [any |-> {"unlicense"}, id |-> "Unlicense"],
  [any |-> {"zlib"}, id |-> "Zlib"]>>

\* normalize: the first row with a needle in the text.
Normalize(text) ==
  LET hits == SelectSeq(NeedlesFor, LAMBDA row : row.any \cap text # {})
  IN IF hits = <<>> THEN Unresolved ELSE Head(hits).id

\* license_of: an exception, or the first field that can be made sense of.
LicenseOf == [k \in Packages |->
  LET known == SelectSeq(FieldsOf[k], LAMBDA text : Normalize(text) # Unresolved)
  IN IF k \in Excepted THEN "PSF-2.0"
     ELSE IF known = <<>> THEN Unresolved ELSE Normalize(Head(known))]

\* Broken variant: what cannot be made sense of is let through.
OnlyDenied(deps) == \A k \in deps : LicenseOf[k] \notin Denied

LicencesPass(deps) ==
  \A k \in deps : LicenseOf[k] \notin Denied /\ LicenseOf[k] \in Allowed \ {Unresolved}

\* The metadata of the package names an allowed licence and leaves out, or does not
\* mean, what really applies: "MIT AND GPL-2.0-only", "no use permitted".
Misread(k) == LicenseOf[k] \in Allowed /\ ~TermsOf[k] \subseteq Allowed

-----------------------------------------------------------------------------
\* Files.  files[p] is "absent", or the size of path p.

Present(files) == {p \in Paths : files[p] # "absent"}

\* check() on one path, under the name it was given.
Refuses(kind, exempt, size) ==
  \/ kind \in {"environment", "nested environment", "key or data", "dump", "collected"}
  \/ ~exempt /\ size = "large"

RefusesFile(files, p) == Refuses(KindOf[p], p \in SizeExempt, files[p])

\* The rules a quoted path can still meet.
QuotedToo == {"dump", "nested environment"}

\* git ls-files quotes what is not ASCII: the path then begins and ends with a quote,
\* meets no rule but those that look anywhere in it or at what follows a slash, and
\* is no file on disk.
RefusesListed(files, p) ==
  IF p \in Quoted THEN KindOf[p] \in QuotedToo ELSE RefusesFile(files, p)

-----------------------------------------------------------------------------
\* Task runners: whether they are there, .PHONY and the rules of the Makefile, the
\* switch and the help of make.ps1.

BothThere(runners) == runners.makefile.there /\ runners.ps1.there

\* Broken variant: one direction only.
WindowsCatchesUp(runners) ==
  /\ BothThere(runners)
  /\ runners.makefile.phony \subseteq runners.makefile.rules
  /\ runners.makefile.phony \subseteq runners.ps1.switch

\* The script reads both files, and dies if one is missing.
ParityPasses(runners) ==
  /\ BothThere(runners)
  /\ runners.makefile.phony \subseteq runners.makefile.rules
  /\ runners.makefile.phony = runners.ps1.switch
  /\ runners.ps1.switch \subseteq runners.ps1.help
=============================================================================
