--------------------------- MODULE MCStatusReport ---------------------------
(***************************************************************************)
(* Instance of StatusReport for TLC: two jobs of one source, one of a      *)
(* second source, one of a source that is switched off.                    *)
(***************************************************************************)
EXTENDS StatusReport

CONSTANTS charts, artists, releases, plays, deezer, mb, lastfm

MCSourceOf ==
  [j \in {charts, artists, releases, plays} |->
     IF j \in {charts, artists} THEN deezer ELSE IF j = releases THEN mb ELSE lastfm]
=============================================================================
