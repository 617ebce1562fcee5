-------------------------- MODULE MCIngestPipeline --------------------------
(***************************************************************************)
(* Instance of IngestPipeline for TLC: two jobs that collect the same      *)
(* content from different requests, and one of a disabled source.          *)
(***************************************************************************)
EXTENDS IngestPipeline

CONSTANTS top100, mirror, account, chart, liked, beatport, spotify

MCSourceOf == [j \in {top100, mirror, account} |-> IF j = account THEN spotify ELSE beatport]
MCContentOf == [j \in {top100, mirror, account} |-> IF j = account THEN liked ELSE chart]
=============================================================================
