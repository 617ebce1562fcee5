------------------------------ MODULE MCBronze ------------------------------
(***************************************************************************)
(* Instance of Bronze for TLC: two request shapes of one source, so that   *)
(* documents of the source can be equally old, each with its own endpoint. *)
(***************************************************************************)
EXTENDS Bronze

CONSTANTS chart, artist, beatport

MCSourceOf == [q \in {chart, artist} |-> beatport]
MCEndpointOf == [q \in {chart, artist} |-> q]
=============================================================================
