--------------------------- MODULE MCPoliteClient ---------------------------
(***************************************************************************)
(* Instance of PoliteClient for TLC: one host that is reachable as http    *)
(* and as https, each with a robots.txt of its own, unless a run says      *)
(* otherwise.                                                              *)
(***************************************************************************)
EXTENDS PoliteClient

CONSTANTS host, http, https

MCOrigins == {http, https}
MCHostOf == [o \in Origins |-> host]
\* Every origin on a host of its own.
MCOwnHost == [o \in Origins |-> o]
MCOverrides == [h \in {} |-> 0]
MCSiteDelays == {NoDelay, 2}
MCRetryAfters == {0, 3}
=============================================================================
