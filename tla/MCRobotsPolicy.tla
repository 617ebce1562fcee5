--------------------------- MODULE MCRobotsPolicy ---------------------------
(***************************************************************************)
(* Instance of RobotsPolicy for TLC: sites that declare a Crawl-delay and  *)
(* sites that do not.                                                      *)
(***************************************************************************)
EXTENDS RobotsPolicy

MCSiteDelays == {NoDelay, 3}
=============================================================================
