--------------------------- MODULE MCRateLimiter ----------------------------
(***************************************************************************)
(* Instance of RateLimiter for TLC: one host with an override of its own   *)
(* (MusicBrainz-like, slow), one on the default interval, crawl delays     *)
(* below, between and above the two.                                       *)
(***************************************************************************)
EXTENDS RateLimiter

CONSTANTS slow, plain

MCHosts == {slow, plain}
MCOverrides == [h \in {slow} |-> 2]
MCCrawlDelays == {NoDelay, 1, 3}
=============================================================================
