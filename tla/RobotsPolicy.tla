---------------------------- MODULE RobotsPolicy ----------------------------
(***************************************************************************)
(* RobotsPolicy (http/robots.py): one robots.txt cache, keyed by origin,   *)
(* shared by the threads of a client and protected by NO lock.             *)
(*                                                                         *)
(* is_allowed(url) and crawl_delay(url) each make one call of _entry,      *)
(* which returns the cached entry while it is younger than the TTL and     *)
(* otherwise fetches robots.txt and replaces the entry.  Between the miss  *)
(* and the store the thread talks to the network, so other threads miss    *)
(* too, and what is stored last wins, whatever was answered last.          *)
(*                                                                         *)
(* Data.  A URL stands for the origin (scheme://netloc) it belongs to; its *)
(* robots.txt either lets our User-Agent fetch the URLs we ask for or it   *)
(* does not.  Ages are time.monotonic() minus fetched_at, kept relative as *)
(* in RateLimiter and saturating at TTL, where an entry has expired.       *)
(***************************************************************************)
EXTENDS Naturals

CONSTANTS
  Threads, Origins,
  NoOrigin, NoEntry, NoDelay,  \* the Nones
  SiteDelays,   \* the Crawl-delays sites declare, NoDelay among them
  TTL           \* robots_cache_ttl_seconds, in ticks

VARIABLES
  cache,   \* cache[o]: the cached _CacheEntry with its age, or NoEntry
  look,    \* look[t]: where thread t is in _entry(), and with what in hand
  lastYes  \* lastYes[o]: observer's clock, time since o last answered that we
           \* may fetch, TTL if never or longer ago (never read by the code)

robotsVars == <<cache, look, lastYes>>

-----------------------------------------------------------------------------
\* What the GET of robots.txt comes back with: no answer at all (any
\* httpx.HTTPError), a 404, another status >= 400, or rules.
Replies ==
  [status : {"no answer", "not found", "error"}, permits : {FALSE}, delay : {NoDelay}]
  \cup [status : {"rules"}, permits : BOOLEAN, delay : SiteDelays]

\* Broken variant: the standard library's reading, no answer is permission.
FailOpenEntry(r) ==
  [reachable |-> TRUE,
   permits |-> r.status # "rules" \/ r.permits,
   delay |-> r.delay]

\* Broken variant: permission the default, so that unreachable entries carry it.
LenientEntry(r) ==
  [reachable |-> r.status \in {"not found", "rules"},
   permits |-> r.status # "rules" \/ r.permits,
   delay |-> r.delay]

\* _fetch: a 404 is a real answer (no rules), no answer and an error are not.
EntryOf(r) ==
  [reachable |-> r.status \in {"not found", "rules"},
   permits |-> r.status = "not found" \/ (r.status = "rules" /\ r.permits),
   delay |-> r.delay]

\* An entry of a site we could not read permits and declares nothing.
Entries ==
  {e \in [reachable : BOOLEAN, permits : BOOLEAN, delay : SiteDelays] :
     ~e.reachable => ~e.permits /\ e.delay = NoDelay}

\* What the cache holds: an entry and its age.
CachedEntries == [entry : Entries, age : 0..TTL]

ASSUME RobotsAssumption ==
  /\ NoOrigin \notin Origins
  /\ NoEntry \notin Entries \cup CachedEntries
  /\ NoDelay \notin Nat
  /\ NoDelay \in SiteDelays
  /\ SiteDelays \subseteq Nat \cup {NoDelay}
  /\ TTL \in Nat

\* is_allowed on the entry it got.
Allowed(entry) == entry.reachable /\ entry.permits

\* Broken variant: the age ignored, an entry is good for ever.
EverFresh(c) == c # NoEntry

Fresh(c) == c # NoEntry /\ c.age < TTL

-----------------------------------------------------------------------------
NotLooking == [at |-> "out", origin |-> NoOrigin, entry |-> NoEntry, age |-> 0]

RobotsInit ==
  /\ cache = [o \in Origins |-> NoEntry]
  /\ look = [t \in Threads |-> NotLooking]
  /\ lastYes = [o \in Origins |-> TTL]

\* _entry(o) is entered: a fresh entry is returned, otherwise a fetch begins.
\* (The cache is read once, so hit and miss are decided on the same entry.)
Lookup(t, o) ==
  /\ look[t].at = "out"
  /\ look' = [look EXCEPT ![t] =
       IF Fresh(cache[o])
       THEN [at |-> "answered", origin |-> o, entry |-> cache[o].entry,
             age |-> cache[o].age]
       ELSE [NotLooking EXCEPT !.at = "fetching", !.origin = o]]
  /\ UNCHANGED <<cache, lastYes>>

\* The reply arrives and becomes an entry stamped with the time of arrival.
Receive(t, r) ==
  /\ look[t].at = "fetching"
  /\ look' = [look EXCEPT ![t].at = "fetched", ![t].entry = EntryOf(r)]
  /\ lastYes' = IF r.status = "not found" \/ r.permits
                THEN [lastYes EXCEPT ![look[t].origin] = 0] ELSE lastYes
  /\ UNCHANGED cache

\* Anything that is not an httpx.HTTPError (Ctrl-C, a Crawl-delay too large for
\* a float) leaves _fetch as it is: nothing is cached, the caller gets it.
FetchRaises(t) ==
  /\ look[t].at = "fetching"
  /\ look' = [look EXCEPT ![t] = NotLooking]
  /\ UNCHANGED <<cache, lastYes>>

\* self._cache[origin] = entry, whatever is there by now; _entry returns.
Store(t) ==
  LET l == look[t]
  IN /\ l.at = "fetched"
     /\ cache' = [cache EXCEPT ![l.origin] = [entry |-> l.entry, age |-> l.age]]
     /\ look' = [look EXCEPT ![t].at = "answered"]
     /\ UNCHANGED lastYes

\* The caller goes on with what it was told.
Conclude(t) ==
  /\ look[t].at = "answered"
  /\ look' = [look EXCEPT ![t] = NotLooking]
  /\ UNCHANGED <<cache, lastYes>>

\* Entries age in the cache and in the hands of the threads.
Older(age) == IF age < TTL THEN age + 1 ELSE TTL

AgeEntries ==
  /\ cache' = [o \in Origins |->
       IF cache[o] = NoEntry THEN NoEntry ELSE [cache[o] EXCEPT !.age = Older(@)]]
  /\ look' = [t \in Threads |->
       IF look[t].entry = NoEntry THEN look[t] ELSE [look[t] EXCEPT !.age = Older(@)]]
  /\ lastYes' = [o \in Origins |-> Older(lastYes[o])]

RobotsNext ==
  \/ \E t \in Threads :
       \/ \E o \in Origins : Lookup(t, o)
       \/ \E r \in Replies : Receive(t, r)
       \/ FetchRaises(t)
       \/ Store(t)
       \/ Conclude(t)
  \/ AgeEntries

RobotsSpec == RobotsInit /\ [][RobotsNext]_robotsVars

\* Time passes, and a thread goes on from a fetch that has ended.  Nobody is
\* obliged to look anything up, and no fetch to end: the timeout is one of every
\* single read.
RobotsFairness ==
  /\ WF_robotsVars(AgeEntries)
  /\ \A t \in Threads :
       /\ WF_robotsVars(Store(t))
       /\ WF_robotsVars(Conclude(t))

FairRobotsSpec == RobotsSpec /\ RobotsFairness
-----------------------------------------------------------------------------
\* Properties.

Lookers == [at : {"out", "fetching", "fetched", "answered"},
            origin : Origins \cup {NoOrigin},
            entry : Entries \cup {NoEntry},
            age : 0..TTL]

\* Type invariant: the cache holds entries of _fetch only, and a thread that
\* holds an entry knows the origin it is for.
RobotsTypeOK ==
  /\ cache \in [Origins -> CachedEntries \cup {NoEntry}]
  /\ look \in [Threads -> Lookers]
  /\ \A t \in Threads :
       /\ look[t].at # "out" => look[t].origin \in Origins
       /\ look[t].at \in {"fetched", "answered"} <=> look[t].entry # NoEntry
  /\ lastYes \in [Origins -> 0..TTL]

\* However fetches and stores of several threads overtake each other, a
\* permission handed out of the cache is one this very origin gave less than a
\* TTL ago: an unreachable or failing robots.txt never becomes permission, and an
\* entry stored late by a slow thread does not outlive the TTL
\* (robots.py:4-8, 61-73, 85-91).
PermissionIsFresh ==
  [][\A t \in Threads :
       (/\ look[t].at = "out"
        /\ look'[t].at = "answered"
        /\ Allowed(look'[t].entry))
       => lastYes[look'[t].origin] < TTL]_robotsVars

\* From some point on, o's robots.txt only ever yields entry e.
SettlesOn(o, e) ==
  <>[][\A t \in Threads :
         look[t].origin = o /\ look'[t].at = "fetched" => look'[t].entry = e]_robotsVars

\* Verdicts follow the site: once a site has settled, so do the answers the
\* callers get, in both directions.  A permission that was withdrawn stops being
\* used, a denial because robots.txt was unreachable for a moment does not
\* stick, and no stale store of a slow thread survives (robots.py:85-91).
VerdictsConverge ==
  \A o \in Origins, e \in Entries :
    SettlesOn(o, e) =>
      <>[](\A t \in Threads :
             look[t].at = "answered" /\ look[t].origin = o => look[t].entry = e)
=============================================================================
