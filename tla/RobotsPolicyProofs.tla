------------------------- MODULE RobotsPolicyProofs -------------------------
(***************************************************************************)
(* What RobotsPolicy guarantees for every number of threads and origins    *)
(* and every TTL, although no lock protects the cache.  That a permission  *)
(* handed out is fresh is inductive only with the age of every permission  *)
(* anybody holds beside it, in the cache or on its way there (YesBehind).  *)
(***************************************************************************)
EXTENDS RobotsPolicy, TLAPS

\* A thread that is past its fetch has an entry in hand.
Holding(t) == look[t].at \in {"fetched", "answered"}

\* Every permission there is was given by its origin, and is at least as old as
\* the last one the origin gave.
YesBehind ==
  /\ \A o \in Origins :
       cache[o] # NoEntry /\ Allowed(cache[o].entry) => lastYes[o] <= cache[o].age
  /\ \A t \in Threads :
       Holding(t) /\ Allowed(look[t].entry) => lastYes[look[t].origin] <= look[t].age

RobotsInv == RobotsTypeOK /\ YesBehind

-----------------------------------------------------------------------------
\* What the operators return.

\* Only a 404 or a rule that lets us becomes a permission, and everything _fetch
\* makes of a reply may go into the cache (robots.py:61-73).
LEMMA EntryFacts ==
  ASSUME NEW r \in Replies
  PROVE  /\ EntryOf(r) \in Entries
         /\ EntryOf(r) # NoEntry
         /\ Allowed(EntryOf(r)) => r.status = "not found" \/ r.permits
<1>1. /\ r.permits \in BOOLEAN /\ r.delay \in SiteDelays
      /\ r.status \in {"no answer", "error"} => ~r.permits /\ r.delay = NoDelay
      /\ r.status \in {"no answer", "not found", "error", "rules"}
  BY RobotsAssumption DEF Replies
<1>2. EntryOf(r) \in Entries
  <2> DEFINE reachable == r.status \in {"not found", "rules"}
             permits == r.status = "not found" \/ (r.status = "rules" /\ r.permits)
  <2>1. reachable \in BOOLEAN
    BY SMT
  <2>2. permits \in BOOLEAN
    BY SMT
  <2>3. ~reachable => ~permits /\ r.delay = NoDelay
    BY <1>1
  <2>4. EntryOf(r) = [reachable |-> reachable, permits |-> permits, delay |-> r.delay]
    BY DEF EntryOf
  <2> HIDE DEF reachable, permits
  <2>5. EntryOf(r) \in [reachable : BOOLEAN, permits : BOOLEAN, delay : SiteDelays]
    <3>1. r.delay \in SiteDelays
      BY <1>1
    <3>2. \A a, b \in BOOLEAN, d \in SiteDelays :
            [reachable |-> a, permits |-> b, delay |-> d]
              \in [reachable : BOOLEAN, permits : BOOLEAN, delay : SiteDelays]
      BY SMT
    <3> QED
      BY <2>1, <2>2, <2>4, <3>1, <3>2
  <2>6. EntryOf(r).reachable = reachable /\ EntryOf(r).permits = permits
        /\ EntryOf(r).delay = r.delay
    BY <2>4
  <2> QED
    BY <2>3, <2>5, <2>6 DEF Entries
<1>3. Allowed(EntryOf(r)) => r.status = "not found" \/ r.permits
  BY <1>1 DEF EntryOf, Allowed
<1> QED
  BY <1>2, <1>3, RobotsAssumption

LEMMA OlderInRange ==
  ASSUME NEW a \in 0..TTL
  PROVE  Older(a) \in 0..TTL
BY RobotsAssumption DEF Older

\* Ages that saturate at the same TTL keep their order.
LEMMA OlderKeepsOrder ==
  ASSUME NEW a \in 0..TTL, NEW b \in 0..TTL, a <= b
  PROVE  Older(a) <= Older(b)
BY RobotsAssumption DEF Older

\* A thread in the type invariant's terms, one at a time.
LEMMA LookFacts ==
  ASSUME RobotsTypeOK, NEW t \in Threads
  PROVE  /\ look[t] \in Lookers
         /\ look[t].at # "out" => look[t].origin \in Origins
         /\ Holding(t) => look[t].entry \in Entries
         /\ ~Holding(t) => look[t].entry = NoEntry
BY DEF RobotsTypeOK, Lookers, Holding

LEMMA NotLookingFacts ==
  /\ NotLooking \in Lookers /\ NotLooking.at = "out" /\ NotLooking.entry = NoEntry
  /\ NotLooking.age = 0
BY RobotsAssumption DEF NotLooking, Lookers

-----------------------------------------------------------------------------
\* The inductive invariant, one lemma per action.

LEMMA RobotsInitInv == RobotsInit => RobotsInv
<1> SUFFICES ASSUME RobotsInit PROVE RobotsInv
  OBVIOUS
<1>1. RobotsTypeOK
  BY NotLookingFacts, RobotsAssumption DEF RobotsInit, RobotsTypeOK
<1>2. YesBehind
  BY NotLookingFacts DEF RobotsInit, YesBehind, Holding
<1> QED
  BY <1>1, <1>2 DEF RobotsInv

\* When one thread's look changes and nothing else, the new look is all there
\* is to check.
LEMMA OneLookKeeps ==
  ASSUME RobotsInv, NEW t \in Threads, NEW l \in Lookers,
         look' = [look EXCEPT ![t] = l], UNCHANGED <<cache, lastYes>>,
         l.at # "out" => l.origin \in Origins,
         l.at \in {"fetched", "answered"} <=> l.entry # NoEntry,
         l.entry # NoEntry /\ Allowed(l.entry) => lastYes[l.origin] <= l.age
  PROVE  RobotsInv'
<1>1. look'[t] = l /\ \A u \in Threads \ {t} : look'[u] = look[u]
  BY DEF RobotsInv, RobotsTypeOK
<1>2. RobotsTypeOK'
  BY <1>1 DEF RobotsInv, RobotsTypeOK
<1>3. YesBehind'
  BY <1>1 DEF RobotsInv, YesBehind, Holding
<1> QED
  BY <1>2, <1>3 DEF RobotsInv

\* A hit hands out a permission the origin gave less than a TTL ago.
LEMMA HitIsFresh ==
  ASSUME RobotsInv, NEW o \in Origins, Fresh(cache[o])
  PROVE  /\ cache[o].entry \in Entries /\ cache[o].age \in 0..TTL /\ cache[o].age < TTL
         /\ Allowed(cache[o].entry) => lastYes[o] <= cache[o].age
<1>1. cache[o] # NoEntry /\ cache[o].age < TTL
  BY DEF Fresh
<1>2. cache[o] \in CachedEntries
  BY <1>1 DEF RobotsInv, RobotsTypeOK
<1> QED
  BY <1>1, <1>2 DEF CachedEntries, RobotsInv, YesBehind

LEMMA LookupKeeps ==
  ASSUME RobotsInv, NEW t \in Threads, NEW o \in Origins, Lookup(t, o)
  PROVE  RobotsInv'
<1>1. UNCHANGED <<cache, lastYes>>
  BY DEF Lookup
<1>2. CASE Fresh(cache[o])
  <2> DEFINE l == [at |-> "answered", origin |-> o, entry |-> cache[o].entry,
                   age |-> cache[o].age]
  <2>1. look' = [look EXCEPT ![t] = l]
    BY <1>2 DEF Lookup
  <2>2. l \in Lookers /\ l.entry # NoEntry
    BY <1>2, HitIsFresh, RobotsAssumption DEF Lookers
  <2>3. Allowed(l.entry) => lastYes[l.origin] <= l.age
    BY <1>2, HitIsFresh
  <2>4. l.at = "answered" /\ l.origin \in Origins
    OBVIOUS
  <2> HIDE DEF l
  <2> QED
    BY <1>1, <2>1, <2>2, <2>3, <2>4, OneLookKeeps
<1>3. CASE ~Fresh(cache[o])
  <2> DEFINE l == [NotLooking EXCEPT !.at = "fetching", !.origin = o]
  <2>1. look' = [look EXCEPT ![t] = l]
    BY <1>3 DEF Lookup
  <2>2. l \in Lookers /\ l.at = "fetching" /\ l.origin \in Origins /\ l.entry = NoEntry
    BY NotLookingFacts DEF Lookers
  <2> HIDE DEF l
  <2> QED
    BY <1>1, <2>1, <2>2, OneLookKeeps
<1> QED
  BY <1>2, <1>3

\* A thread leaves, with or without an answer.
LEMMA LeavingKeeps ==
  ASSUME RobotsInv, NEW t \in Threads, FetchRaises(t) \/ Conclude(t)
  PROVE  RobotsInv'
<1>1. look' = [look EXCEPT ![t] = NotLooking] /\ UNCHANGED <<cache, lastYes>>
  BY DEF FetchRaises, Conclude
<1> QED
  BY <1>1, NotLookingFacts, OneLookKeeps

\* The reply: a permission in it is one the origin gives at this moment.
LEMMA ReceiveKeeps ==
  ASSUME RobotsInv, NEW t \in Threads, NEW r \in Replies, Receive(t, r)
  PROVE  RobotsInv'
<1> DEFINE o == look[t].origin
<1>1. /\ look[t].at = "fetching"
      /\ look' = [look EXCEPT ![t].at = "fetched", ![t].entry = EntryOf(r)]
      /\ lastYes' = IF r.status = "not found" \/ r.permits
                    THEN [lastYes EXCEPT ![o] = 0] ELSE lastYes
      /\ cache' = cache
  BY DEF Receive
<1>2. look[t] \in Lookers /\ o \in Origins /\ TTL \in Nat
  BY <1>1, LookFacts, RobotsAssumption DEF RobotsInv
<1>3. /\ look'[t] = [look[t] EXCEPT !.at = "fetched", !.entry = EntryOf(r)]
      /\ \A u \in Threads \ {t} : look'[u] = look[u]
  BY <1>1 DEF RobotsInv, RobotsTypeOK
<1>4. /\ look'[t].at = "fetched" /\ look'[t].origin = o /\ look'[t].entry = EntryOf(r)
      /\ look'[t].age = look[t].age /\ look'[t] \in Lookers
  BY <1>2, <1>3, EntryFacts DEF Lookers
<1>5. look' \in [Threads -> Lookers]
  BY <1>1, <1>3, <1>4 DEF RobotsInv, RobotsTypeOK
<1>6. /\ lastYes' \in [Origins -> 0..TTL]
      /\ \A q \in Origins : lastYes'[q] \in {0, lastYes[q]}
      /\ Allowed(EntryOf(r)) => lastYes'[o] = 0
  <2>1. CASE r.status = "not found" \/ r.permits
    <3>1. lastYes' = [lastYes EXCEPT ![o] = 0]
      BY <1>1, <2>1
    <3> QED
      BY <1>2, <3>1 DEF RobotsInv, RobotsTypeOK
  <2>2. CASE ~(r.status = "not found" \/ r.permits)
    BY <1>1, <2>2, EntryFacts DEF RobotsInv, RobotsTypeOK
  <2> QED
    BY <2>1, <2>2
<1>7. \A q \in Origins, a \in 0..TTL : lastYes[q] <= a => lastYes'[q] <= a
  BY <1>6 DEF RobotsInv, RobotsTypeOK
<1>8. RobotsTypeOK'
  <2>1. ASSUME NEW u \in Threads
        PROVE  /\ look'[u].at # "out" => look'[u].origin \in Origins
               /\ look'[u].at \in {"fetched", "answered"} <=> look'[u].entry # NoEntry
    <3>1. CASE u = t
      BY <1>2, <1>4, <3>1, EntryFacts
    <3>2. CASE u # t
      BY <1>3, <3>2 DEF RobotsInv, RobotsTypeOK
    <3> QED
      BY <3>1, <3>2
  <2>2. cache' \in [Origins -> CachedEntries \cup {NoEntry}]
    BY <1>1 DEF RobotsInv, RobotsTypeOK
  <2> QED
    BY <1>5, <1>6, <2>1, <2>2 DEF RobotsTypeOK
<1>9. YesBehind'
  <2>1. ASSUME NEW q \in Origins, cache[q] # NoEntry, Allowed(cache[q].entry)
        PROVE  lastYes'[q] <= cache[q].age
    <3>1. cache[q].age \in 0..TTL
      BY <2>1 DEF RobotsInv, RobotsTypeOK, CachedEntries
    <3> QED
      BY <1>7, <2>1, <3>1 DEF RobotsInv, YesBehind
  <2>2. ASSUME NEW u \in Threads, Holding(u)', Allowed(look'[u].entry)
        PROVE  lastYes'[look'[u].origin] <= look'[u].age
    <3>1. CASE u = t
      BY <1>2, <1>4, <1>6, <2>2, <3>1 DEF Lookers
    <3>2. CASE u # t
      <4>1. look'[u] = look[u] /\ Holding(u)
        BY <1>3, <2>2, <3>2 DEF Holding
      <4>2. look[u].origin \in Origins /\ look[u].age \in 0..TTL
        BY <4>1, LookFacts DEF RobotsInv, Holding, Lookers
      <4> QED
        BY <1>7, <2>2, <4>1, <4>2 DEF RobotsInv, YesBehind
    <3> QED
      BY <3>1, <3>2
  <2> QED
    BY <1>1, <2>1, <2>2 DEF YesBehind
<1> QED
  BY <1>8, <1>9 DEF RobotsInv

\* A late store replaces whatever is there, with the age of its own permission.
LEMMA StoreKeeps ==
  ASSUME RobotsInv, NEW t \in Threads, Store(t)
  PROVE  RobotsInv'
<1> DEFINE o == look[t].origin
           c == [entry |-> look[t].entry, age |-> look[t].age]
<1>1. /\ look[t].at = "fetched"
      /\ cache' = [cache EXCEPT ![o] = c]
      /\ look' = [look EXCEPT ![t].at = "answered"]
      /\ lastYes' = lastYes
  BY DEF Store
<1>2. /\ look[t] \in Lookers /\ o \in Origins /\ Holding(t)
      /\ look[t].entry \in Entries /\ look[t].age \in 0..TTL
  BY <1>1, LookFacts DEF RobotsInv, Holding, Lookers
<1>3. c \in CachedEntries /\ c.entry = look[t].entry /\ c.age = look[t].age
  BY <1>2 DEF CachedEntries
<1>4. Allowed(c.entry) => lastYes[o] <= c.age
  BY <1>2, <1>3 DEF RobotsInv, YesBehind
<1> HIDE DEF c
<1>5. /\ look'[t] = [look[t] EXCEPT !.at = "answered"]
      /\ \A u \in Threads \ {t} : look'[u] = look[u]
  BY <1>1 DEF RobotsInv, RobotsTypeOK
<1>6. /\ look'[t].at = "answered" /\ look'[t].origin = o
      /\ look'[t].entry = look[t].entry /\ look'[t].age = look[t].age
      /\ look'[t] \in Lookers
  BY <1>2, <1>5 DEF Lookers
<1>7. look' \in [Threads -> Lookers]
  BY <1>1, <1>5, <1>6 DEF RobotsInv, RobotsTypeOK
<1>8. /\ cache' \in [Origins -> CachedEntries \cup {NoEntry}]
      /\ cache'[o] = c /\ \A q \in Origins \ {o} : cache'[q] = cache[q]
  BY <1>1, <1>2, <1>3 DEF RobotsInv, RobotsTypeOK
<1>9. RobotsTypeOK'
  BY <1>1, <1>2, <1>5, <1>6, <1>7, <1>8, RobotsAssumption DEF RobotsInv, RobotsTypeOK
<1>10. YesBehind'
  BY <1>1, <1>2, <1>4, <1>5, <1>6, <1>8 DEF RobotsInv, YesBehind, Holding
<1> QED
  BY <1>9, <1>10 DEF RobotsInv

\* Everything grows older together: what was behind stays behind.
LEMMA AgeEntriesKeeps ==
  ASSUME RobotsInv, AgeEntries
  PROVE  RobotsInv'
<1>1. /\ lastYes' \in [Origins -> 0..TTL]
      /\ \A o \in Origins : lastYes'[o] = Older(lastYes[o])
  BY OlderInRange DEF AgeEntries, RobotsInv, RobotsTypeOK
<1>2. ASSUME NEW o \in Origins
      PROVE  /\ cache[o] = NoEntry => cache'[o] = NoEntry
             /\ cache[o] # NoEntry => /\ cache'[o] \in CachedEntries
                                      /\ cache'[o].entry = cache[o].entry
                                      /\ cache'[o].age = Older(cache[o].age)
                                      /\ cache[o].age \in 0..TTL
  <2>1. cache'[o] = IF cache[o] = NoEntry THEN NoEntry
                    ELSE [cache[o] EXCEPT !.age = Older(cache[o].age)]
    BY DEF AgeEntries
  <2>2. cache[o] \in CachedEntries \cup {NoEntry}
    BY DEF RobotsInv, RobotsTypeOK
  <2> QED
    BY <2>1, <2>2, OlderInRange DEF CachedEntries
<1>3. ASSUME NEW t \in Threads
      PROVE  /\ look'[t] \in Lookers
             /\ look'[t].at = look[t].at /\ look'[t].origin = look[t].origin
             /\ look'[t].entry = look[t].entry
             /\ Holding(t) => look'[t].age = Older(look[t].age)
  <2>1. look'[t] = IF look[t].entry = NoEntry THEN look[t]
                   ELSE [look[t] EXCEPT !.age = Older(look[t].age)]
    BY DEF AgeEntries
  <2>2. look[t] \in Lookers /\ (Holding(t) <=> look[t].entry # NoEntry)
    BY DEF RobotsInv, RobotsTypeOK, Holding
  <2> QED
    BY <2>1, <2>2, OlderInRange DEF Lookers
<1>4. RobotsTypeOK'
  <2>1. cache' \in [Origins -> CachedEntries \cup {NoEntry}]
    <3>1. cache' = [o \in Origins |-> cache'[o]]
      BY DEF AgeEntries
    <3>2. \A o \in Origins : cache'[o] \in CachedEntries \cup {NoEntry}
      BY <1>2
    <3> QED
      BY <3>1, <3>2
  <2>2. look' \in [Threads -> Lookers]
    <3>1. look' = [t \in Threads |-> look'[t]]
      BY DEF AgeEntries
    <3> QED
      BY <1>3, <3>1
  <2> QED
    BY <1>1, <1>3, <2>1, <2>2 DEF RobotsInv, RobotsTypeOK
<1>5. YesBehind'
  <2>1. ASSUME NEW o \in Origins, cache'[o] # NoEntry, Allowed(cache'[o].entry)
        PROVE  lastYes'[o] <= cache'[o].age
    <3>1. /\ cache[o] # NoEntry /\ cache[o].age \in 0..TTL
          /\ cache'[o].age = Older(cache[o].age) /\ lastYes[o] \in 0..TTL
      BY <1>2, <2>1 DEF RobotsInv, RobotsTypeOK
    <3>2. lastYes[o] <= cache[o].age
      BY <1>2, <2>1, <3>1 DEF RobotsInv, YesBehind
    <3> QED
      BY <1>1, <3>1, <3>2, OlderKeepsOrder
  <2>2. ASSUME NEW t \in Threads, Holding(t)', Allowed(look'[t].entry)
        PROVE  lastYes'[look'[t].origin] <= look'[t].age
    <3> DEFINE o == look[t].origin
    <3>1. Holding(t) /\ Allowed(look[t].entry)
      BY <1>3, <2>2 DEF Holding
    <3>2. o \in Origins /\ look[t].age \in 0..TTL /\ lastYes[o] \in 0..TTL
      BY <3>1, LookFacts DEF Holding, Lookers, RobotsInv, RobotsTypeOK
    <3>3. lastYes[o] <= look[t].age
      BY <3>1 DEF RobotsInv, YesBehind
    <3> QED
      BY <1>1, <1>3, <3>1, <3>2, <3>3, OlderKeepsOrder
  <2> QED
    BY <2>1, <2>2 DEF YesBehind
<1> QED
  BY <1>4, <1>5 DEF RobotsInv

LEMMA RobotsStepInv == RobotsInv /\ [RobotsNext]_robotsVars => RobotsInv'
<1> SUFFICES ASSUME RobotsInv, [RobotsNext]_robotsVars PROVE RobotsInv'
  OBVIOUS
<1>1. ASSUME NEW t \in Threads, NEW o \in Origins, Lookup(t, o) PROVE RobotsInv'
  BY <1>1, LookupKeeps
<1>2. ASSUME NEW t \in Threads, NEW r \in Replies, Receive(t, r) PROVE RobotsInv'
  BY <1>2, ReceiveKeeps
<1>3. ASSUME NEW t \in Threads, FetchRaises(t) \/ Conclude(t) PROVE RobotsInv'
  BY <1>3, LeavingKeeps
<1>4. ASSUME NEW t \in Threads, Store(t) PROVE RobotsInv'
  BY <1>4, StoreKeeps
<1>5. CASE AgeEntries
  BY <1>5, AgeEntriesKeeps
<1>6. CASE UNCHANGED robotsVars
  BY <1>6 DEF robotsVars, RobotsInv, RobotsTypeOK, YesBehind, Holding
<1> QED
  BY <1>1, <1>2, <1>3, <1>4, <1>5, <1>6 DEF RobotsNext

\* The inductive invariant holds throughout (robots.py:61-91).
THEOREM RobotsInvariant == RobotsSpec => []RobotsInv
BY RobotsInitInv, RobotsStepInv, PTL DEF RobotsSpec

\* For every number of threads and origins, the cache holds entries of _fetch
\* only, and a thread that holds an entry knows the origin it is for.
THEOREM RobotsTypes == RobotsSpec => []RobotsTypeOK
<1>1. RobotsInv => RobotsTypeOK
  BY DEF RobotsInv
<1> QED
  BY <1>1, RobotsInvariant, PTL

-----------------------------------------------------------------------------
\* The only step from outside to an answer is a hit.
LEMMA AnswersAtOnce ==
  ASSUME RobotsInv, [RobotsNext]_robotsVars, NEW t \in Threads,
         look[t].at = "out", look'[t].at = "answered"
  PROVE  \E o \in Origins : Lookup(t, o) /\ Fresh(cache[o])
<1>1. CASE AgeEntries \/ UNCHANGED robotsVars
  <2>1. look'[t].at = look[t].at
    BY <1>1 DEF AgeEntries, robotsVars, RobotsInv, RobotsTypeOK, Lookers
  <2> QED
    BY <2>1
<1>2. ASSUME NEW u \in Threads, NEW o \in Origins, Lookup(u, o)
      PROVE  u = t /\ Fresh(cache[o])
  BY <1>2 DEF Lookup, NotLooking, RobotsInv, RobotsTypeOK
<1>3. ASSUME NEW u \in Threads,
             FetchRaises(u) \/ Conclude(u) \/ Store(u) \/ \E r \in Replies : Receive(u, r)
      PROVE  FALSE
  <2>1. look[u].at # "out" /\ (u # t => look'[t] = look[t])
    BY <1>3 DEF FetchRaises, Conclude, Store, Receive, RobotsInv, RobotsTypeOK
  <2> QED
    BY <2>1
<1> QED
  BY <1>1, <1>2, <1>3 DEF RobotsNext

\* Without a lock, for every number of threads: no cached permission is handed out
\* a TTL after its origin last gave it (robots.py:61-91).
THEOREM PermissionsAreFresh == RobotsSpec => PermissionIsFresh
<1>1. RobotsInv /\ [RobotsNext]_robotsVars =>
        [\A t \in Threads :
           (/\ look[t].at = "out"
            /\ look'[t].at = "answered"
            /\ Allowed(look'[t].entry))
           => lastYes[look'[t].origin] < TTL]_robotsVars
  <2> SUFFICES ASSUME RobotsInv, [RobotsNext]_robotsVars, NEW t \in Threads,
                      look[t].at = "out", look'[t].at = "answered",
                      Allowed(look'[t].entry)
               PROVE  lastYes[look'[t].origin] < TTL
    OBVIOUS
  <2>1. PICK o \in Origins : Lookup(t, o) /\ Fresh(cache[o])
    BY AnswersAtOnce
  <2>2. look'[t] = [at |-> "answered", origin |-> o, entry |-> cache[o].entry,
                    age |-> cache[o].age]
    BY <2>1 DEF Lookup, RobotsInv, RobotsTypeOK
  <2>3. lastYes[o] <= cache[o].age /\ cache[o].age < TTL /\ cache[o].age \in 0..TTL
    BY <2>1, <2>2, HitIsFresh
  <2>4. lastYes[o] \in 0..TTL /\ TTL \in Nat
    BY RobotsAssumption DEF RobotsInv, RobotsTypeOK
  <2> QED
    BY <2>2, <2>3, <2>4
<1> QED
  BY <1>1, RobotsInvariant, PTL DEF RobotsSpec, PermissionIsFresh
=============================================================================
