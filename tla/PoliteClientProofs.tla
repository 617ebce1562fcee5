------------------------- MODULE PoliteClientProofs -------------------------
(***************************************************************************)
(* What PoliteClient guarantees for every number of threads, hosts and     *)
(* origins, every rate, delay, Retry-After and number of retries.          *)
(*                                                                         *)
(* Every step of the client is a step of the limiter and a step of the     *)
(* robots policy, or leaves them alone (StepOfParts): the client behaves   *)
(* as both specifications allow, and whatever is proved of them holds of   *)
(* the client.  What is left to prove is what the locals of get() have to  *)
(* do with the two (Position), with the Retry-After of the upstream        *)
(* (Owing), and, for a client of one thread, with the robots.txt on file   *)
(* (Told).                                                                 *)
(***************************************************************************)
EXTENDS PoliteClient, TLAPS

LimiterP == INSTANCE RateLimiterProofs
RobotsP == INSTANCE RobotsPolicyProofs

\* Where a call is, what its thread waits for, and what it looks up.
Position(t) ==
  LET c == call[t]
      w == waiter[t]
  IN /\ c.at = "slot" <=> w.at # "out"
     /\ look[t].at # "out" => c.at \in {"permission", "delay"} /\ look[t].origin = c.origin
     /\ c.at = "wire" <=> c.target # NoOrigin
     /\ nap[t] > 0 => c.at = "nap"
     /\ c.at # "out" => c.origin \in Origins
     /\ c.at = "nap" => c.attempt < Attempts
     /\ w.at # "out" => /\ w.host = HostOf[c.origin]
                        /\ w.interval = Limiter!IntervalFor(HostOf[c.origin], c.delay)

\* Within a call, the sleep covers what is left of the upstream's Retry-After, and
\* after the sleep nothing is.
Owing(t) ==
  owed[t].mine =>
    /\ call[t].at \notin {"permission", "delay"}
    /\ call[t].at = "nap" => owed[t].left <= nap[t]
    /\ call[t].at \in {"slot", "wire"} => owed[t].left = 0

Debts == [host : Hosts \cup {NoHost}, mine : BOOLEAN, left : Naps]

LocalTypes ==
  /\ call \in [Threads -> Calls]
  /\ nap \in [Threads -> Naps]
  /\ owed \in [Threads -> Debts]

ClientInv ==
  /\ LimiterP!LimiterInv
  /\ RobotsP!RobotsInv
  /\ LocalTypes
  /\ \A t \in Threads : Position(t) /\ Owing(t)

-----------------------------------------------------------------------------
\* The theorems about the parts speak of the parts.

LEMMA PartsAssumed == LimiterP!LimiterAssumption /\ RobotsP!RobotsAssumption
<1>1. LimiterP!LimiterAssumption
  BY ClientAssumption
  DEF Limiter!LimiterAssumption, LimiterP!LimiterAssumption, Limiter!IntervalFor,
      LimiterP!IntervalFor, Limiter!BaseInterval, LimiterP!BaseInterval, Limiter!Larger,
      LimiterP!Larger
<1>2. RobotsP!RobotsAssumption
  BY ClientAssumption
  DEF Robots!RobotsAssumption, RobotsP!RobotsAssumption, Robots!Entries, RobotsP!Entries,
      Robots!CachedEntries, RobotsP!CachedEntries
<1> QED
  BY <1>1, <1>2

LEMMA IntervalsAgree ==
  ASSUME NEW h, NEW cd
  PROVE  LimiterP!IntervalFor(h, cd) = Limiter!IntervalFor(h, cd)
BY DEF Limiter!IntervalFor, LimiterP!IntervalFor, Limiter!BaseInterval,
       LimiterP!BaseInterval, Limiter!Larger, LimiterP!Larger

\* The parts' variables, one by one.
LEMMA PartTypes ==
  ASSUME ClientInv
  PROVE  /\ waiter \in [Threads -> Limiter!Waiters]
         /\ cache \in [Origins -> Robots!CachedEntries \cup {NoEntry}]
         /\ look \in [Threads -> Robots!Lookers]
         /\ \A t \in Threads : look[t].at = "answered" => look[t].entry \in Robots!Entries
         /\ \A t \in Threads : waiter[t].at # "out" => waiter[t].host \in Hosts
<1>1. waiter \in [Threads -> Limiter!Waiters]
      /\ \A t \in Threads : waiter[t].at # "out" => waiter[t].host \in Hosts
  BY DEF ClientInv, LimiterP!LimiterInv, LimiterP!LimiterTypeOK, LimiterP!Waiters,
         Limiter!Waiters
<1>2. /\ cache \in [Origins -> Robots!CachedEntries \cup {NoEntry}]
      /\ look \in [Threads -> Robots!Lookers]
  BY DEF ClientInv, RobotsP!RobotsInv, RobotsP!RobotsTypeOK, RobotsP!Lookers, Robots!Lookers,
         RobotsP!Entries, Robots!Entries, RobotsP!CachedEntries, Robots!CachedEntries
<1>3. ASSUME NEW t \in Threads, look[t].at = "answered"
      PROVE  look[t].entry \in Robots!Entries
  BY <1>2, <1>3 DEF ClientInv, RobotsP!RobotsInv, RobotsP!RobotsTypeOK, Robots!Lookers
<1> QED
  BY <1>1, <1>2, <1>3

-----------------------------------------------------------------------------
\* A thread's part in a step of the limiter, and of the policy.
LimiterStep(t) ==
  \/ \E h \in Hosts, cd \in CrawlDelays : Limiter!EnterWait(t, h, cd)
  \/ Limiter!TakeLock(t)
  \/ Limiter!Stamp(t)
  \/ Limiter!Interrupt(t)
  \/ Limiter!LeaveWait(t)
  \/ UNCHANGED limiterVars

RobotsStep(t) ==
  \/ \E o \in Origins : Robots!Lookup(t, o)
  \/ \E r \in Robots!Replies : Robots!Receive(t, r)
  \/ Robots!FetchRaises(t)
  \/ Robots!Store(t)
  \/ Robots!Conclude(t)
  \/ UNCHANGED robotsVars

ThreadStep(t) ==
  \/ \E o \in Origins : Get(t, o) \/ Redirect(t, o)
  \/ FetchRobots(t)
  \/ Permission(t)
  \/ AskDelay(t)
  \/ FirstAttempt(t)
  \/ WaitForSlot(t)
  \/ Send(t)
  \/ Respond(t)
  \/ Raise(t)
  \/ NextAttempt(t)

\* What get() hands to wait(): a host, and a delay that sites declare.
LEMMA HandedOn ==
  ASSUME ClientInv, NEW t \in Threads
  PROVE  /\ call[t].at # "out" => call[t].origin \in Origins /\ HostOf[call[t].origin] \in Hosts
         /\ call[t].delay \in SiteDelays /\ call[t].delay \in CrawlDelays
         /\ look[t].at = "answered" =>
              /\ DeclaredDelay(look[t].entry) \in SiteDelays
              /\ DeclaredDelay(look[t].entry) \in CrawlDelays
<1>1. call[t].at # "out" => call[t].origin \in Origins /\ HostOf[call[t].origin] \in Hosts
  BY ClientAssumption DEF ClientInv, Position
<1>2. call[t].delay \in SiteDelays
  BY DEF ClientInv, LocalTypes, Calls
<1>3. look[t].at = "answered" => DeclaredDelay(look[t].entry) \in SiteDelays
  BY PartTypes DEF DeclaredDelay, Robots!Entries
<1> QED
  BY <1>1, <1>2, <1>3, ClientAssumption

LEMMA ThreadStepOfParts ==
  ASSUME ClientInv, NEW t \in Threads, ThreadStep(t)
  PROVE  LimiterStep(t) /\ RobotsStep(t)
<1>1. CASE \E o \in Origins : Get(t, o)
  BY <1>1 DEF Get, LimiterStep, RobotsStep
<1>2. CASE (\E o \in Origins : Redirect(t, o)) \/ Respond(t)
  BY <1>2 DEF Redirect, Respond, Deliver, Fail, TurnedAway, LimiterStep, RobotsStep
<1>3. CASE FetchRobots(t) \/ Permission(t)
  BY <1>3 DEF FetchRobots, Permission, LimiterStep, RobotsStep
<1>4. CASE AskDelay(t)
  BY <1>4, HandedOn DEF AskDelay, LimiterStep, RobotsStep
<1>5. CASE FirstAttempt(t)
  <2>1. PICK h \in Hosts, cd \in CrawlDelays :
          h = HostOf[call[t].origin] /\ cd = DeclaredDelay(look[t].entry)
    BY <1>5, HandedOn DEF FirstAttempt, Robots!Conclude
  <2>2. Limiter!EnterWait(t, h, cd) /\ Robots!Conclude(t)
    BY <1>5, <2>1 DEF FirstAttempt, Limiter!EnterWait
  <2> QED
    BY <2>2 DEF LimiterStep, RobotsStep
<1>6. CASE NextAttempt(t)
  <2>1. PICK h \in Hosts, cd \in CrawlDelays :
          h = HostOf[call[t].origin] /\ cd = call[t].delay
    BY <1>6, HandedOn DEF NextAttempt
  <2>2. Limiter!EnterWait(t, h, cd) /\ UNCHANGED robotsVars
    BY <1>6, <2>1 DEF NextAttempt, Limiter!EnterWait
  <2> QED
    BY <2>2 DEF LimiterStep, RobotsStep
<1>7. CASE WaitForSlot(t) \/ Send(t) \/ Raise(t)
  BY <1>7 DEF WaitForSlot, Send, Raise, LimiterStep, RobotsStep
<1> QED
  BY <1>1, <1>2, <1>3, <1>4, <1>5, <1>6, <1>7 DEF ThreadStep

\* Every step of the client is one of the limiter and one of the policy, or nothing
\* to them: the client uses both as they are meant to be used.
LEMMA StepOfParts ==
  ASSUME ClientInv, [ClientNext]_clientVars
  PROVE  /\ [Limiter!LimiterNext]_limiterVars
         /\ [Robots!RobotsNext]_robotsVars
<1>1. ASSUME NEW t \in Threads, ThreadStep(t)
      PROVE  [Limiter!LimiterNext]_limiterVars /\ [Robots!RobotsNext]_robotsVars
  BY <1>1, ThreadStepOfParts
  DEF LimiterStep, RobotsStep, Limiter!LimiterNext, Robots!RobotsNext
<1>2. CASE Tick
  BY <1>2 DEF Tick, Limiter!LimiterNext, Robots!RobotsNext
<1>3. CASE UNCHANGED clientVars
  BY <1>3 DEF clientVars
<1> QED
  BY <1>1, <1>2, <1>3 DEF ClientNext, ThreadStep

LEMMA PartsKeep ==
  ASSUME ClientInv, [ClientNext]_clientVars
  PROVE  LimiterP!LimiterInv' /\ RobotsP!RobotsInv'
<1> USE PartsAssumed
<1>1. [LimiterP!LimiterNext]_(LimiterP!limiterVars)
  BY StepOfParts
  DEF Limiter!LimiterNext, LimiterP!LimiterNext, limiterVars, LimiterP!limiterVars,
      Limiter!EnterWait, LimiterP!EnterWait, Limiter!IntervalFor, LimiterP!IntervalFor,
      Limiter!BaseInterval, LimiterP!BaseInterval, Limiter!Larger, LimiterP!Larger,
      Limiter!TakeLock, LimiterP!TakeLock, Limiter!LockFor, LimiterP!LockFor,
      Limiter!DelayFor, LimiterP!DelayFor, Limiter!Stamp, LimiterP!Stamp,
      Limiter!Interrupt, LimiterP!Interrupt, Limiter!LeaveWait, LimiterP!LeaveWait,
      Limiter!Out, LimiterP!Out, Limiter!PassTime, LimiterP!PassTime,
      Limiter!AtMost, LimiterP!AtMost
<1>2. [RobotsP!RobotsNext]_(RobotsP!robotsVars)
  BY StepOfParts
  DEF Robots!RobotsNext, RobotsP!RobotsNext, robotsVars, RobotsP!robotsVars,
      Robots!Lookup, RobotsP!Lookup, Robots!Fresh, RobotsP!Fresh, Robots!NotLooking,
      RobotsP!NotLooking, Robots!Receive, RobotsP!Receive, Robots!Replies, RobotsP!Replies,
      Robots!EntryOf, RobotsP!EntryOf, Robots!FetchRaises, RobotsP!FetchRaises,
      Robots!Store, RobotsP!Store, Robots!Conclude, RobotsP!Conclude,
      Robots!AgeEntries, RobotsP!AgeEntries, Robots!Older, RobotsP!Older
<1>3. LimiterP!LimiterInv'
  BY <1>1, LimiterP!StepInv DEF ClientInv
<1>4. RobotsP!RobotsInv'
  BY <1>2, RobotsP!RobotsStepInv DEF ClientInv
<1> QED
  BY <1>3, <1>4

-----------------------------------------------------------------------------
\* The numbers of one call.

\* A sleep starts in range, whatever the upstream sent, and stays there.
LEMMA NapsInRange ==
  /\ Naps \subseteq Nat /\ 0 \in Naps
  /\ \A n \in Naps : n # 0 => n - 1 \in Naps
  /\ RetryAfters \subseteq Naps /\ 0..BackoffCap \subseteq Naps
<1>1. RetryAfters \cup {BackoffCap} \subseteq Nat
  BY ClientAssumption
<1>2. 0 \in Naps /\ 0..BackoffCap \subseteq Naps
  BY <1>1 DEF Naps
<1>3. ASSUME NEW n \in Naps PROVE n \in Nat /\ (n # 0 => n - 1 \in Naps)
  <2>1. PICK pause \in RetryAfters \cup {BackoffCap} : n \in 0..pause
    BY DEF Naps
  <2>2. n # 0 => n - 1 \in 0..pause
    BY <1>1, <2>1
  <2> QED
    BY <2>1, <2>2 DEF Naps
<1>4. ASSUME NEW ra \in RetryAfters PROVE ra \in Naps
  <2>1. ra \in 0..ra
    BY <1>1
  <2> QED
    BY <2>1 DEF Naps
<1> QED
  BY <1>2, <1>3, <1>4

\* The backoff doubles, up to the cap; the header, if there is one, is obeyed.
LEMMA PausesInRange ==
  ASSUME NEW b \in 0..BackoffCap
  PROVE  /\ NextBackoff(b) \in 0..BackoffCap /\ b \in Naps
         /\ BackoffStart \in 0..BackoffCap /\ 0 \in 0..BackoffCap
         /\ PauseFor(NoHeader, b) = b
         /\ \A ra \in RetryAfters : ra \in Nat /\ PauseFor(ra, b) = ra
<1>1. {BackoffCap, BackoffStart} \subseteq Nat /\ BackoffStart <= BackoffCap
      /\ RetryAfters \subseteq Nat /\ NoHeader \notin Nat
  BY ClientAssumption
<1> QED
  BY <1>1, NapsInRange DEF NextBackoff, PauseFor

LEMMA AttemptsInRange ==
  /\ Attempts \in Nat /\ 1 \in 0..Attempts
  /\ \A n \in 0..Attempts : n < Attempts => AttemptAfter(n) \in 0..Attempts
BY ClientAssumption DEF Attempts, AttemptAfter

LEMMA NotCallingFacts ==
  NotCalling \in Calls /\ NotCalling.at = "out" /\ NotCalling.target = NoOrigin
BY PartsAssumed, AttemptsInRange, ClientAssumption
DEF NotCalling, Calls, RobotsP!RobotsAssumption

-----------------------------------------------------------------------------
\* The locals, one lemma per action.

\* What there is to show of a step of thread t: the other threads are where they
\* were, and its own locals agree.
OthersStay(t) ==
  \A u \in Threads \ {t} :
    /\ waiter'[u] = waiter[u] /\ look'[u] = look[u]
    /\ call'[u] = call[u] /\ nap'[u] = nap[u] /\ owed'[u] = owed[u]

Fine(t) ==
  /\ OthersStay(t)
  /\ LocalTypes'
  /\ Position(t)' /\ Owing(t)'

\* The parts touch only the thread that calls them.
LEMMA PartsTouchOne ==
  ASSUME ClientInv, NEW t \in Threads, LimiterStep(t), RobotsStep(t)
  PROVE  \A u \in Threads \ {t} : waiter'[u] = waiter[u] /\ look'[u] = look[u]
<1>1. \A u \in Threads \ {t} : waiter'[u] = waiter[u]
  BY PartTypes DEF LimiterStep, limiterVars, Limiter!EnterWait, Limiter!TakeLock,
     Limiter!Stamp, Limiter!Interrupt, Limiter!LeaveWait
<1>2. \A u \in Threads \ {t} : look'[u] = look[u]
  BY PartTypes DEF RobotsStep, robotsVars, Robots!Lookup, Robots!Receive,
     Robots!FetchRaises, Robots!Store, Robots!Conclude
<1> QED
  BY <1>1, <1>2

LEMMA CallTypes ==
  ASSUME ClientInv, NEW t \in Threads
  PROVE  /\ call \in [Threads -> Calls] /\ call[t] \in Calls
         /\ nap \in [Threads -> Naps] /\ owed \in [Threads -> Debts]
         /\ nap[t] \in Nat /\ owed[t].left \in Nat /\ owed[t].mine \in BOOLEAN
         /\ call[t].attempt \in 0..Attempts /\ call[t].backoff \in 0..BackoffCap
         /\ call[t].hops \in 0..MaxRedirects
         /\ Position(t) /\ Owing(t)
BY NapsInRange DEF ClientInv, LocalTypes, Calls, Debts

\* One call moves on: the others are as they were, and all is in range.
LEMMA OneCallMoves ==
  ASSUME ClientInv, NEW t \in Threads, LimiterStep(t), RobotsStep(t),
         call' = call \/ \E c \in Calls : call' = [call EXCEPT ![t] = c],
         nap' = nap \/ \E n \in Naps : nap' = [nap EXCEPT ![t] = n],
         owed' = owed \/ \E d \in Debts : owed' = [owed EXCEPT ![t] = d]
  PROVE  OthersStay(t) /\ LocalTypes'
<1>1. OthersStay(t)
  BY CallTypes, PartsTouchOne DEF OthersStay
<1>2. LocalTypes'
  BY CallTypes DEF LocalTypes
<1> QED
  BY <1>1, <1>2

\* A call that ends leaves no trace with policy and limiter.
LEMMA EndFine ==
  ASSUME ClientInv, NEW t \in Threads, LimiterStep(t), RobotsStep(t), Ends(t),
         waiter'[t].at = "out", look'[t].at = "out", nap'[t] = 0,
         nap' = nap \/ nap' = [nap EXCEPT ![t] = 0],
         owed' = owed \/ \E d \in Debts : owed' = [owed EXCEPT ![t] = d]
  PROVE  Fine(t)
<1>1. call'[t] = NotCalling
  BY CallTypes DEF Ends
<1>2. OthersStay(t) /\ LocalTypes'
  BY OneCallMoves, NotCallingFacts, NapsInRange DEF Ends
<1>3. Position(t)' /\ Owing(t)'
  BY <1>1, NotCallingFacts DEF Position, Owing
<1> QED
  BY <1>2, <1>3 DEF Fine

\* get(url) is entered, and asks for permission.
LEMMA GetFine ==
  ASSUME ClientInv, NEW t \in Threads, NEW o \in Origins, Get(t, o)
  PROVE  Fine(t)
<1> DEFINE c == [call[t] EXCEPT !.at = "permission", !.origin = o]
           d == [owed[t] EXCEPT !.mine = FALSE]
<1>1. /\ call[t].at = "out" /\ Robots!Lookup(t, o)
      /\ UNCHANGED <<limiterVars, nap>>
      /\ call' = [call EXCEPT ![t] = c] /\ owed' = [owed EXCEPT ![t] = d]
  BY CallTypes DEF Get
<1>2. LimiterStep(t) /\ RobotsStep(t)
  BY <1>1 DEF LimiterStep, RobotsStep
<1>3. c \in Calls /\ d \in Debts
  BY CallTypes DEF Calls, Debts
<1>4. OthersStay(t) /\ LocalTypes'
  BY <1>1, <1>2, <1>3, OneCallMoves
<1>5. waiter'[t].at = "out" /\ look'[t].origin = o /\ nap'[t] = 0
  BY <1>1, CallTypes, PartTypes DEF Position, limiterVars, Robots!Lookup, Robots!NotLooking
<1>6. /\ call'[t].at = "permission" /\ call'[t].origin = o /\ call'[t].target = NoOrigin
      /\ owed'[t].mine = FALSE
  BY <1>1, CallTypes DEF Calls, Debts, Position
<1>7. Position(t)' /\ Owing(t)'
  BY <1>5, <1>6 DEF Position, Owing
<1> QED
  BY <1>4, <1>7 DEF Fine

\* The policy is asked and answers: the call stays where it is, or goes on.
LEMMA AskingFine ==
  ASSUME ClientInv, NEW t \in Threads, FetchRobots(t) \/ AskDelay(t)
  PROVE  Fine(t)
<1>1. /\ UNCHANGED <<limiterVars, call, nap, owed>> /\ RobotsStep(t)
      /\ call[t].at \in {"permission", "delay"} /\ look'[t].origin = call[t].origin
  <2>1. CASE FetchRobots(t)
    <3>1. look[t].at # "out" /\ look'[t].origin = look[t].origin
      BY <2>1, PartTypes DEF FetchRobots, Robots!Receive, Robots!Store, Robots!Lookers
    <3> QED
      BY <2>1, <3>1, CallTypes DEF FetchRobots, RobotsStep, Position
  <2>2. CASE AskDelay(t)
    BY <2>2, PartTypes, HandedOn
    DEF AskDelay, RobotsStep, Robots!Lookup, Robots!NotLooking
  <2> QED
    BY <2>1, <2>2
<1>2. OthersStay(t) /\ LocalTypes'
  BY <1>1, OneCallMoves DEF LimiterStep
<1>3. Position(t)' /\ Owing(t)'
  BY <1>1, CallTypes DEF Position, Owing, limiterVars
<1> QED
  BY <1>2, <1>3 DEF Fine

\* The entry is used and the thread is out of the policy.
LEMMA ConcludeLeaves ==
  ASSUME ClientInv, NEW t \in Threads, Robots!Conclude(t) \/ Robots!FetchRaises(t)
  PROVE  look'[t].at = "out"
BY PartTypes DEF Robots!Conclude, Robots!FetchRaises, Robots!NotLooking

LEMMA PermissionFine ==
  ASSUME ClientInv, NEW t \in Threads, Permission(t)
  PROVE  Fine(t)
<1>1. /\ call[t].at = "permission" /\ Robots!Conclude(t)
      /\ UNCHANGED <<limiterVars, nap, owed>>
      /\ Ends(t) \/ call' = [call EXCEPT ![t].at = "delay"]
      /\ LimiterStep(t) /\ RobotsStep(t)
  BY DEF Permission, LimiterStep, RobotsStep
<1>2. look'[t].at = "out" /\ waiter'[t].at = "out" /\ nap'[t] = 0
  BY <1>1, ConcludeLeaves, CallTypes DEF Position, limiterVars
<1>3. CASE Ends(t)
  BY <1>1, <1>2, <1>3, EndFine
<1>4. CASE call' = [call EXCEPT ![t].at = "delay"]
  <2>1. [call[t] EXCEPT !.at = "delay"] \in Calls
    BY CallTypes DEF Calls
  <2>2. OthersStay(t) /\ LocalTypes'
    BY <1>1, <1>4, <2>1, OneCallMoves, CallTypes
  <2>3. /\ call'[t].at = "delay" /\ call'[t].origin = call[t].origin
        /\ call'[t].target = call[t].target
    BY <1>4, CallTypes DEF Calls
  <2>4. Position(t)' /\ Owing(t)'
    BY <1>1, <1>2, <2>3, CallTypes DEF Position, Owing
  <2> QED
    BY <2>2, <2>4 DEF Fine
<1> QED
  BY <1>1, <1>3, <1>4

\* An attempt queues at the limiter, for the host and with the delay of its call.
LEMMA EnterFine ==
  ASSUME ClientInv, NEW t \in Threads, call[t].at \in {"delay", "nap"}, nap[t] = 0,
         LimiterStep(t), RobotsStep(t), NEW c \in Calls, call' = [call EXCEPT ![t] = c],
         c.at = "slot", c.origin = call[t].origin, c.target = NoOrigin,
         Limiter!EnterWait(t, HostOf[c.origin], c.delay),
         look'[t].at = "out", UNCHANGED <<nap, owed>>
  PROVE  Fine(t)
<1>1. OthersStay(t) /\ LocalTypes'
  BY OneCallMoves
<1>2. call'[t] = c
  BY CallTypes
<1>3. /\ waiter'[t].at # "out" /\ waiter'[t].host = HostOf[c.origin]
      /\ waiter'[t].interval = Limiter!IntervalFor(HostOf[c.origin], c.delay)
  BY PartTypes DEF Limiter!EnterWait
<1>4. Position(t)'
  BY <1>2, <1>3, CallTypes DEF Position
<1>5. Owing(t)'
  BY <1>2, CallTypes DEF Owing
<1> QED
  BY <1>1, <1>4, <1>5 DEF Fine

LEMMA FirstAttemptFine ==
  ASSUME ClientInv, NEW t \in Threads, FirstAttempt(t)
  PROVE  Fine(t)
<1>1. /\ call[t].at = "delay" /\ Robots!Conclude(t) /\ look[t].at = "answered"
      /\ ThreadStep(t) /\ UNCHANGED <<nap, owed>>
  BY DEF FirstAttempt, Robots!Conclude, ThreadStep
<1>2. LimiterStep(t) /\ RobotsStep(t)
  BY <1>1, ThreadStepOfParts
<1>3. PICK delay \in SiteDelays : delay = DeclaredDelay(look[t].entry)
  BY <1>1, HandedOn
<1>4. look'[t].at = "out" /\ call[t].target = NoOrigin /\ nap[t] = 0
  BY <1>1, ConcludeLeaves, CallTypes DEF Position
<1>5. PICK c \in Calls :
        c = [call[t] EXCEPT !.at = "slot", !.delay = delay, !.attempt = 1,
                            !.backoff = BackoffStart]
  <2>1. BackoffStart \in 0..BackoffCap /\ 1 \in 0..Attempts
    BY CallTypes, PausesInRange, AttemptsInRange
  <2> QED
    BY <2>1, CallTypes DEF Calls
<1>6. /\ c.at = "slot" /\ c.origin = call[t].origin /\ c.target = NoOrigin
      /\ c.delay = delay
  BY <1>4, <1>5, CallTypes DEF Calls
<1>7. call' = [call EXCEPT ![t] = c]
  BY <1>3, <1>5, CallTypes DEF FirstAttempt
<1>8. Limiter!EnterWait(t, HostOf[c.origin], c.delay)
  BY <1>3, <1>6 DEF FirstAttempt, Limiter!EnterWait
<1> QED
  BY <1>1, <1>2, <1>4, <1>6, <1>7, <1>8, EnterFine

LEMMA NextAttemptFine ==
  ASSUME ClientInv, NEW t \in Threads, NextAttempt(t)
  PROVE  Fine(t)
<1>1. /\ call[t].at = "nap" /\ nap[t] = 0 /\ UNCHANGED <<robotsVars, nap, owed>>
      /\ ThreadStep(t)
  BY DEF NextAttempt, ThreadStep
<1>2. LimiterStep(t) /\ RobotsStep(t)
  BY <1>1, ThreadStepOfParts
<1>3. look'[t].at = "out" /\ call[t].target = NoOrigin /\ call[t].attempt < Attempts
  BY <1>1, CallTypes, PartTypes DEF Position, robotsVars, Robots!Lookers
<1>4. AttemptAfter(call[t].attempt) \in 0..Attempts
  BY <1>3, CallTypes, AttemptsInRange
<1>5. PICK c \in Calls :
        c = [call[t] EXCEPT !.at = "slot", !.attempt = AttemptAfter(call[t].attempt)]
  BY <1>4, CallTypes DEF Calls
<1>6. /\ c.at = "slot" /\ c.origin = call[t].origin /\ c.target = NoOrigin
      /\ c.delay = call[t].delay
  BY <1>3, <1>5, CallTypes DEF Calls
<1>7. call' = [call EXCEPT ![t] = c]
  BY <1>5, CallTypes DEF NextAttempt
<1>8. Limiter!EnterWait(t, HostOf[c.origin], c.delay)
  BY <1>6 DEF NextAttempt, Limiter!EnterWait
<1> QED
  BY <1>1, <1>2, <1>3, <1>6, <1>7, <1>8, EnterFine

\* In the limiter's hands, a waiter keeps its host and its interval.
LEMMA WaitForSlotFine ==
  ASSUME ClientInv, NEW t \in Threads, WaitForSlot(t)
  PROVE  Fine(t)
<1>1. /\ UNCHANGED <<robotsVars, call, nap, owed>> /\ LimiterStep(t) /\ RobotsStep(t)
      /\ Limiter!TakeLock(t) \/ Limiter!Stamp(t)
  BY DEF WaitForSlot, LimiterStep, RobotsStep
<1>2. OthersStay(t) /\ LocalTypes'
  BY <1>1, OneCallMoves
<1>3. /\ waiter[t].at # "out" /\ waiter'[t].at # "out" /\ waiter'[t].host = waiter[t].host
      /\ waiter'[t].interval = waiter[t].interval
  BY <1>1, PartTypes DEF Limiter!TakeLock, Limiter!Stamp, Limiter!Waiters
<1>4. Position(t)' /\ Owing(t)'
  BY <1>1, <1>3, CallTypes DEF Position, Owing, robotsVars
<1> QED
  BY <1>2, <1>4 DEF Fine

\* The request goes out, and may be redirected.
LEMMA OnTheWireFine ==
  ASSUME ClientInv, NEW t \in Threads, Send(t) \/ \E o \in Origins : Redirect(t, o)
  PROVE  Fine(t)
<1> DEFINE Requested(o, hops) == [call[t] EXCEPT !.at = "wire", !.target = o, !.hops = hops]
<1>1. PICK o \in Origins, hops \in 0..MaxRedirects :
        call' = [call EXCEPT ![t] = Requested(o, hops)]
  <2>1. CASE Send(t)
    <3>1. call' = [call EXCEPT ![t] = Requested(call[t].origin, call[t].hops)]
      BY <2>1, CallTypes DEF Send, Calls
    <3>2. call[t].origin \in Origins
      BY <2>1, HandedOn DEF Send
    <3> QED
      BY <3>1, <3>2, CallTypes
  <2>2. ASSUME NEW o \in Origins, Redirect(t, o)
        PROVE  \E hops \in 0..MaxRedirects : call' = [call EXCEPT ![t] = Requested(o, hops)]
    <3>1. call' = [call EXCEPT ![t] = Requested(o, call[t].hops + 1)]
      BY <2>2, CallTypes DEF Redirect, Calls
    <3>2. call[t].hops + 1 \in 0..MaxRedirects
      BY <2>2, CallTypes, ClientAssumption DEF Redirect
    <3> QED
      BY <3>1, <3>2
  <2> QED
    BY <2>1, <2>2
<1>2. /\ call[t].at \in {"slot", "wire"} /\ UNCHANGED <<robotsVars, nap, owed>>
      /\ waiter'[t].at = "out" /\ ThreadStep(t)
  <2>1. CASE Send(t)
    BY <2>1, PartTypes DEF Send, ThreadStep, Limiter!LeaveWait, Limiter!Out
  <2>2. ASSUME NEW v \in Origins, Redirect(t, v)
        PROVE  /\ call[t].at = "wire" /\ UNCHANGED <<robotsVars, nap, owed>>
               /\ waiter'[t].at = "out" /\ ThreadStep(t)
    BY <2>2, CallTypes DEF Redirect, ThreadStep, Position, limiterVars
  <2> QED
    BY <2>1, <2>2
<1>3. LimiterStep(t) /\ RobotsStep(t)
  BY <1>2, ThreadStepOfParts
<1>4. /\ Requested(o, hops) \in Calls
      /\ Requested(o, hops).at = "wire" /\ Requested(o, hops).target = o
      /\ Requested(o, hops).origin = call[t].origin
  BY CallTypes DEF Calls
<1> HIDE DEF Requested
<1>5. OthersStay(t) /\ LocalTypes'
  BY <1>1, <1>2, <1>3, <1>4, OneCallMoves
<1>6. call'[t] = Requested(o, hops) /\ look'[t].at = "out" /\ o # NoOrigin
  BY <1>1, <1>2, CallTypes, PartTypes, PartsAssumed
  DEF robotsVars, Position, Robots!Lookers, RobotsP!RobotsAssumption
<1>7. Position(t)' /\ Owing(t)'
  BY <1>2, <1>4, <1>6, CallTypes DEF Position, Owing
<1> QED
  BY <1>5, <1>7 DEF Fine

\* An attempt that came to nothing is followed by a sleep, unless it was the last.
LEMMA SleepFine ==
  ASSUME ClientInv, NEW t \in Threads, ThreadStep(t), UNCHANGED <<limiterVars, robotsVars>>,
         call[t].at = "wire", ~LastAttempt(t), NEW backoff \in 0..BackoffCap,
         call' = [call EXCEPT ![t] = [call[t] EXCEPT !.at = "nap", !.target = NoOrigin,
                                                     !.hops = 0, !.backoff = backoff]],
         NEW pause \in Naps, nap' = [nap EXCEPT ![t] = pause],
         owed' = owed \/ \E d \in Debts : owed' = [owed EXCEPT ![t] = d] /\ d.left <= pause
  PROVE  Fine(t)
<1>1. LimiterStep(t) /\ RobotsStep(t)
  BY ThreadStepOfParts
<1>2. PICK c \in Calls : c = [call[t] EXCEPT !.at = "nap", !.target = NoOrigin,
                                             !.hops = 0, !.backoff = backoff]
  <2>1. 0 \in 0..MaxRedirects /\ call[t] \in Calls
    BY CallTypes, ClientAssumption
  <2> QED
    BY <2>1 DEF Calls
<1>3. OthersStay(t) /\ LocalTypes'
  BY <1>1, <1>2, OneCallMoves
<1>4. /\ call'[t] = c /\ nap'[t] = pause
      /\ c.at = "nap" /\ c.target = NoOrigin /\ c.origin = call[t].origin
      /\ c.attempt = call[t].attempt
  BY <1>2, CallTypes DEF Calls
<1>5. waiter'[t].at = "out" /\ look'[t].at = "out" /\ call[t].origin \in Origins
      /\ call[t].attempt < Attempts
  <2>1. waiter'[t] = waiter[t] /\ look'[t] = look[t]
    BY DEF limiterVars, robotsVars
  <2>2. waiter[t].at = "out" /\ look[t].at = "out" /\ call[t].origin \in Origins
    BY CallTypes DEF Position
  <2>3. call[t].attempt < Attempts
    BY CallTypes, AttemptsInRange DEF LastAttempt
  <2> QED
    BY <2>1, <2>2, <2>3
<1>6. Position(t)'
  BY <1>4, <1>5 DEF Position
<1>7. owed'[t].mine => owed'[t].left <= pause
  <2>1. pause >= 0 /\ (owed[t].mine => owed[t].left = 0)
    BY NapsInRange, CallTypes DEF Owing
  <2> QED
    BY <2>1, CallTypes
<1>8. Owing(t)'
  BY <1>4, <1>7 DEF Owing
<1> QED
  BY <1>3, <1>6, <1>8 DEF Fine

LEMMA RespondFine ==
  ASSUME ClientInv, NEW t \in Threads, Respond(t)
  PROVE  Fine(t)
<1>1. /\ call[t].at = "wire" /\ UNCHANGED <<limiterVars, robotsVars>> /\ ThreadStep(t)
      /\ waiter'[t].at = "out" /\ look'[t].at = "out" /\ nap[t] = 0
  <2>1. call[t].at = "wire" /\ UNCHANGED <<limiterVars, robotsVars>> /\ ThreadStep(t)
    BY DEF Respond, Deliver, Fail, TurnedAway, ThreadStep
  <2> QED
    BY <2>1, CallTypes, PartTypes
    DEF limiterVars, robotsVars, Position, Limiter!Waiters, Robots!Lookers
<1>2. LimiterStep(t) /\ RobotsStep(t)
  BY <1>1, ThreadStepOfParts
<1>3. PICK next \in 0..BackoffCap, backoff \in 0..BackoffCap :
        next = NextBackoff(call[t].backoff) /\ backoff = call[t].backoff
  BY CallTypes, PausesInRange
<1>4. backoff \in Naps
  BY PausesInRange
<1>5. CASE Deliver(t)
  BY <1>1, <1>2, <1>5, EndFine DEF Deliver
<1>6. CASE Fail(t)
  <2>1. CASE LastAttempt(t)
    BY <1>1, <1>2, <1>6, <2>1, EndFine DEF Fail
  <2>2. CASE ~LastAttempt(t)
    <3>1. /\ nap' = [nap EXCEPT ![t] = backoff] /\ owed' = owed
          /\ call' = [call EXCEPT ![t] = [call[t] EXCEPT !.at = "nap", !.target = NoOrigin,
                                                         !.hops = 0, !.backoff = next]]
      BY <1>3, <1>6, <2>2, CallTypes DEF Fail, Calls
    <3> QED
      BY <1>1, <1>4, <2>2, <3>1, SleepFine
  <2> QED
    BY <2>1, <2>2
<1>7. ASSUME NEW ra \in RetryAfters \cup {NoHeader}, TurnedAway(t, ra)
      PROVE  Fine(t)
  <2>1. PICK d \in Debts : /\ owed' = [owed EXCEPT ![t] = d]
                           /\ d.left = IF ra = NoHeader THEN 0 ELSE ra
    <3>1. HostOf[call[t].target] \in Hosts
      BY <1>1, CallTypes, ClientAssumption DEF Position, Calls
    <3>2. (IF ra = NoHeader THEN 0 ELSE ra) \in Naps
      BY NapsInRange
    <3> DEFINE left == IF ra = NoHeader THEN 0 ELSE ra
    <3>3. owed' = [owed EXCEPT ![t] =
                     [host |-> HostOf[call[t].target], mine |-> TRUE, left |-> left]]
      BY <1>7 DEF TurnedAway
    <3> HIDE DEF left
    <3>4. [host |-> HostOf[call[t].target], mine |-> TRUE, left |-> left] \in Debts
      BY <3>1, <3>2 DEF Debts, left
    <3> QED
      BY <3>3, <3>4 DEF left
  <2>2. CASE LastAttempt(t)
    BY <1>1, <1>2, <1>7, <2>1, <2>2, EndFine DEF TurnedAway
  <2>3. CASE ~LastAttempt(t)
    <3>1. PICK pause \in Naps : /\ pause = PauseFor(ra, backoff)
                                /\ d.left <= pause
      BY <1>4, <2>1, NapsInRange, PausesInRange
    <3>2. PICK b \in 0..BackoffCap : b = IF ra = NoHeader THEN next ELSE backoff
      OBVIOUS
    <3>3. /\ nap' = [nap EXCEPT ![t] = pause]
          /\ call' = [call EXCEPT ![t] = [call[t] EXCEPT !.at = "nap", !.target = NoOrigin,
                                                         !.hops = 0, !.backoff = b]]
      BY <1>3, <1>7, <2>3, <3>1, <3>2, CallTypes DEF TurnedAway, Calls
    <3> QED
      BY <1>1, <2>1, <2>3, <3>1, <3>3, SleepFine
  <2> QED
    BY <2>2, <2>3
<1> QED
  BY <1>5, <1>6, <1>7 DEF Respond

\* An exception ends the call wherever it is blocked, and the parts are left.
LEMMA RaiseFine ==
  ASSUME ClientInv, NEW t \in Threads, Raise(t)
  PROVE  Fine(t)
<1>1. /\ Ends(t) /\ nap' = [nap EXCEPT ![t] = 0] /\ owed' = owed /\ ThreadStep(t)
      /\ \/ call[t].at \in {"wire", "nap"} /\ UNCHANGED <<limiterVars, robotsVars>>
         \/ Robots!FetchRaises(t) /\ UNCHANGED limiterVars
         \/ Limiter!Interrupt(t) /\ UNCHANGED robotsVars
  BY DEF Raise, ThreadStep
<1>2. LimiterStep(t) /\ RobotsStep(t)
  BY <1>1, ThreadStepOfParts
<1>3. nap'[t] = 0
  BY <1>1, CallTypes
<1>4. waiter'[t].at = "out" /\ look'[t].at = "out"
  <2>1. CASE call[t].at \in {"wire", "nap"} /\ UNCHANGED <<limiterVars, robotsVars>>
    BY <2>1, CallTypes, PartTypes DEF Position, limiterVars, robotsVars
  <2>2. CASE Robots!FetchRaises(t) /\ UNCHANGED limiterVars
    <3>1. look[t].at # "out"
      BY <2>2 DEF Robots!FetchRaises
    <3> QED
      BY <2>2, <3>1, ConcludeLeaves, CallTypes DEF Position, limiterVars
  <2>3. CASE Limiter!Interrupt(t) /\ UNCHANGED robotsVars
    <3>1. waiter[t].at # "out" /\ waiter'[t].at = "out"
      BY <2>3, PartTypes DEF Limiter!Interrupt, Limiter!Out
    <3> QED
      BY <2>3, <3>1, CallTypes DEF Position, robotsVars
  <2> QED
    BY <1>1, <2>1, <2>2, <2>3
<1> QED
  BY <1>1, <1>2, <1>3, <1>4, EndFine

\* Time passes for the sleep and for the debt alike.
LEMMA TickFine ==
  ASSUME ClientInv, Tick
  PROVE  LocalTypes' /\ \A t \in Threads : Position(t)' /\ Owing(t)'
<1>1. /\ waiter' = waiter /\ call' = call
      /\ nap' = [t \in Threads |-> IF nap[t] = 0 THEN 0 ELSE nap[t] - 1]
      /\ owed' = [t \in Threads |->
           IF owed[t].left = 0 THEN owed[t] ELSE [owed[t] EXCEPT !.left = @ - 1]]
      /\ Robots!AgeEntries
  BY DEF Tick, Limiter!PassTime
<1>2. ASSUME NEW t \in Threads
      PROVE  /\ owed'[t] \in Debts /\ owed'[t].mine = owed[t].mine
             /\ owed'[t].left = IF owed[t].left = 0 THEN 0 ELSE owed[t].left - 1
  <2>1. owed[t].left # 0 => owed[t].left - 1 \in Naps
    BY CallTypes, NapsInRange DEF Debts
  <2> QED
    BY <1>1, <2>1, CallTypes DEF Debts
<1>3. LocalTypes'
  <2>1. nap' \in [Threads -> Naps]
    BY <1>1, CallTypes, NapsInRange
  <2>2. owed' \in [Threads -> Debts]
    BY <1>1, <1>2
  <2> QED
    BY <1>1, <2>1, <2>2 DEF ClientInv, LocalTypes
<1>4. ASSUME NEW t \in Threads PROVE Position(t)' /\ Owing(t)'
  <2>1. look'[t].at = look[t].at /\ look'[t].origin = look[t].origin
    BY <1>1, PartTypes DEF Robots!AgeEntries, Robots!Lookers
  <2>2. nap'[t] = IF nap[t] = 0 THEN 0 ELSE nap[t] - 1
    BY <1>1
  <2>3. Position(t)'
    BY <1>1, <2>1, <2>2, CallTypes DEF Position
  <2>4. Owing(t)'
    BY <1>1, <1>2, <2>2, CallTypes DEF Owing
  <2> QED
    BY <2>3, <2>4
<1> QED
  BY <1>3, <1>4

LEMMA ThreadStepFine ==
  ASSUME ClientInv, NEW t \in Threads, ThreadStep(t)
  PROVE  Fine(t)
BY GetFine, AskingFine, PermissionFine, FirstAttemptFine, NextAttemptFine, WaitForSlotFine,
   OnTheWireFine, RespondFine, RaiseFine
DEF ThreadStep

-----------------------------------------------------------------------------
\* The invariant, from the first state on.

LEMMA ClientInitInv == ClientInit => ClientInv
<1> SUFFICES ASSUME ClientInit PROVE ClientInv
  OBVIOUS
<1> USE PartsAssumed
<1>1. LimiterP!LimiterInv
  <2>1. LimiterP!LimiterInit
    BY DEF ClientInit, Limiter!LimiterInit, LimiterP!LimiterInit, Limiter!Out, LimiterP!Out
  <2> QED
    BY <2>1, LimiterP!InitInv
<1>2. RobotsP!RobotsInv
  <2>1. RobotsP!RobotsInit
    BY DEF ClientInit, Robots!RobotsInit, RobotsP!RobotsInit, Robots!NotLooking,
           RobotsP!NotLooking
  <2> QED
    BY <2>1, RobotsP!RobotsInitInv
<1>3. /\ waiter = [t \in Threads |-> Limiter!Out] /\ Limiter!Out.at = "out"
      /\ look = [t \in Threads |-> Robots!NotLooking] /\ Robots!NotLooking.at = "out"
      /\ call = [t \in Threads |-> NotCalling] /\ nap = [t \in Threads |-> 0]
      /\ owed = [t \in Threads |-> [host |-> NoHost, mine |-> FALSE, left |-> 0]]
  BY DEF ClientInit, Limiter!LimiterInit, Limiter!Out, Robots!RobotsInit, Robots!NotLooking
<1>4. LocalTypes
  BY <1>3, NotCallingFacts, NapsInRange DEF LocalTypes, Debts
<1>5. ASSUME NEW t \in Threads PROVE Position(t) /\ Owing(t)
  <2>1. /\ waiter[t].at = "out" /\ look[t].at = "out" /\ nap[t] = 0
        /\ call[t].at = "out" /\ call[t].target = NoOrigin /\ owed[t].mine = FALSE
    BY <1>3, NotCallingFacts
  <2> QED
    BY <2>1 DEF Position, Owing
<1> QED
  BY <1>1, <1>2, <1>4, <1>5 DEF ClientInv

LEMMA ClientStepInv == ClientInv /\ [ClientNext]_clientVars => ClientInv'
<1> SUFFICES ASSUME ClientInv, [ClientNext]_clientVars PROVE ClientInv'
  OBVIOUS
<1>1. LimiterP!LimiterInv' /\ RobotsP!RobotsInv'
  BY PartsKeep
<1>2. ASSUME NEW t \in Threads, ThreadStep(t)
      PROVE  LocalTypes' /\ \A u \in Threads : Position(u)' /\ Owing(u)'
  <2>1. Fine(t)
    BY <1>2, ThreadStepFine
  <2>2. ASSUME NEW u \in Threads \ {t} PROVE Position(u)' /\ Owing(u)'
    BY <2>1, CallTypes DEF Fine, OthersStay, Position, Owing
  <2> QED
    BY <2>1, <2>2 DEF Fine
<1>3. CASE Tick
  BY <1>1, <1>3, TickFine DEF ClientInv
<1>4. CASE UNCHANGED clientVars
  <2>1. LocalTypes'
    BY <1>4 DEF ClientInv, LocalTypes, clientVars
  <2>2. \A t \in Threads : Position(t)' /\ Owing(t)'
    BY <1>4 DEF ClientInv, Position, Owing, clientVars, limiterVars, robotsVars
  <2> QED
    BY <1>1, <2>1, <2>2 DEF ClientInv
<1> QED
  BY <1>1, <1>2, <1>3, <1>4 DEF ClientNext, ThreadStep, ClientInv

\* The inductive invariant holds throughout (client.py:83-180).
THEOREM ClientInvariant == ClientSpec => []ClientInv
BY ClientInitInv, ClientStepInv, PTL DEF ClientSpec

\* For every number of threads and origins, where a call is agrees with where
\* policy and limiter think its thread is: no call leaves a queue or a lock behind.
THEOREM ClientTypes == ClientSpec => []ClientTypeOK
<1>1. ClientInv => ClientTypeOK
  <2> SUFFICES ASSUME ClientInv PROVE ClientTypeOK
    OBVIOUS
  <2>1. Limiter!LimiterTypeOK
    BY DEF ClientInv, LimiterP!LimiterInv, LimiterP!LimiterTypeOK, LimiterP!Waiters,
           Limiter!LimiterTypeOK, Limiter!Waiters
  <2>2. Robots!RobotsTypeOK
    BY DEF ClientInv, RobotsP!RobotsInv, RobotsP!RobotsTypeOK, RobotsP!Lookers,
           RobotsP!Entries, RobotsP!CachedEntries, Robots!RobotsTypeOK, Robots!Lookers,
           Robots!Entries, Robots!CachedEntries
  <2> QED
    BY <2>1, <2>2 DEF ClientInv, LocalTypes, Debts, ClientTypeOK, Position
<1> QED
  BY <1>1, ClientInvariant, PTL

\* The client uses its parts as they are meant to be used: whatever it does, the
\* limiter behaves as RateLimiter says and the policy as RobotsPolicy says
\* (client.py:101-119).
THEOREM PartsBehave == ClientSpec => Limiter!LimiterSpec /\ Robots!RobotsSpec
<1>1. ClientInit => Limiter!LimiterInit /\ Robots!RobotsInit
  BY DEF ClientInit
<1>2. Limiter!limiterVars = limiterVars /\ Robots!robotsVars = robotsVars
  BY DEF limiterVars, robotsVars, Limiter!limiterVars, Robots!robotsVars
<1>3. ClientInv /\ [ClientNext]_clientVars
        => /\ [Limiter!LimiterNext]_(Limiter!limiterVars)
           /\ [Robots!RobotsNext]_(Robots!robotsVars)
  BY <1>2, StepOfParts DEF limiterVars, robotsVars, Limiter!limiterVars, Robots!robotsVars
<1> QED
  BY <1>1, <1>3, ClientInvariant, PTL
  DEF ClientSpec, Limiter!LimiterSpec, Robots!RobotsSpec

\* For every number of threads, retries and Retry-Afters, between the attempts of
\* one call the upstream's Retry-After is obeyed to the full (client.py:162-177).
THEOREM RetryAftersHonoured == ClientSpec => RetryAfterHonoured
<1>1. ClientInv /\ [ClientNext]_clientVars
        => [\A t \in Threads : Sends(t) /\ owed[t].mine => owed[t].left = 0]_clientVars
  BY DEF ClientInv, Owing, Sends
<1> QED
  BY <1>1, ClientInvariant, PTL DEF ClientSpec, RetryAfterHonoured

\* What RobotsPolicyProofs says of a policy on its own holds of the client's: no
\* cached permission is handed out a TTL after its origin last gave it
\* (robots.py:61-91, client.py:113).
THEOREM ClientsPermissionsAreFresh == ClientSpec => Robots!PermissionIsFresh
<1> USE PartsAssumed
<1>1. Robots!RobotsSpec => RobotsP!RobotsSpec
  <2>1. Robots!RobotsInit => RobotsP!RobotsInit
    BY DEF Robots!RobotsInit, RobotsP!RobotsInit, Robots!NotLooking, RobotsP!NotLooking
  <2>2. [Robots!RobotsNext]_(Robots!robotsVars) => [RobotsP!RobotsNext]_(RobotsP!robotsVars)
    BY DEF Robots!RobotsNext, RobotsP!RobotsNext, Robots!robotsVars, RobotsP!robotsVars,
      Robots!Lookup, RobotsP!Lookup, Robots!Fresh, RobotsP!Fresh, Robots!NotLooking,
      RobotsP!NotLooking, Robots!Receive, RobotsP!Receive, Robots!Replies, RobotsP!Replies,
      Robots!EntryOf, RobotsP!EntryOf, Robots!FetchRaises, RobotsP!FetchRaises,
      Robots!Store, RobotsP!Store, Robots!Conclude, RobotsP!Conclude,
      Robots!AgeEntries, RobotsP!AgeEntries, Robots!Older, RobotsP!Older
  <2> QED
    BY <2>1, <2>2, PTL DEF Robots!RobotsSpec, RobotsP!RobotsSpec
<1>2. RobotsP!RobotsSpec => RobotsP!PermissionIsFresh
  BY RobotsP!PermissionsAreFresh
<1>3. RobotsP!PermissionIsFresh => Robots!PermissionIsFresh
  BY PTL DEF RobotsP!PermissionIsFresh, Robots!PermissionIsFresh, RobotsP!Allowed,
             Robots!Allowed, RobotsP!robotsVars, Robots!robotsVars
<1> QED
  BY <1>1, <1>2, <1>3, PartsBehave, PTL

\* And what RateLimiterProofs says of a limiter on its own: at every host the
\* client's calls, whatever they do between their attempts, meet one gate that lets
\* nobody through too early (limiter.py:46-59, client.py:113-119).
THEOREM ClientsMeetGates == ClientSpec => LimiterP!GatesImplemented
<1> USE PartsAssumed
<1>1. Limiter!LimiterSpec => LimiterP!LimiterSpec
  <2>1. Limiter!LimiterInit => LimiterP!LimiterInit
    BY DEF Limiter!LimiterInit, LimiterP!LimiterInit, Limiter!Out, LimiterP!Out
  <2>2. [Limiter!LimiterNext]_(Limiter!limiterVars)
          => [LimiterP!LimiterNext]_(LimiterP!limiterVars)
    BY DEF Limiter!LimiterNext, LimiterP!LimiterNext, Limiter!limiterVars,
      LimiterP!limiterVars, Limiter!EnterWait, LimiterP!EnterWait, Limiter!IntervalFor,
      LimiterP!IntervalFor, Limiter!BaseInterval, LimiterP!BaseInterval, Limiter!Larger,
      LimiterP!Larger, Limiter!TakeLock, LimiterP!TakeLock, Limiter!LockFor,
      LimiterP!LockFor, Limiter!DelayFor, LimiterP!DelayFor, Limiter!Stamp, LimiterP!Stamp,
      Limiter!Interrupt, LimiterP!Interrupt, Limiter!LeaveWait, LimiterP!LeaveWait,
      Limiter!Out, LimiterP!Out, Limiter!PassTime, LimiterP!PassTime,
      Limiter!AtMost, LimiterP!AtMost
  <2> QED
    BY <2>1, <2>2, PTL DEF Limiter!LimiterSpec, LimiterP!LimiterSpec
<1>2. LimiterP!LimiterSpec => LimiterP!GatesImplemented
  BY LimiterP!LimiterImplementsGates
<1> QED
  BY <1>1, <1>2, PartsBehave, PTL

-----------------------------------------------------------------------------
\* The Crawl-delay.

\* A caller is let through by its own Stamp, when its sleep is over.
LEMMA GrantIsStamp ==
  ASSUME ClientInv, [ClientNext]_clientVars, NEW t \in Threads, Granted(t)
  PROVE  Limiter!Stamp(t)
<1>1. CASE UNCHANGED waiter
  BY <1>1 DEF Granted
<1>2. ASSUME NEW u \in Threads,
             \/ \E h \in Hosts, cd \in CrawlDelays : Limiter!EnterWait(u, h, cd)
             \/ Limiter!TakeLock(u) \/ Limiter!Interrupt(u) \/ Limiter!LeaveWait(u)
      PROVE  FALSE
  BY <1>2, PartTypes DEF Granted, Limiter!EnterWait, Limiter!TakeLock, Limiter!Interrupt,
                         Limiter!LeaveWait, Limiter!Out, Limiter!Waiters
<1>3. ASSUME NEW u \in Threads, Limiter!Stamp(u) PROVE u = t
  BY <1>3, PartTypes DEF Granted, Limiter!Stamp
<1> QED
  BY <1>1, <1>2, <1>3, StepOfParts DEF Limiter!LimiterNext, Limiter!PassTime, limiterVars

\* Whoever is let through has left its host alone for the interval of its call.
LEMMA GrantedInTime ==
  ASSUME ClientInv, [ClientNext]_clientVars, NEW t \in Threads, Granted(t)
  PROVE  /\ call[t].at = "slot"
         /\ since[HostOf[call[t].origin]]
              >= Limiter!IntervalFor(HostOf[call[t].origin], call[t].delay)
<1>1. Limiter!Stamp(t)
  BY GrantIsStamp
<1>2. remaining[t] = 0 /\ waiter[t].at = "sleep"
  BY <1>1 DEF Limiter!Stamp
<1>3. /\ call[t].at = "slot" /\ waiter[t].host = HostOf[call[t].origin]
      /\ waiter[t].interval = Limiter!IntervalFor(HostOf[call[t].origin], call[t].delay)
  BY <1>2, CallTypes DEF Position
<1>4. since = elapsed /\ remaining[t] + elapsed[waiter[t].host] >= waiter[t].interval
      /\ elapsed[waiter[t].host] \in Nat
  BY <1>2, PartsAssumed, PartTypes
  DEF ClientInv, LimiterP!LimiterInv, LimiterP!SleepSuffices, LimiterP!LimiterTypeOK,
      LimiterP!LimiterAssumption
<1> QED
  BY <1>2, <1>3, <1>4

\* With several threads too, every attempt, the first and the retries, leaves its
\* host alone for the interval that the Crawl-delay of its call asks for
\* (client.py:113-119, limiter.py:34-40).
THEOREM EveryAttemptWaits ==
  ClientSpec =>
    [][\A t \in Threads : Granted(t) =>
         since[HostOf[call[t].origin]]
           >= Limiter!IntervalFor(HostOf[call[t].origin], call[t].delay)]_clientVars
<1>1. ClientInv /\ [ClientNext]_clientVars =>
        [\A t \in Threads : Granted(t) =>
           since[HostOf[call[t].origin]]
             >= Limiter!IntervalFor(HostOf[call[t].origin], call[t].delay)]_clientVars
  BY GrantedInTime
<1> QED
  BY <1>1, ClientInvariant, PTL DEF ClientSpec

\* What a lone thread was told of an origin is what is on file for the origin.
Told(t) ==
  /\ look[t].at = "answered" =>
       /\ cache[call[t].origin] # NoEntry
       /\ cache[call[t].origin].entry = look[t].entry
  /\ call[t].at \in {"slot", "wire", "nap"} =>
       /\ cache[call[t].origin] # NoEntry
       /\ DeclaredDelay(cache[call[t].origin].entry) = call[t].delay

\* A call that goes on with policy and cache as they are.
LEMMA ToldStays ==
  ASSUME ClientInv, NEW t \in Threads, Told(t), cache' = cache,
         \/ look'[t].at = look[t].at /\ look'[t].entry = look[t].entry
         \/ look'[t].at = "out",
         \/ call'[t].at \notin {"slot", "wire", "nap"} /\ look'[t].at = "out"
         \/ call'[t] = call[t]
         \/ /\ call[t].at \in {"slot", "wire", "nap"}
            /\ call'[t].origin = call[t].origin /\ call'[t].delay = call[t].delay
  PROVE  Told(t)'
<1>1. look[t].at # "out" => call[t].at \in {"permission", "delay"}
  BY CallTypes DEF Position
<1> QED
  BY <1>1 DEF Told, DeclaredDelay

LEMMA ToldStep ==
  ASSUME NEW t \in Threads, Threads = {t}, ClientInv, Told(t), [ClientNext]_clientVars
  PROVE  Told(t)'
<1> DEFINE o == call[t].origin
<1>0. ClientInv'
  BY ClientStepInv
<1>1. CASE (\E v \in Origins : Get(t, v)) \/ AskDelay(t)
  <2>1. PICK v \in Origins : /\ Robots!Lookup(t, v)
                             /\ \/ Get(t, v)
                                \/ AskDelay(t) /\ v = o
    <3>1. CASE AskDelay(t)
      <4>1. PICK v \in Origins : v = o
        BY <3>1, HandedOn DEF AskDelay
      <4>2. Robots!Lookup(t, v)
        BY <3>1, <4>1 DEF AskDelay, Robots!Lookup
      <4> QED
        BY <3>1, <4>1, <4>2
    <3> QED
      BY <1>1, <3>1 DEF Get
  <2>2. cache' = cache /\ call'[t].at \in {"permission", "delay"} /\ call'[t].origin = v
    BY <2>1, CallTypes DEF Get, AskDelay, Robots!Lookup, Calls
  <2>3. look'[t].at = "answered" =>
          /\ cache[v] # NoEntry /\ look'[t].entry = cache[v].entry
    BY <2>1, PartTypes DEF Robots!Lookup, Robots!Fresh, Robots!NotLooking
  <2> QED
    BY <2>2, <2>3 DEF Told
<1>2. CASE FetchRobots(t)
  <2>1. /\ call' = call /\ look[t].at # "out" /\ look[t].origin = o
        /\ call[t].at \in {"permission", "delay"} /\ o \in Origins
    BY <1>2, CallTypes DEF FetchRobots, Robots!Receive, Robots!Store, Position
  <2>2. CASE \E r \in Robots!Replies : Robots!Receive(t, r)
    <3>1. look'[t].at = "fetched"
      BY <2>2, PartTypes DEF Robots!Receive, Robots!Lookers
    <3> QED
      BY <2>1, <3>1 DEF Told
  <2>3. CASE Robots!Store(t)
    <3>1. /\ cache'[o] = [entry |-> look[t].entry, age |-> look[t].age]
          /\ look'[t].entry = look[t].entry
      BY <2>1, <2>3, PartTypes DEF Robots!Store
    <3>2. cache'[o] # NoEntry
      BY <2>1, <2>3, <3>1, PartTypes, PartsAssumed
      DEF Robots!Store, Robots!Lookers, Robots!CachedEntries, RobotsP!RobotsAssumption,
          RobotsP!CachedEntries, RobotsP!Entries, Robots!Entries, ClientInv,
          RobotsP!RobotsInv, RobotsP!RobotsTypeOK
    <3> QED
      BY <2>1, <3>1, <3>2 DEF Told
  <2> QED
    BY <1>2, <2>2, <2>3 DEF FetchRobots
<1>3. CASE FirstAttempt(t)
  <2>1. /\ look[t].at = "answered" /\ cache' = cache /\ call'[t].origin = o
        /\ call'[t].delay = DeclaredDelay(look[t].entry)
    BY <1>3, CallTypes DEF FirstAttempt, Robots!Conclude, Calls
  <2>2. look'[t].at = "out"
    BY <1>3, ConcludeLeaves DEF FirstAttempt
  <2> QED
    BY <2>1, <2>2 DEF Told, DeclaredDelay
<1>4. CASE Permission(t) \/ Raise(t)
  <2>1. /\ cache' = cache
        /\ call'[t].at \in {"out", "delay"}
    BY <1>4, CallTypes, NotCallingFacts
    DEF Permission, Raise, Ends, Robots!Conclude, Robots!FetchRaises, robotsVars, Calls
  <2>2. look'[t].at = "out"
    <3>1. CASE Permission(t)
      BY <3>1, ConcludeLeaves DEF Permission
    <3>2. CASE Raise(t)
      <4>1. Fine(t)
        BY <3>2, RaiseFine
      <4>2. call'[t].at = "out"
        BY <3>2, CallTypes, NotCallingFacts DEF Raise, Ends
      <4> QED
        BY <4>1, <4>2 DEF Fine, Position
    <3> QED
      BY <1>4, <3>1, <3>2
  <2> QED
    BY <2>1, <2>2, ToldStays
<1>5. CASE WaitForSlot(t) \/ Send(t) \/ (\E v \in Origins : Redirect(t, v)) \/ Respond(t)
           \/ NextAttempt(t)
  <2>1. UNCHANGED robotsVars
    BY <1>5 DEF WaitForSlot, Send, Redirect, Respond, Deliver, Fail, TurnedAway, NextAttempt
  <2>2. call[t].at \in {"slot", "wire", "nap"}
    BY <1>5, CallTypes
    DEF WaitForSlot, Limiter!TakeLock, Limiter!Stamp, Position, Send, Redirect, Respond,
        Deliver, Fail, TurnedAway, NextAttempt
  <2>3. \/ call'[t] = NotCalling
        \/ call'[t].origin = o /\ call'[t].delay = call[t].delay
    <3>1. CASE WaitForSlot(t) \/ Send(t)
      BY <3>1, CallTypes DEF WaitForSlot, Send, Calls
    <3>2. CASE NextAttempt(t)
      BY <3>2, CallTypes DEF NextAttempt, Calls
    <3>3. CASE Deliver(t) \/ Fail(t)
      BY <3>3, CallTypes DEF Deliver, Fail, Ends, Calls
    <3>4. ASSUME NEW ra \in RetryAfters \cup {NoHeader}, TurnedAway(t, ra)
          PROVE  \/ call'[t] = NotCalling
                 \/ call'[t].origin = o /\ call'[t].delay = call[t].delay
      BY <3>4, CallTypes DEF TurnedAway, Ends, Calls
    <3>5. ASSUME NEW v \in Origins, Redirect(t, v)
          PROVE  call'[t].origin = o /\ call'[t].delay = call[t].delay
      BY <3>5, CallTypes DEF Redirect, Calls
    <3> QED
      BY <1>5, <3>1, <3>2, <3>3, <3>4, <3>5 DEF Respond
  <2>4. look'[t] = look[t] /\ cache' = cache /\ look[t].at = "out"
    BY <2>1, <2>2, CallTypes DEF robotsVars, Position
  <2> QED
    BY <2>2, <2>3, <2>4, NotCallingFacts, ToldStays
<1>6. CASE Tick
  <2>1. /\ call' = call
        /\ cache' = [v \in Origins |-> IF cache[v] = NoEntry THEN NoEntry
                                       ELSE [cache[v] EXCEPT !.age = Robots!Older(@)]]
    BY <1>6 DEF Tick, Robots!AgeEntries
  <2>2. look'[t].at = look[t].at /\ look'[t].entry = look[t].entry
    BY <1>6, PartTypes DEF Tick, Robots!AgeEntries, Robots!Lookers
  <2>3. ASSUME NEW v \in Origins, cache[v] # NoEntry
        PROVE  cache'[v] # NoEntry /\ cache'[v].entry = cache[v].entry
    <3>1. cache[v] \in Robots!CachedEntries
      BY <2>3, PartTypes
    <3>2. /\ cache'[v] = [cache[v] EXCEPT !.age = Robots!Older(cache[v].age)]
          /\ cache'[v].entry = cache[v].entry /\ cache'[v].age = Robots!Older(cache[v].age)
      BY <2>1, <2>3, <3>1 DEF Robots!CachedEntries
    <3>3. Robots!Older(cache[v].age) \in 0..TTL
      BY <3>1, PartsAssumed DEF Robots!CachedEntries, Robots!Older, RobotsP!RobotsAssumption
    <3>4. cache'[v] \in Robots!CachedEntries
      BY <3>1, <3>2, <3>3 DEF Robots!CachedEntries
    <3>5. NoEntry \notin Robots!CachedEntries
      BY ClientAssumption DEF Robots!RobotsAssumption
    <3> QED
      BY <3>2, <3>4, <3>5
  <2>4. call[t].at # "out" => o \in Origins
    BY CallTypes DEF Position
  <2>5. look[t].at = "answered" => call[t].at # "out"
    BY CallTypes DEF Position
  <2> QED
    BY <2>1, <2>2, <2>3, <2>4, <2>5 DEF Told, DeclaredDelay
<1>7. CASE UNCHANGED clientVars
  BY <1>7 DEF clientVars, robotsVars, Told
<1> QED
  BY <1>1, <1>2, <1>3, <1>4, <1>5, <1>6, <1>7 DEF ClientNext

\* A client of one thread, whatever its hosts, origins and delays, leaves a host
\* alone for as long as the robots.txt it last read for the origin says.  (Of
\* several threads, one may read a new robots.txt while another waits with the
\* delay of the old one.)
THEOREM LoneThreadObeysDelay ==
  ASSUME NEW lone, Threads = {lone}
  PROVE  ClientSpec => DelayObeyed
<1>1. ClientInit => Told(lone)
  BY NotCallingFacts DEF ClientInit, Told, Robots!RobotsInit, Robots!NotLooking
<1>2. ClientInv /\ Told(lone) /\ [ClientNext]_clientVars => Told(lone)'
  BY ToldStep
<1>3. ClientInv /\ Told(lone) /\ [ClientNext]_clientVars =>
        [\A t \in Threads : Granted(t) => RestedAsFiled(call[t].origin)]_clientVars
  <2> SUFFICES ASSUME ClientInv, Told(lone), [ClientNext]_clientVars, Granted(lone)
               PROVE  RestedAsFiled(call[lone].origin)
    OBVIOUS
  <2>1. /\ call[lone].at = "slot"
        /\ since[HostOf[call[lone].origin]]
             >= Limiter!IntervalFor(HostOf[call[lone].origin], call[lone].delay)
    BY GrantedInTime
  <2>2. call[lone].delay = cache[call[lone].origin].entry.delay
    BY <2>1 DEF Told, DeclaredDelay
  <2> QED
    BY <2>1, <2>2 DEF Limiter!IntervalFor, RestedAsFiled
<1> QED
  BY <1>1, <1>2, <1>3, ClientInvariant, PTL DEF ClientSpec, DelayObeyed
=============================================================================
