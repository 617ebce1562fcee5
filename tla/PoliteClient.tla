---------------------------- MODULE PoliteClient ----------------------------
(***************************************************************************)
(* PoliteClient (http/client.py): one enabled client, from its             *)
(* construction on, used by several threads.  Every get(url) asks the      *)
(* RobotsPolicy for permission, asks it again for the Crawl-delay, and     *)
(* then makes at most max(1, max_retries) attempts, each behind the        *)
(* RateLimiter, sleeping between them what the upstream asked for          *)
(* (Retry-After) or an exponential backoff.  httpx follows redirects on    *)
(* its own, behind the back of policy and limiter.                         *)
(*                                                                         *)
(* The model composes the two components: a step of a call is a step of    *)
(* the part it calls into, and one clock moves all countdowns.             *)
(***************************************************************************)
EXTENDS Naturals

CONSTANTS
  Threads, Hosts, NoThread, NoHost, NoDelay, CrawlDelays, DefaultInterval,
  Overrides, Jitter, Horizon,                     \* see RateLimiter
  Origins, NoOrigin, NoEntry, SiteDelays, TTL,    \* see RobotsPolicy
  HostOf,        \* HostOf[o]: the netloc of an origin (http and https share it)
  MaxRetries,    \* settings.max_retries
  BackoffStart, BackoffCap,  \* the 1.0 and the 60.0 of get()
  RetryAfters,   \* the Retry-After values upstreams send, as numbers of ticks
  NoHeader,      \* no Retry-After, or one that float() does not read
  MaxRedirects   \* httpx gives up after 20

VARIABLES
  waiter, holder, elapsed, remaining, since,   \* the limiter
  cache, look, lastYes,                        \* the robots policy
  call,   \* call[t]: the locals of the get() thread t is in
  nap,    \* nap[t]: what is left of get()'s own sleep between two attempts
  owed    \* owed[t]: observer's record of the last retryable status thread t
          \* got: from which host, whether in its present call, and what is
          \* left of the Retry-After that came with it

limiterVars == <<waiter, holder, elapsed, remaining, since>>
robotsVars == <<cache, look, lastYes>>
clientVars == <<limiterVars, robotsVars, call, nap, owed>>

Limiter == INSTANCE RateLimiter
Robots == INSTANCE RobotsPolicy

ASSUME ClientAssumption ==
  /\ HostOf \in [Origins -> Hosts]
  /\ SiteDelays \subseteq CrawlDelays
  /\ {MaxRetries, BackoffStart, BackoffCap, MaxRedirects} \subseteq Nat
  /\ BackoffStart <= BackoffCap
  /\ RetryAfters \subseteq Nat
  /\ NoHeader \notin Nat
  /\ Limiter!LimiterAssumption /\ Robots!RobotsAssumption

-----------------------------------------------------------------------------
Attempts == IF MaxRetries > 1 THEN MaxRetries ELSE 1

\* Broken variant: an attempt that was turned away does not count.
UncountedAttempt(n) == n

AttemptAfter(n) == n + 1

\* Broken variant: doubling without the cap.
UncappedBackoff(b) == 2 * b

\* Doubling, up to the cap.
NextBackoff(b) == IF 2 * b < BackoffCap THEN 2 * b ELSE BackoffCap

\* Broken variant: our own backoff caps what the upstream asked for.
CappedPause(ra, backoff) ==
  IF ra = NoHeader \/ ra > backoff THEN backoff ELSE ra

\* How long get() sleeps after a retryable status.
PauseFor(ra, backoff) == IF ra = NoHeader THEN backoff ELSE ra

\* Broken variant: the Crawl-delay looked up and then not handed on.
ForgottenDelay(entry) == NoDelay

\* What crawl_delay(url) returns, handed to every wait() of the call.
DeclaredDelay(entry) == entry.delay

-----------------------------------------------------------------------------
NotCalling == [at |-> "out", origin |-> NoOrigin, target |-> NoOrigin, hops |-> 0,
               delay |-> NoDelay, attempt |-> 0, backoff |-> 0]

\* __init__ of an enabled source: a new policy and a new limiter.
ClientInit ==
  /\ Limiter!LimiterInit
  /\ Robots!RobotsInit
  /\ call = [t \in Threads |-> NotCalling]
  /\ nap = [t \in Threads |-> 0]
  /\ owed = [t \in Threads |-> [host |-> NoHost, mine |-> FALSE, left |-> 0]]

Ends(t) == call' = [call EXCEPT ![t] = NotCalling]

\* get(url) is entered: is_allowed(url) looks the origin up.
Get(t, o) ==
  /\ call[t].at = "out"
  /\ Robots!Lookup(t, o)
  /\ call' = [call EXCEPT ![t].at = "permission", ![t].origin = o]
  /\ owed' = [owed EXCEPT ![t].mine = FALSE]
  /\ UNCHANGED <<limiterVars, nap>>

\* The policy's own steps on the way.
FetchRobots(t) ==
  /\ (\E r \in Robots!Replies : Robots!Receive(t, r)) \/ Robots!Store(t)
  /\ UNCHANGED <<limiterVars, call, nap, owed>>

\* is_allowed has answered: no permission raises RobotsDenied.
Permission(t) ==
  /\ call[t].at = "permission"
  /\ Robots!Conclude(t)
  /\ IF Robots!Allowed(look[t].entry)
     THEN call' = [call EXCEPT ![t].at = "delay"]
     ELSE Ends(t)
  /\ UNCHANGED <<limiterVars, nap, owed>>

\* crawl_delay(url) looks the origin up once more.
AskDelay(t) ==
  /\ call[t].at = "delay"
  /\ Robots!Lookup(t, call[t].origin)
  /\ UNCHANGED <<limiterVars, call, nap, owed>>

\* crawl_delay has answered: the first attempt queues at the limiter.
FirstAttempt(t) ==
  LET delay == DeclaredDelay(look[t].entry)
  IN /\ call[t].at = "delay"
     /\ Robots!Conclude(t)
     /\ Limiter!EnterWait(t, HostOf[call[t].origin], delay)
     /\ call' = [call EXCEPT ![t].at = "slot", ![t].delay = delay,
                             ![t].attempt = 1, ![t].backoff = BackoffStart]
     /\ UNCHANGED <<nap, owed>>

\* The limiter's own steps on the way.
WaitForSlot(t) ==
  /\ Limiter!TakeLock(t) \/ Limiter!Stamp(t)
  /\ UNCHANGED <<robotsVars, call, nap, owed>>

\* wait() has returned and the connection is up: the request goes out.
Send(t) ==
  /\ call[t].at = "slot"
  /\ Limiter!LeaveWait(t)
  /\ call' = [call EXCEPT ![t].at = "wire", ![t].target = call[t].origin]
  /\ UNCHANGED <<robotsVars, nap, owed>>

\* A 3xx: httpx itself requests the location, whatever origin that is.
Redirect(t, o) ==
  /\ call[t].at = "wire"
  /\ call[t].hops < MaxRedirects
  /\ call' = [call EXCEPT ![t].target = o, ![t].hops = @ + 1]
  /\ UNCHANGED <<limiterVars, robotsVars, nap, owed>>

\* A status that is not retryable: get() returns the result.
Deliver(t) ==
  /\ call[t].at = "wire"
  /\ Ends(t)
  /\ UNCHANGED <<limiterVars, robotsVars, nap, owed>>

LastAttempt(t) == call[t].attempt = Attempts

\* No response (any httpx.HTTPError): back off, or raise RetryExhausted.
Fail(t) ==
  /\ call[t].at = "wire"
  /\ IF LastAttempt(t)
     THEN Ends(t) /\ UNCHANGED nap
     ELSE /\ nap' = [nap EXCEPT ![t] = call[t].backoff]
          /\ call' = [call EXCEPT ![t].at = "nap", ![t].target = NoOrigin, ![t].hops = 0,
                                  ![t].backoff = NextBackoff(@)]
  /\ UNCHANGED <<limiterVars, robotsVars, owed>>

\* A retryable status.  On the last attempt get() raises RetryExhausted and
\* never looks at Retry-After; otherwise it sleeps as told, or backs off and
\* only then doubles the backoff.
TurnedAway(t, ra) ==
  /\ call[t].at = "wire"
  /\ owed' = [owed EXCEPT ![t] =
       [host |-> HostOf[call[t].target], mine |-> TRUE,
        left |-> IF ra = NoHeader THEN 0 ELSE ra]]
  /\ IF LastAttempt(t)
     THEN Ends(t) /\ UNCHANGED nap
     ELSE /\ nap' = [nap EXCEPT ![t] = PauseFor(ra, call[t].backoff)]
          /\ call' = [call EXCEPT ![t].at = "nap", ![t].target = NoOrigin, ![t].hops = 0,
                        ![t].backoff = IF ra = NoHeader THEN NextBackoff(@) ELSE @]
  /\ UNCHANGED <<limiterVars, robotsVars>>

\* An exception get() does not catch, where it blocks: Ctrl-C, what the policy's
\* fetch or the limiter's sleep raise, and time.sleep refusing a Retry-After
\* that float() read (negative, nan, inf).
Raise(t) ==
  /\ \/ call[t].at \in {"wire", "nap"} /\ UNCHANGED <<limiterVars, robotsVars>>
     \/ Robots!FetchRaises(t) /\ UNCHANGED limiterVars
     \/ Limiter!Interrupt(t) /\ UNCHANGED robotsVars
  /\ Ends(t)
  /\ nap' = [nap EXCEPT ![t] = 0]
  /\ UNCHANGED owed

\* The sleep is over: the next attempt queues, with the call's crawl delay.
NextAttempt(t) ==
  /\ call[t].at = "nap"
  /\ nap[t] = 0
  /\ Limiter!EnterWait(t, HostOf[call[t].origin], call[t].delay)
  /\ call' = [call EXCEPT ![t].at = "slot", ![t].attempt = AttemptAfter(@)]
  /\ UNCHANGED <<robotsVars, nap, owed>>

Tick ==
  /\ Limiter!PassTime
  /\ Robots!AgeEntries
  /\ nap' = [t \in Threads |-> IF nap[t] = 0 THEN 0 ELSE nap[t] - 1]
  /\ owed' = [t \in Threads |->
       IF owed[t].left = 0 THEN owed[t] ELSE [owed[t] EXCEPT !.left = @ - 1]]
  /\ UNCHANGED call

Respond(t) ==
  Deliver(t) \/ Fail(t) \/ \E ra \in RetryAfters \cup {NoHeader} : TurnedAway(t, ra)

ClientNext ==
  \/ \E t \in Threads :
       \/ \E o \in Origins : Get(t, o) \/ Redirect(t, o)
       \/ FetchRobots(t)
       \/ Permission(t)
       \/ AskDelay(t)
       \/ FirstAttempt(t)
       \/ WaitForSlot(t)
       \/ Send(t)
       \/ Respond(t)
       \/ Raise(t)
       \/ NextAttempt(t)
  \/ Tick

ClientSpec == ClientInit /\ [][ClientNext]_clientVars

\* What thread t does by itself.  The end of an exchange is not among it: httpx's
\* timeout bounds every single read, and a response that drips has no end.
Proceeds(t) ==
  \/ look[t].at = "fetched" /\ FetchRobots(t)
  \/ Permission(t)
  \/ AskDelay(t)
  \/ FirstAttempt(t)
  \/ WaitForSlot(t)
  \/ Send(t)
  \/ NextAttempt(t)

\* Time passes and threads run.  Nobody is obliged to call get(), no site to answer,
\* and no lock to be fair: a thread may find it taken every time.
ClientFairness ==
  /\ WF_clientVars(Tick)
  /\ \A t \in Threads : WF_clientVars(Proceeds(t))

FairClientSpec == ClientSpec /\ ClientFairness

-----------------------------------------------------------------------------
\* Properties.

Calls == [at : {"out", "permission", "delay", "slot", "wire", "nap"},
          origin : Origins \cup {NoOrigin},
          target : Origins \cup {NoOrigin},
          hops : 0..MaxRedirects,
          delay : SiteDelays,
          attempt : 0..Attempts,
          backoff : 0..BackoffCap]

\* What a sleep counts through.
Naps == UNION {0..pause : pause \in RetryAfters \cup {BackoffCap}}

\* Type invariant: where a call is agrees with where the policy and the limiter
\* think its thread is; in particular no call leaves a queue or a lock behind.
ClientTypeOK ==
  /\ call \in [Threads -> Calls]
  /\ nap \in [Threads -> Naps]
  /\ owed \in [Threads -> [host : Hosts \cup {NoHost}, mine : BOOLEAN, left : Naps]]
  /\ Limiter!LimiterTypeOK /\ Robots!RobotsTypeOK
  /\ \A t \in Threads :
       /\ call[t].at = "slot" <=> waiter[t].at # "out"
       /\ look[t].at # "out" => call[t].at \in {"permission", "delay"}
       /\ call[t].at = "wire" <=> call[t].target # NoOrigin
       /\ nap[t] > 0 => call[t].at = "nap"

Sends(t) == call[t].at = "slot" /\ call'[t].at = "wire"
Granted(t) == waiter[t].at = "sleep" /\ waiter'[t].at = "granted"

\* The host has had the rest that the robots.txt on file for the origin asks for.
RestedAsFiled(o) ==
  since[HostOf[o]] >= Limiter!IntervalFor(HostOf[o], cache[o].entry.delay)

\* Between the attempts of one call the upstream's Retry-After is obeyed to the
\* full, whatever the backoff has come to and however long the limiter takes
\* (client.py:162-177).
RetryAfterHonoured ==
  [][\A t \in Threads : Sends(t) /\ owed[t].mine => owed[t].left = 0]_clientVars

\* Policy and limiter work together: on every attempt, the first and the
\* retries, the host has been left alone for as long as the Crawl-delay in the
\* robots.txt the client last read for the origin says, and for its configured
\* interval, also when another origin of the same host has another delay
\* (client.py:113-119, limiter.py:34-40).  For a client of one thread: with several,
\* another one may read a new robots.txt in the middle of a call.
DelayObeyed == [][\A t \in Threads : Granted(t) => RestedAsFiled(call[t].origin)]_clientVars

\* A request, with its redirects, or a fetch of robots.txt is under way.
InExchange(t) == call[t].at = "wire" \/ look[t].at = "fetching"

\* Every call of get() comes back, with a result or an exception, for all the
\* attempts, Retry-Afters, sleeps and robots.txt fetches on its way, unless one
\* exchange with a site never ends (client.py:108-181; httpx's timeout bounds each
\* read, client.py:81).  For a client of one thread: with several, others may get the
\* host's lock before it for ever, since threading.Lock is not fair (limiter.py:51).
CallEnds ==
  \A t \in Threads :
    call[t].at # "out" ~> (call[t].at = "out" \/ []InExchange(t))

-----------------------------------------------------------------------------
\* What comments, plans and tests say of the client, and the code does not do.

\* "Retry-After is obeyed absolutely" (client.py:162): no request goes to a host
\* while a Retry-After it sent to this thread is running.
RetryAfterAbsolute ==
  [][\A t \in Threads :
       Sends(t) /\ HostOf[call[t].origin] = owed[t].host => owed[t].left = 0]_clientVars

\* "an unreadable robots.txt blocks the request" (02-02-PLAN.md:21): the request
\* of an attempt goes out only if the policy, asked at that moment, has no
\* unreachable or forbidding answer on file.
DenialBlocks ==
  [][\A t \in Threads :
       Sends(t) => Robots!Allowed(cache[call[t].origin].entry)]_clientVars

\* "Every request consults robots.txt for its host" (02-02-PLAN.md:21): no request
\* is on the wire to an origin the policy was never asked about.
EveryRequestConsults ==
  \A t \in Threads : call[t].at = "wire" => cache[call[t].target] # NoEntry
=============================================================================
