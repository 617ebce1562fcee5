---------------------------- MODULE RateLimiter -----------------------------
(***************************************************************************)
(* RateLimiter (http/limiter.py): a minimum interval between requests to   *)
(* the same host, hosts independent of each other.                         *)
(*                                                                         *)
(* Several threads of one process call wait(url, crawl_delay) of one       *)
(* limiter.  A call computes the interval it must respect, takes the lock  *)
(* of its host, reads how long ago the host was last used, sleeps what is  *)
(* missing (plus jitter) WITH THE LOCK HELD, stamps the host and returns.  *)
(*                                                                         *)
(* Time.  The code reads time.monotonic() only to subtract two readings,   *)
(* so the model keeps the differences: elapsed[h] is monotonic() minus     *)
(* _last_request[h] and remaining[t] is what is left of the thread's       *)
(* time.sleep; Tick moves both.  elapsed saturates at Horizon: every       *)
(* interval is at most Horizon, so max(0, interval - elapsed) cannot tell  *)
(* larger values apart.  A sleep may last longer than asked (time.sleep    *)
(* guarantees only a minimum), hence Tick never waits for a sleeper.       *)
(***************************************************************************)
EXTENDS Naturals

CONSTANTS
  Threads, Hosts,
  NoThread, NoHost, NoDelay,   \* the Nones
  CrawlDelays,       \* the crawl_delay values callers pass, NoDelay among them
  DefaultInterval,   \* 1 / default_rate_limit_per_sec, in ticks
  Overrides,         \* 1 / per_host_rate_limits[host], for the hosts it names
  Jitter,            \* rate_limit_jitter_seconds, in ticks
  Horizon            \* no interval is longer

VARIABLES
  waiter,     \* waiter[t]: where thread t is in wait(), and for what
  holder,     \* holder[h]: the thread inside `with self._lock_for(h)`
  elapsed,    \* elapsed[h]: monotonic() - _last_request[h], at most Horizon
  remaining,  \* remaining[t]: what is left of the thread's time.sleep
  since       \* since[h]: observer's clock, time since wait() last let a
              \* caller through to h (never read by the code's actions)

limiterVars == <<waiter, holder, elapsed, remaining, since>>

-----------------------------------------------------------------------------
\* The pure parts of the code.

Larger(a, b) == IF a > b THEN a ELSE b
AtMost(a, b) == IF a < b THEN a ELSE b

BaseInterval(h) ==
  IF h \in DOMAIN Overrides THEN Overrides[h] ELSE DefaultInterval

\* Broken variant: the more permissive of the two.
LooserInterval(h, cd) ==
  IF cd = NoDelay THEN BaseInterval(h) ELSE AtMost(BaseInterval(h), cd)

\* The stricter of our rate and the host's own delay.
IntervalFor(h, cd) ==
  IF cd = NoDelay THEN BaseInterval(h) ELSE Larger(BaseInterval(h), cd)

\* Broken variant: one lock for all hosts.
SharedLock(h) == CHOOSE l \in Hosts : TRUE

\* Every host has a lock of its own.
LockFor(h) == h

\* Broken variant: the clamp at zero forgotten.
UnclampedDelay(interval, e, j) == interval - e + j

\* Broken variant: jitter in both directions.
EarlyDelay(interval, e, j) ==
  IF interval > e + j THEN interval - e - j ELSE 0

\* What is missing to the interval, then jitter on top.
DelayFor(interval, e, j) == (IF interval > e THEN interval - e ELSE 0) + j

ASSUME LimiterAssumption ==
  /\ NoThread \notin Threads
  /\ NoHost \notin Hosts
  /\ NoDelay \notin Nat
  /\ CrawlDelays \subseteq Nat \cup {NoDelay}
  /\ {DefaultInterval, Jitter, Horizon} \subseteq Nat
  /\ \A h \in DOMAIN Overrides : Overrides[h] \in Nat
  /\ \A h \in Hosts, cd \in CrawlDelays : IntervalFor(h, cd) <= Horizon

-----------------------------------------------------------------------------
Out == [at |-> "out", host |-> NoHost, interval |-> 0]

\* _last_request is a defaultdict(float): before a host's first request
\* elapsed is the machine's uptime, which may be anything.
LimiterInit ==
  /\ waiter = [t \in Threads |-> Out]
  /\ holder = [h \in Hosts |-> NoThread]
  /\ \E uptime \in 0..Horizon : elapsed = [h \in Hosts |-> uptime]
  /\ since = elapsed
  /\ remaining = [t \in Threads |-> 0]

\* wait() is entered: host and interval are computed before the lock.
EnterWait(t, h, cd) ==
  /\ waiter[t].at = "out"
  /\ waiter' = [waiter EXCEPT ![t] =
       [at |-> "lock", host |-> h, interval |-> IntervalFor(h, cd)]]
  /\ UNCHANGED <<holder, elapsed, remaining, since>>

\* The host's lock is free: take it, compute the delay, start to sleep.
TakeLock(t) ==
  LET w == waiter[t]
  IN /\ w.at = "lock"
     /\ holder[LockFor(w.host)] = NoThread
     /\ holder' = [holder EXCEPT ![LockFor(w.host)] = t]
     /\ \E j \in 0..Jitter :
          remaining' = [remaining EXCEPT
            ![t] = DelayFor(w.interval, elapsed[w.host], j)]
     /\ waiter' = [waiter EXCEPT ![t].at = "sleep"]
     /\ UNCHANGED <<elapsed, since>>

\* The sleep is over: stamp the host, release the lock.
Stamp(t) ==
  LET w == waiter[t]
  IN /\ w.at = "sleep"
     /\ remaining[t] = 0
     /\ elapsed' = [elapsed EXCEPT ![w.host] = 0]
     /\ since' = [since EXCEPT ![w.host] = 0]
     /\ holder' = [holder EXCEPT ![LockFor(w.host)] = NoThread]
     /\ waiter' = [waiter EXCEPT ![t].at = "granted"]
     /\ UNCHANGED remaining

\* Broken variant: acquire() and release() without `with`, so an exception
\* during the sleep leaves the lock taken.
LeakingInterrupt(t) ==
  /\ waiter[t].at \in {"lock", "sleep"}
  /\ remaining' = [remaining EXCEPT ![t] = 0]
  /\ waiter' = [waiter EXCEPT ![t] = Out]
  /\ UNCHANGED <<holder, elapsed, since>>

\* An exception ends the wait: Ctrl-C, or a delay too large for time.sleep.
\* `with` releases the lock if it was taken; nothing is stamped.
Interrupt(t) ==
  /\ waiter[t].at \in {"lock", "sleep"}
  /\ holder' = [h \in Hosts |-> IF holder[h] = t THEN NoThread ELSE holder[h]]
  /\ remaining' = [remaining EXCEPT ![t] = 0]
  /\ waiter' = [waiter EXCEPT ![t] = Out]
  /\ UNCHANGED <<elapsed, since>>

\* wait() returns to its caller; time may have passed since the stamp.
LeaveWait(t) ==
  /\ waiter[t].at = "granted"
  /\ waiter' = [waiter EXCEPT ![t] = Out]
  /\ UNCHANGED <<holder, elapsed, remaining, since>>

\* One tick of the monotonic clock.
PassTime ==
  /\ elapsed' = [h \in Hosts |-> AtMost(elapsed[h] + 1, Horizon)]
  /\ since' = [h \in Hosts |-> AtMost(since[h] + 1, Horizon)]
  /\ remaining' = [t \in Threads |->
       IF remaining[t] = 0 THEN 0 ELSE remaining[t] - 1]
  /\ UNCHANGED <<waiter, holder>>

LimiterNext ==
  \/ \E t \in Threads :
       \/ \E h \in Hosts, cd \in CrawlDelays : EnterWait(t, h, cd)
       \/ TakeLock(t)
       \/ Stamp(t)
       \/ Interrupt(t)
       \/ LeaveWait(t)
  \/ PassTime

LimiterSpec == LimiterInit /\ [][LimiterNext]_limiterVars

\* What host h needs to keep serving: time passes, one of ITS waiters takes its
\* free lock, ITS sleeper wakes.  Not assumed: that a given waiter ever gets
\* the lock (threading.Lock is not fair), that anybody calls wait(), or
\* anything at all about the callers of other hosts.
FairFor(h) ==
  /\ WF_limiterVars(PassTime)
  /\ \A t \in Threads :
       /\ WF_limiterVars(TakeLock(t) /\ waiter[t].host = h)
       /\ WF_limiterVars(Stamp(t) /\ waiter[t].host = h)

-----------------------------------------------------------------------------
\* Properties.

Waiters == [at : {"out", "lock", "sleep", "granted"},
            host : Hosts \cup {NoHost},
            interval : 0..Horizon]

\* Type invariant: every clock and countdown of the limiter stays in its range;
\* in particular no sleep is negative or longer than interval plus jitter.
LimiterTypeOK ==
  /\ waiter \in [Threads -> Waiters]
  /\ \A t \in Threads : waiter[t].at # "out" => waiter[t].host \in Hosts
  /\ holder \in [Hosts -> Threads \cup {NoThread}]
  /\ elapsed \in [Hosts -> 0..Horizon]
  /\ since \in [Hosts -> 0..Horizon]
  /\ remaining \in [Threads -> 0..(Horizon + Jitter)]

\* The lock of a host is held exactly by the one thread that sleeps for that
\* host: no two callers compute a delay from the same stamp, and no exception
\* or return leaves a host locked for good (limiter.py:51-58).
LockDiscipline ==
  \A h \in Hosts, t \in Threads :
    holder[h] = t <=> waiter[t].at = "sleep" /\ waiter[t].host = h

\* A sleeper that wakes up has kept its interval: what is left of its sleep
\* covers what is missing, because nobody else can stamp the host while it
\* sleeps, and the stamp is the moment a caller is let through.
SleepSuffices ==
  /\ since = elapsed
  /\ \A t \in Threads :
       LET w == waiter[t]
       IN /\ w.at \in {"lock", "sleep"} => w.interval >= BaseInterval(w.host)
          /\ w.at = "sleep" => remaining[t] + elapsed[w.host] >= w.interval

Waiting(h, t) == waiter[t].host = h /\ waiter[t].at \in {"lock", "sleep"}

\* Host h as the gate it promises to be: the callers waiting for h, and the
\* time since one of them was let through.
Gate(h) == INSTANCE HostGate WITH
  Callers <- Threads,
  NotAsking <- NoDelay,
  Floor <- BaseInterval(h),
  asks <- [t \in Threads |->
             IF Waiting(h, t) THEN waiter[t].interval ELSE NoDelay],
  since <- since[h]

\* Whatever the interleaving of callers, locks and sleeps, nobody is let through
\* to a host sooner than the interval it had to respect (never less than the
\* one configured for the host) after the previous caller (limiter.py:19, 52-58).
\* This is \A h \in Hosts : Gate(h)!GateSafety with the quantifier inside the box.
GatesImplemented ==
  /\ \A h \in Hosts : Gate(h)!GateInit
  /\ [][\A h \in Hosts : [Gate(h)!GateNext]_(Gate(h)!gateVars)]_limiterVars

\* Hosts are independent (limiter.py:21): a host goes on letting callers through
\* although threads that wait for other hosts may never run again.
HostsIndependent == \A h \in Hosts : FairFor(h) => Gate(h)!GateLiveness
=============================================================================
