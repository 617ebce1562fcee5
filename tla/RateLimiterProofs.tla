------------------------- MODULE RateLimiterProofs --------------------------
(***************************************************************************)
(* What RateLimiter guarantees for every set of threads and hosts, all     *)
(* rates, crawl delays and jitters.  The inductive invariant is            *)
(*                                                                         *)
(*   LimiterInv == LimiterTypeOK /\ LockDiscipline /\ SleepSuffices        *)
(*                                                                         *)
(* SleepSuffices is what makes a wake-up safe, and is inductive only with  *)
(* LockDiscipline beside it: a second sleeper on the host would reset      *)
(* elapsed under the first one.                                            *)
(***************************************************************************)
EXTENDS RateLimiter, TLAPS

LimiterInv == LimiterTypeOK /\ LockDiscipline /\ SleepSuffices

-----------------------------------------------------------------------------
\* The arithmetic of one wait.

\* An interval is a time within the horizon, and never below the configured one.
LEMMA IntervalInRange ==
  ASSUME NEW h \in Hosts, NEW cd \in CrawlDelays
  PROVE  /\ IntervalFor(h, cd) \in 0..Horizon
         /\ BaseInterval(h) \in 0..Horizon
         /\ IntervalFor(h, cd) >= BaseInterval(h)
<1>1. BaseInterval(h) \in Nat
  BY LimiterAssumption DEF BaseInterval
<1>2. cd = NoDelay \/ cd \in Nat
  BY LimiterAssumption
<1>3. IntervalFor(h, cd) \in Nat /\ IntervalFor(h, cd) >= BaseInterval(h)
  BY <1>1, <1>2 DEF IntervalFor, Larger
<1>4. IntervalFor(h, cd) <= Horizon /\ Horizon \in Nat
  BY LimiterAssumption
<1> QED
  BY <1>1, <1>3, <1>4

\* A delay lasts at least what is missing to the interval, and at most the
\* interval and the jitter together.
LEMMA DelayCovers ==
  ASSUME NEW i \in 0..Horizon, NEW e \in 0..Horizon, NEW j \in 0..Jitter
  PROVE  /\ DelayFor(i, e, j) \in 0..(Horizon + Jitter)
         /\ DelayFor(i, e, j) + e >= i
<1>1. Horizon \in Nat /\ Jitter \in Nat
  BY LimiterAssumption
<1> QED
  BY <1>1 DEF DelayFor

-----------------------------------------------------------------------------
\* The inductive invariant.

LEMMA InitInv == LimiterInit => LimiterInv
<1> SUFFICES ASSUME LimiterInit PROVE LimiterInv
  OBVIOUS
<1>1. NoThread \notin Threads /\ NoHost \notin Hosts /\ Horizon \in Nat /\ Jitter \in Nat
  BY LimiterAssumption
<1>2. LimiterTypeOK
  BY <1>1 DEF LimiterInit, LimiterTypeOK, Waiters, Out
<1>3. LockDiscipline
  BY <1>1 DEF LimiterInit, LockDiscipline, Out
<1>4. SleepSuffices
  BY DEF LimiterInit, SleepSuffices, Out
<1> QED
  BY <1>2, <1>3, <1>4 DEF LimiterInv

LEMMA EnterKeeps ==
  ASSUME LimiterInv, NEW t \in Threads, NEW h \in Hosts, NEW cd \in CrawlDelays,
         EnterWait(t, h, cd)
  PROVE  LimiterInv'
<1>1. /\ IntervalFor(h, cd) \in 0..Horizon
      /\ BaseInterval(h) \in 0..Horizon
      /\ IntervalFor(h, cd) >= BaseInterval(h)
  BY IntervalInRange
<1> DEFINE w == [at |-> "lock", host |-> h, interval |-> IntervalFor(h, cd)]
<1>2. waiter' = [waiter EXCEPT ![t] = w] /\ UNCHANGED <<holder, elapsed, remaining, since>>
  BY DEF EnterWait
<1>3. w \in Waiters
  BY <1>1 DEF Waiters
<1>4. LimiterTypeOK'
  BY <1>2, <1>3 DEF LimiterInv, LimiterTypeOK
<1>5. LockDiscipline'
  BY <1>2 DEF LimiterInv, LimiterTypeOK, LockDiscipline, EnterWait
<1>6. SleepSuffices'
  BY <1>1, <1>2 DEF LimiterInv, LimiterTypeOK, SleepSuffices
<1> QED
  BY <1>4, <1>5, <1>6 DEF LimiterInv

LEMMA TakeLockKeeps ==
  ASSUME LimiterInv, NEW t \in Threads, TakeLock(t)
  PROVE  LimiterInv'
<1> DEFINE w == waiter[t]
           h == waiter[t].host
<1>1. /\ w \in Waiters /\ w.at = "lock" /\ h \in Hosts
      /\ w.interval \in 0..Horizon /\ elapsed[h] \in 0..Horizon
  BY DEF LimiterInv, LimiterTypeOK, Waiters, TakeLock
<1>2. PICK j \in 0..Jitter :
        remaining' = [remaining EXCEPT ![t] = DelayFor(w.interval, elapsed[h], j)]
  BY DEF TakeLock
<1>3. /\ DelayFor(w.interval, elapsed[h], j) \in 0..(Horizon + Jitter)
      /\ DelayFor(w.interval, elapsed[h], j) + elapsed[h] >= w.interval
  BY <1>1, DelayCovers
<1>4. /\ holder[h] = NoThread
      /\ holder' = [holder EXCEPT ![h] = t]
      /\ waiter' = [waiter EXCEPT ![t].at = "sleep"]
      /\ UNCHANGED <<elapsed, since>>
  BY DEF TakeLock, LockFor
<1>5. waiter'[t] = [at |-> "sleep", host |-> h, interval |-> w.interval]
  BY <1>1, <1>4 DEF LimiterInv, LimiterTypeOK, Waiters
<1>6. \A u \in Threads \ {t} : waiter'[u] = waiter[u] /\ remaining'[u] = remaining[u]
  BY <1>2, <1>4 DEF LimiterInv, LimiterTypeOK
<1>7. waiter'[t] \in Waiters
  BY <1>1, <1>5 DEF Waiters
<1>8. LimiterTypeOK'
  BY <1>1, <1>2, <1>3, <1>4, <1>5, <1>6, <1>7 DEF LimiterInv, LimiterTypeOK
<1>9. LockDiscipline'
  <2> SUFFICES ASSUME NEW g \in Hosts, NEW u \in Threads
               PROVE  holder'[g] = u <=> waiter'[u].at = "sleep" /\ waiter'[u].host = g
    BY DEF LockDiscipline
  <2>1. NoThread \notin Threads
    BY LimiterAssumption
  <2>2. holder[g] = u <=> waiter[u].at = "sleep" /\ waiter[u].host = g
    BY DEF LimiterInv, LockDiscipline
  <2>3. ~(waiter[u].at = "sleep" /\ waiter[u].host = h)
    BY <1>1, <1>4, <2>1 DEF LimiterInv, LockDiscipline
  <2>4. CASE u = t
    BY <1>1, <1>4, <1>5, <2>2, <2>4 DEF LimiterInv, LimiterTypeOK
  <2>5. CASE u # t
    BY <1>1, <1>4, <1>6, <2>2, <2>3, <2>5 DEF LimiterInv, LimiterTypeOK
  <2> QED
    BY <2>4, <2>5
<1>10. SleepSuffices'
  <2>1. since' = elapsed'
    BY <1>4 DEF LimiterInv, SleepSuffices
  <2>2. waiter'[t].interval >= BaseInterval(waiter'[t].host)
    BY <1>1, <1>5 DEF LimiterInv, SleepSuffices
  <2>3. remaining'[t] + elapsed'[h] >= waiter'[t].interval
    BY <1>2, <1>3, <1>4, <1>5 DEF LimiterInv, LimiterTypeOK
  <2> QED
    BY <1>4, <1>5, <1>6, <2>1, <2>2, <2>3 DEF LimiterInv, SleepSuffices
<1> QED
  BY <1>8, <1>9, <1>10 DEF LimiterInv

\* The step that lets a caller through.  Nobody else sleeps for the host: its
\* lock is t's.
LEMMA StampKeeps ==
  ASSUME LimiterInv, NEW t \in Threads, Stamp(t)
  PROVE  LimiterInv'
<1> DEFINE w == waiter[t]
           h == waiter[t].host
<1>1. /\ w \in Waiters /\ w.at = "sleep" /\ h \in Hosts
      /\ NoThread \notin Threads /\ Horizon \in Nat
  BY LimiterAssumption DEF LimiterInv, LimiterTypeOK, Waiters, Stamp
<1>2. /\ elapsed' = [elapsed EXCEPT ![h] = 0]
      /\ since' = [since EXCEPT ![h] = 0]
      /\ holder' = [holder EXCEPT ![h] = NoThread]
      /\ waiter' = [waiter EXCEPT ![t].at = "granted"]
      /\ UNCHANGED remaining
  BY DEF Stamp, LockFor
<1>3. waiter'[t] = [at |-> "granted", host |-> h, interval |-> w.interval]
  BY <1>1, <1>2 DEF LimiterInv, LimiterTypeOK, Waiters
<1>4. \A u \in Threads \ {t} : waiter'[u] = waiter[u]
  BY <1>2 DEF LimiterInv, LimiterTypeOK
<1>5. waiter'[t] \in Waiters
  BY <1>1, <1>3 DEF Waiters
<1>6. \A u \in Threads \ {t} : ~(waiter[u].at = "sleep" /\ waiter[u].host = h)
  BY <1>1 DEF LimiterInv, LockDiscipline
<1>7. LimiterTypeOK'
  BY <1>1, <1>2, <1>3, <1>4, <1>5 DEF LimiterInv, LimiterTypeOK
<1>8. LockDiscipline'
  <2> SUFFICES ASSUME NEW g \in Hosts, NEW u \in Threads
               PROVE  holder'[g] = u <=> waiter'[u].at = "sleep" /\ waiter'[u].host = g
    BY DEF LockDiscipline
  <2>1. holder[g] = u <=> waiter[u].at = "sleep" /\ waiter[u].host = g
    BY DEF LimiterInv, LockDiscipline
  <2>2. CASE u = t
    BY <1>1, <1>2, <1>3, <2>1, <2>2 DEF LimiterInv, LimiterTypeOK
  <2>3. CASE u # t
    BY <1>1, <1>2, <1>4, <1>6, <2>1, <2>3 DEF LimiterInv, LimiterTypeOK
  <2> QED
    BY <2>2, <2>3
<1>9. SleepSuffices'
  <2>1. since' = elapsed'
    BY <1>2 DEF LimiterInv, SleepSuffices
  <2> SUFFICES ASSUME NEW u \in Threads
               PROVE  LET v == waiter'[u]
                      IN /\ v.at \in {"lock", "sleep"} => v.interval >= BaseInterval(v.host)
                         /\ v.at = "sleep" => remaining'[u] + elapsed'[v.host] >= v.interval
    BY <2>1 DEF SleepSuffices
  <2>2. CASE u = t
    BY <1>3, <2>2
  <2>3. CASE u # t
    <3>1. waiter'[u] = waiter[u]
      BY <1>4, <2>3
    <3>2. waiter[u].at = "sleep" => waiter[u].host # h /\ elapsed'[waiter[u].host] = elapsed[waiter[u].host]
      BY <1>1, <1>2, <1>6, <2>3 DEF LimiterInv, LimiterTypeOK
    <3> QED
      BY <1>2, <3>1, <3>2 DEF LimiterInv, SleepSuffices
  <2> QED
    BY <2>2, <2>3
<1> QED
  BY <1>7, <1>8, <1>9 DEF LimiterInv

LEMMA InterruptKeeps ==
  ASSUME LimiterInv, NEW t \in Threads, Interrupt(t)
  PROVE  LimiterInv'
<1>1. NoThread \notin Threads /\ Horizon \in Nat /\ Jitter \in Nat
  BY LimiterAssumption
<1>2. /\ holder' = [h \in Hosts |-> IF holder[h] = t THEN NoThread ELSE holder[h]]
      /\ remaining' = [remaining EXCEPT ![t] = 0]
      /\ waiter' = [waiter EXCEPT ![t] = Out]
      /\ UNCHANGED <<elapsed, since>>
  BY DEF Interrupt
<1>3. Out \in Waiters /\ Out.at = "out"
  BY <1>1 DEF Out, Waiters
<1>4. LimiterTypeOK'
  BY <1>1, <1>2, <1>3 DEF LimiterInv, LimiterTypeOK
<1>5. LockDiscipline'
  BY <1>1, <1>2, <1>3 DEF LimiterInv, LimiterTypeOK, LockDiscipline
<1>6. SleepSuffices'
  BY <1>2, <1>3 DEF LimiterInv, LimiterTypeOK, SleepSuffices
<1> QED
  BY <1>4, <1>5, <1>6 DEF LimiterInv

LEMMA LeaveKeeps ==
  ASSUME LimiterInv, NEW t \in Threads, LeaveWait(t)
  PROVE  LimiterInv'
<1>1. /\ waiter[t].at = "granted"
      /\ waiter' = [waiter EXCEPT ![t] = Out]
      /\ UNCHANGED <<holder, elapsed, remaining, since>>
  BY DEF LeaveWait
<1>2. Out \in Waiters /\ Out.at = "out"
  BY LimiterAssumption DEF Out, Waiters
<1>3. LimiterTypeOK'
  BY <1>1, <1>2 DEF LimiterInv, LimiterTypeOK
<1>4. LockDiscipline'
  BY <1>1, <1>2 DEF LimiterInv, LimiterTypeOK, LockDiscipline
<1>5. SleepSuffices'
  BY <1>1, <1>2 DEF LimiterInv, LimiterTypeOK, SleepSuffices
<1> QED
  BY <1>3, <1>4, <1>5 DEF LimiterInv

\* Time: what a sleep loses, its host's clock gains (up to the horizon, which no
\* interval exceeds).
LEMMA PassTimeKeeps ==
  ASSUME LimiterInv, PassTime
  PROVE  LimiterInv'
<1>1. Horizon \in Nat /\ Jitter \in Nat
  BY LimiterAssumption
<1>2. /\ elapsed' = [h \in Hosts |-> AtMost(elapsed[h] + 1, Horizon)]
      /\ since' = [h \in Hosts |-> AtMost(since[h] + 1, Horizon)]
      /\ remaining' = [t \in Threads |->
           IF remaining[t] = 0 THEN 0 ELSE remaining[t] - 1]
      /\ UNCHANGED <<waiter, holder>>
  BY DEF PassTime
<1>3. LimiterTypeOK'
  BY <1>1, <1>2 DEF LimiterInv, LimiterTypeOK, AtMost
<1>4. LockDiscipline'
  BY <1>2 DEF LimiterInv, LockDiscipline
<1>5. SleepSuffices'
  <2>1. since' = elapsed'
    BY <1>2 DEF LimiterInv, SleepSuffices
  <2> SUFFICES ASSUME NEW t \in Threads, waiter[t].at = "sleep"
               PROVE  remaining'[t] + elapsed'[waiter[t].host] >= waiter[t].interval
    BY <1>2, <2>1 DEF LimiterInv, SleepSuffices
  <2> DEFINE h == waiter[t].host
  <2>2. /\ h \in Hosts /\ waiter[t].interval \in 0..Horizon
        /\ elapsed[h] \in 0..Horizon /\ remaining[t] \in 0..(Horizon + Jitter)
    BY DEF LimiterInv, LimiterTypeOK, Waiters
  <2>3. remaining[t] + elapsed[h] >= waiter[t].interval
    BY DEF LimiterInv, SleepSuffices
  <2>4. elapsed'[h] = IF elapsed[h] + 1 < Horizon THEN elapsed[h] + 1 ELSE Horizon
    BY <1>2, <2>2 DEF AtMost
  <2>5. remaining'[t] = IF remaining[t] = 0 THEN 0 ELSE remaining[t] - 1
    BY <1>2
  <2> QED
    BY <1>1, <2>2, <2>3, <2>4, <2>5
<1> QED
  BY <1>3, <1>4, <1>5 DEF LimiterInv

LEMMA StepInv == LimiterInv /\ [LimiterNext]_limiterVars => LimiterInv'
<1> SUFFICES ASSUME LimiterInv, [LimiterNext]_limiterVars
             PROVE  LimiterInv'
  OBVIOUS
<1>1. CASE \E t \in Threads, h \in Hosts, cd \in CrawlDelays : EnterWait(t, h, cd)
  BY <1>1, EnterKeeps
<1>2. CASE \E t \in Threads : TakeLock(t)
  BY <1>2, TakeLockKeeps
<1>3. CASE \E t \in Threads : Stamp(t)
  BY <1>3, StampKeeps
<1>4. CASE \E t \in Threads : Interrupt(t)
  BY <1>4, InterruptKeeps
<1>5. CASE \E t \in Threads : LeaveWait(t)
  BY <1>5, LeaveKeeps
<1>6. CASE PassTime
  BY <1>6, PassTimeKeeps
<1>7. CASE UNCHANGED limiterVars
  BY <1>7 DEF limiterVars, LimiterInv, LimiterTypeOK, LockDiscipline, SleepSuffices
<1> QED
  BY <1>1, <1>2, <1>3, <1>4, <1>5, <1>6, <1>7 DEF LimiterNext

\* The whole invariant holds in every reachable state, whatever the number of
\* threads and hosts and whatever the rates.
THEOREM LimiterInvariant == LimiterSpec => []LimiterInv
<1> QED
  BY InitInv, StepInv, PTL DEF LimiterSpec

\* No clock of the limiter leaves its range; no sleep is negative or longer than
\* interval and jitter together.
THEOREM LimiterTypes == LimiterSpec => []LimiterTypeOK
<1>1. LimiterInv => LimiterTypeOK
  BY DEF LimiterInv
<1> QED
  BY LimiterInvariant, <1>1, PTL

\* A host's lock is held by the thread that sleeps for the host and by nobody
\* else; an exception or a return never leaves it taken.
THEOREM LimiterLocks == LimiterSpec => []LockDiscipline
<1>1. LimiterInv => LockDiscipline
  BY DEF LimiterInv
<1> QED
  BY LimiterInvariant, <1>1, PTL

\* Whoever wakes up has slept what it had to: for every number of threads and
\* hosts, what is left of a sleep covers what is missing to the interval
\* (limiter.py:51-58).
THEOREM SleepsSuffice == LimiterSpec => []SleepSuffices
<1>1. LimiterInv => SleepSuffices
  BY DEF LimiterInv
<1> QED
  BY <1>1, LimiterInvariant, PTL

-----------------------------------------------------------------------------
\* Every host's part of the limiter implements a HostGate.

\* Who waits for host h, and for what: HostGate's asks under the mapping.
AsksOf(h) == [t \in Threads |-> IF Waiting(h, t) THEN waiter[t].interval ELSE NoDelay]

LEMMA GateInitial ==
  ASSUME LimiterInit, NEW h \in Hosts
  PROVE  Gate(h)!GateInit
<1>1. since[h] \in 0..Horizon
  BY DEF LimiterInit
<1>2. AsksOf(h) = [t \in Threads |-> NoDelay]
  BY DEF LimiterInit, AsksOf, Waiting, Out
<1> QED
  BY <1>1, <1>2 DEF Gate!GateInit, AsksOf

\* Entering wait() for h is asking h's gate, and nothing to the other gates.
LEMMA EnterIsAsk ==
  ASSUME LimiterInv, NEW h \in Hosts, NEW t \in Threads, NEW g \in Hosts,
         NEW cd \in CrawlDelays, EnterWait(t, g, cd)
  PROVE  Gate(h)!Ask(t) \/ UNCHANGED Gate(h)!gateVars
<1> DEFINE i == IntervalFor(g, cd)
<1>1. /\ i \in BaseInterval(g)..Horizon /\ i # NoDelay
  BY IntervalInRange, LimiterAssumption
<1>2. /\ waiter[t].at = "out"
      /\ waiter' = [waiter EXCEPT ![t] = [at |-> "lock", host |-> g, interval |-> i]]
      /\ UNCHANGED since
  BY DEF EnterWait
<1>3. AsksOf(h)[t] = NoDelay
  BY <1>2 DEF AsksOf, Waiting
<1>4. CASE g = h
  <2>1. AsksOf(h)' = [AsksOf(h) EXCEPT ![t] = i]
    BY <1>2, <1>4 DEF AsksOf, Waiting, LimiterInv, LimiterTypeOK
  <2> QED
    BY <1>1, <1>2, <1>3, <1>4, <2>1 DEF Gate!Ask, AsksOf
<1>5. CASE g # h
  <2>1. AsksOf(h)' = AsksOf(h)
    BY <1>2, <1>5 DEF AsksOf, Waiting, LimiterInv, LimiterTypeOK
  <2> QED
    BY <1>2, <2>1 DEF Gate!gateVars, AsksOf
<1> QED
  BY <1>4, <1>5

\* From the lock to the sleep a caller keeps asking.
LEMMA TakeLockIsNothing ==
  ASSUME LimiterInv, NEW h \in Hosts, NEW t \in Threads, TakeLock(t)
  PROVE  UNCHANGED Gate(h)!gateVars
<1>1. /\ waiter[t].at = "lock"
      /\ waiter' = [waiter EXCEPT ![t].at = "sleep"]
      /\ UNCHANGED since
  BY DEF TakeLock
<1>2. \A u \in Threads : /\ waiter'[u].host = waiter[u].host
                         /\ waiter'[u].interval = waiter[u].interval
                         /\ Waiting(h, u)' <=> Waiting(h, u)
  BY <1>1 DEF LimiterInv, LimiterTypeOK, Waiters, Waiting
<1>3. AsksOf(h)' = AsksOf(h)
  BY <1>2 DEF AsksOf
<1> QED
  BY <1>1, <1>3 DEF Gate!gateVars, AsksOf

\* The stamp is the admission, and SleepSuffices is why it is not too early.
LEMMA StampIsAdmit ==
  ASSUME LimiterInv, NEW h \in Hosts, NEW t \in Threads, Stamp(t)
  PROVE  Gate(h)!Admit(t) \/ UNCHANGED Gate(h)!gateVars
<1> DEFINE g == waiter[t].host
<1>1. /\ waiter[t].at = "sleep" /\ remaining[t] = 0
      /\ waiter' = [waiter EXCEPT ![t].at = "granted"]
      /\ since' = [since EXCEPT ![g] = 0]
  BY DEF Stamp
<1>2. /\ g \in Hosts /\ waiter[t].interval \in 0..Horizon /\ Horizon \in Nat
      /\ since[g] \in 0..Horizon /\ NoDelay \notin Nat
  BY <1>1, LimiterAssumption DEF LimiterInv, LimiterTypeOK, Waiters
<1>3. since[g] >= waiter[t].interval
  BY <1>1, <1>2 DEF LimiterInv, LimiterTypeOK, SleepSuffices
<1>4. \A u \in Threads \ {t} : waiter'[u] = waiter[u]
  BY <1>1 DEF LimiterInv, LimiterTypeOK
<1>5. ~Waiting(h, t)'
  BY <1>1 DEF LimiterInv, LimiterTypeOK, Waiters, Waiting
<1>6. CASE g = h
  <2>1. AsksOf(h)[t] = waiter[t].interval
    BY <1>1, <1>6 DEF AsksOf, Waiting
  <2>2. AsksOf(h)' = [AsksOf(h) EXCEPT ![t] = NoDelay]
    BY <1>4, <1>5 DEF AsksOf, Waiting
  <2>3. since'[h] = 0
    BY <1>1, <1>6 DEF LimiterInv, LimiterTypeOK
  <2>4. AsksOf(h)[t] # NoDelay /\ since[h] >= AsksOf(h)[t]
    BY <1>2, <1>3, <1>6, <2>1
  <2> QED
    BY <2>2, <2>3, <2>4 DEF Gate!Admit, AsksOf
<1>7. CASE g # h
  <2>1. AsksOf(h)' = AsksOf(h)
    BY <1>4, <1>5, <1>7 DEF AsksOf, Waiting
  <2>2. since'[h] = since[h]
    BY <1>1, <1>7 DEF LimiterInv, LimiterTypeOK
  <2> QED
    BY <2>1, <2>2 DEF Gate!gateVars, AsksOf
<1> QED
  BY <1>6, <1>7

LEMMA InterruptIsWithdraw ==
  ASSUME LimiterInv, NEW h \in Hosts, NEW t \in Threads, Interrupt(t)
  PROVE  Gate(h)!Withdraw(t) \/ UNCHANGED Gate(h)!gateVars
<1>1. /\ waiter[t].at \in {"lock", "sleep"}
      /\ waiter' = [waiter EXCEPT ![t] = Out]
      /\ UNCHANGED since
  BY DEF Interrupt
<1>2. /\ NoDelay \notin Nat /\ NoHost \notin Hosts
      /\ waiter[t].interval \in Nat
  BY LimiterAssumption DEF LimiterInv, LimiterTypeOK, Waiters
<1>3. \A u \in Threads \ {t} : waiter'[u] = waiter[u]
  BY <1>1 DEF LimiterInv, LimiterTypeOK
<1>4. ~Waiting(h, t)'
  BY <1>1 DEF LimiterInv, LimiterTypeOK, Waiting, Out
<1>5. CASE waiter[t].host = h
  <2>1. AsksOf(h)[t] # NoDelay
    BY <1>1, <1>2, <1>5 DEF AsksOf, Waiting
  <2>2. AsksOf(h)' = [AsksOf(h) EXCEPT ![t] = NoDelay]
    BY <1>3, <1>4 DEF AsksOf, Waiting
  <2> QED
    BY <1>1, <2>1, <2>2 DEF Gate!Withdraw, AsksOf
<1>6. CASE waiter[t].host # h
  <2>1. AsksOf(h)' = AsksOf(h)
    BY <1>3, <1>4, <1>6 DEF AsksOf, Waiting
  <2> QED
    BY <1>1, <2>1 DEF Gate!gateVars, AsksOf
<1> QED
  BY <1>5, <1>6

LEMMA LeaveIsNothing ==
  ASSUME LimiterInv, NEW h \in Hosts, NEW t \in Threads, LeaveWait(t)
  PROVE  UNCHANGED Gate(h)!gateVars
<1>1. /\ waiter[t].at = "granted"
      /\ waiter' = [waiter EXCEPT ![t] = Out]
      /\ UNCHANGED since
  BY DEF LeaveWait
<1>2. AsksOf(h)' = AsksOf(h)
  BY <1>1 DEF LimiterInv, LimiterTypeOK, AsksOf, Waiting, Out
<1> QED
  BY <1>1, <1>2 DEF Gate!gateVars, AsksOf

LEMMA PassTimeIsTick ==
  ASSUME LimiterInv, NEW h \in Hosts, PassTime
  PROVE  Gate(h)!GateTick \/ UNCHANGED Gate(h)!gateVars
<1>1. /\ since'[h] = IF since[h] + 1 < Horizon THEN since[h] + 1 ELSE Horizon
      /\ UNCHANGED waiter
  BY DEF PassTime, AtMost
<1>2. since[h] \in 0..Horizon /\ Horizon \in Nat
  BY LimiterAssumption DEF LimiterInv, LimiterTypeOK
<1>3. AsksOf(h)' = AsksOf(h)
  BY <1>1 DEF AsksOf, Waiting
<1>4. CASE since[h] < Horizon
  BY <1>1, <1>2, <1>3, <1>4 DEF Gate!GateTick, AsksOf
<1>5. CASE since[h] = Horizon
  BY <1>1, <1>2, <1>3, <1>5 DEF Gate!gateVars, AsksOf
<1> QED
  BY <1>2, <1>4, <1>5

LEMMA StepIsGateStep ==
  ASSUME LimiterInv, [LimiterNext]_limiterVars, NEW h \in Hosts
  PROVE  [Gate(h)!GateNext]_(Gate(h)!gateVars)
<1>1. ASSUME NEW t \in Threads, NEW g \in Hosts, NEW cd \in CrawlDelays,
             EnterWait(t, g, cd)
      PROVE  [Gate(h)!GateNext]_(Gate(h)!gateVars)
  BY <1>1, EnterIsAsk DEF Gate!GateNext
<1>2. ASSUME NEW t \in Threads, TakeLock(t)
      PROVE  [Gate(h)!GateNext]_(Gate(h)!gateVars)
  BY <1>2, TakeLockIsNothing
<1>3. ASSUME NEW t \in Threads, Stamp(t)
      PROVE  [Gate(h)!GateNext]_(Gate(h)!gateVars)
  BY <1>3, StampIsAdmit DEF Gate!GateNext
<1>4. ASSUME NEW t \in Threads, Interrupt(t)
      PROVE  [Gate(h)!GateNext]_(Gate(h)!gateVars)
  BY <1>4, InterruptIsWithdraw DEF Gate!GateNext
<1>5. ASSUME NEW t \in Threads, LeaveWait(t)
      PROVE  [Gate(h)!GateNext]_(Gate(h)!gateVars)
  BY <1>5, LeaveIsNothing
<1>6. CASE PassTime
  BY <1>6, PassTimeIsTick DEF Gate!GateNext
<1>7. CASE UNCHANGED limiterVars
  BY <1>7 DEF limiterVars, Gate!gateVars, Waiting
<1> QED
  BY <1>1, <1>2, <1>3, <1>4, <1>5, <1>6, <1>7 DEF LimiterNext

\* Whatever the interleaving, at every host callers are let through one at a
\* time, each at least its own interval after the one before.
THEOREM LimiterImplementsGates == LimiterSpec => GatesImplemented
<1>1. LimiterInit => \A h \in Hosts : Gate(h)!GateInit
  BY GateInitial
<1>2. LimiterInv /\ [LimiterNext]_limiterVars
        => [\A h \in Hosts : [Gate(h)!GateNext]_(Gate(h)!gateVars)]_limiterVars
  BY StepIsGateStep
<1> QED
  BY LimiterInvariant, <1>1, <1>2, PTL DEF LimiterSpec, GatesImplemented
=============================================================================
