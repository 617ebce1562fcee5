------------------------------ MODULE HostGate ------------------------------
(***************************************************************************)
(* What the rate limiter promises about ONE host, with no locks, sleeps or *)
(* timestamps in sight: callers ask to be let through, each with the       *)
(* interval it has to respect, and are let through one at a time, each at  *)
(* least its own interval after the one before.  RateLimiter implements a  *)
(* gate of its own for every host.                                         *)
(***************************************************************************)
EXTENDS Naturals

\* Floor and Horizon are naturals, NotAsking is not one: RateLimiter, which gives
\* them their values, assumes so.
CONSTANTS
  Callers,    \* who may ask
  NotAsking,  \* the "interval" of a caller that asks for nothing
  Floor,      \* the interval configured for the host: nobody may ask for less
  Horizon     \* times at or beyond this are not told apart

VARIABLES
  asks,       \* asks[c]: the interval c waits for, or NotAsking
  since       \* time since somebody was last let through, at most Horizon

gateVars == <<asks, since>>

GateTypeOK ==
  /\ asks \in [Callers -> Floor..Horizon \cup {NotAsking}]
  /\ since \in 0..Horizon

GateInit ==
  /\ asks = [c \in Callers |-> NotAsking]
  /\ since \in 0..Horizon

Ask(c) ==
  /\ asks[c] = NotAsking
  /\ \E i \in Floor..Horizon : asks' = [asks EXCEPT ![c] = i]
  /\ UNCHANGED since

\* The one promise: nobody is let through before its own interval has passed.
Admit(c) ==
  /\ asks[c] # NotAsking
  /\ since >= asks[c]
  /\ asks' = [asks EXCEPT ![c] = NotAsking]
  /\ since' = 0

\* An exception takes a caller out of the queue; it was not let through.
Withdraw(c) ==
  /\ asks[c] # NotAsking
  /\ asks' = [asks EXCEPT ![c] = NotAsking]
  /\ UNCHANGED since

GateTick ==
  /\ since < Horizon
  /\ since' = since + 1
  /\ UNCHANGED asks

GateNext ==
  \/ \E c \in Callers : Ask(c) \/ Admit(c) \/ Withdraw(c)
  \/ GateTick

\* As long as anybody asks, somebody is let through (or gives up): the queue
\* as a whole never comes to a stand.  This is WF_gateVars(some Admit or
\* Withdraw) with its ENABLED written out.
GateLiveness ==
  \/ []<>(\A c \in Callers : asks[c] = NotAsking)
  \/ []<><<\E c \in Callers : Admit(c) \/ Withdraw(c)>>_gateVars

GateSafety == GateInit /\ [][GateNext]_gateVars
GateSpec == GateSafety /\ GateLiveness
=============================================================================
