----------------------------- MODULE WireClock ------------------------------
(***************************************************************************)
(* PoliteClient with a clock at the other end of the line: wire[h] is the  *)
(* time since a request last reached host h, at most Horizon.  The limiter *)
(* stamps a host when wait() lets a caller through, not when the request   *)
(* goes out; connecting, and the thread's turn on the CPU, lie in between. *)
(***************************************************************************)
EXTENDS MCPoliteClient

VARIABLE wire

wireVars == <<clientVars, wire>>

\* Nothing was requested yet.
WireInit == ClientInit /\ wire = [h \in Hosts |-> Horizon]

Arrives(h) == \E t \in Threads : Sends(t) /\ HostOf[call[t].origin] = h

WireNext ==
  /\ ClientNext
  /\ wire' = [h \in Hosts |->
       IF Arrives(h) THEN 0
       ELSE IF Tick /\ wire[h] < Horizon THEN wire[h] + 1
       ELSE wire[h]]

WireSpec == WireInit /\ [][WireNext]_wireVars

\* "Enforces a minimum interval between requests to the same host"
\* (limiter.py:19): requests reach a host at least its configured interval
\* apart.
WireSpacing ==
  [][\A h \in Hosts : Arrives(h) => wire[h] >= Limiter!BaseInterval(h)]_wireVars
=============================================================================
