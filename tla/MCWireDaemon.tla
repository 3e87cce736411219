---------------------------- MODULE MCWireDaemon ----------------------------
(* A wire to a tunnel, with overlapping wire calls or overlapping endpoint *)
(* calls, and a wire between a pod and a server.                           *)
EXTENDS WireDaemon
CONSTANTS a, b, e1, e2, w1, w2

MCPlacements ==
    {[ends |-> <<a, Tunnel>>, calls |-> {e1, w1, w2}],
     [ends |-> <<Tunnel, a>>, calls |-> {e1, e2, w1}],
     [ends |-> <<a, b>>, calls |-> {e1, w1}]}
============================================================================
