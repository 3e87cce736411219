---------------------------- MODULE MCGrpcServer ----------------------------
(* An instance of GrpcServer for TLC: two clients, one of which opens two    *)
(* wire watches on its connection, and fewer permits than calls.             *)
EXTENDS GrpcServer

CONSTANTS u1, w1, w2, e1, h1, a1, a2

MCAddrOf == [c \in Calls |-> IF c \in {w1, w2, e1} THEN a1 ELSE a2]
============================================================================
