---------------------------- MODULE MCVxlanIndex ----------------------------
(* Model values for TLC's instance of VxlanIndex. *)
EXTENDS VxlanIndex

CONSTANTS o1, o2, o3, i1, i2

\* A Link that keeps asking for a wire gets an id unless the other Links have
\* them all.  Owners are interchangeable, so one of them stands for all.
LinkIsServed == Served(o3)

============================================================================
