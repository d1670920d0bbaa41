---------------------------- MODULE MCLegacyNode ----------------------------
(***************************************************************************)
(* Bounds for LegacyNode: the pid of one process begins like the other's.   *)
(***************************************************************************)
EXTENDS LegacyNode

CONSTANTS h1, h2,      \* pids 1 and 12
          p1, p2       \* publishers of h2; the process of h1 has a Node only

MCSpelling == [h \in Proc |-> IF h = h2 THEN <<1, 2>> ELSE <<1>>]
MCHost == [p \in Pub |-> h2]
MCSeparator == -1
=============================================================================
