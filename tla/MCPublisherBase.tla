--------------------------- MODULE MCPublisherBase ---------------------------
(* Publishers of one process, built and destroyed by threads of their own.   *)
EXTENDS PublisherBase, TLC

CONSTANTS h1, p1, p2

MCHost == [p \in Pub |-> h1]
BothThreads == Permutations(Pub)
MCName == Proc \X (0 .. MaxFd)
=============================================================================
