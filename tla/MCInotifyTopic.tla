---------------------------- MODULE MCInotifyTopic ----------------------------
(* One subscriber, and the publishers of one process.                        *)
EXTENDS InotifyTopic

CONSTANTS h1, p1, p2

OneHost == [p \in Pub |-> h1]
MCName == Proc \X (0 .. MaxFd)

\* Everybody is the same user.
AnyProcess == Sub \X Proc \X (1 .. MaxBoots)

\* The second process of a pid is another user's.
OthersBetween == {t \in AnyProcess : t[3] # 2}
=============================================================================
