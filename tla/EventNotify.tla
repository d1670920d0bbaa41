------------------------------ MODULE EventNotify ------------------------------
(***************************************************************************)
(* dps::Event: an eventfd in semaphore mode that is raised and lowered by   *)
(* every notify(), and the edge-triggered epoll waiters it is meant for     *)
(* (apps/epoll_dma_buffer.cpp, experiments/sync/eventfd_read.py), which     *)
(* never read it.  Its descriptor travels to other processes in the info    *)
(* buffer, so several threads may be in notify() at once, and one may be    *)
(* killed between the write and the read.                                   *)
(***************************************************************************)
EXTENDS Naturals, FiniteSets

CONSTANTS Notifier,  \* the threads that call notify()
          Waiter     \* the threads in epoll_wait(EPOLLIN | EPOLLET)

ASSUME NotifierAssumption == IsFiniteSet(Notifier)

VARIABLES opened,    \* eventfd() succeeded: event_fd is not -1
          counter,   \* the eventfd's count
          npc,       \* where each notifier is
          ready,     \* the waiters with the event on their epoll ready list
          woken      \* the waiters whose epoll_wait has returned it

vars == <<opened, counter, npc, ready, woken>>

TypeOK ==
  /\ opened \in BOOLEAN
  /\ counter \in Nat
  /\ npc \in [Notifier -> {"idle", "read", "killed"}]
  /\ ready \in SUBSET Waiter
  /\ woken \in SUBSET Waiter

\* Event::Event(), which does not look at what eventfd() returned.
Init ==
  /\ opened \in BOOLEAN
  /\ counter = 0
  /\ npc = [n \in Notifier |-> "idle"]
  /\ ready = {}
  /\ woken = {}
-----------------------------------------------------------------------------
\* notify(): eventfd_write(1), which puts the event on every ready list.
Write(n) ==
  /\ npc[n] = "idle"
  /\ IF opened THEN counter' = counter + 1 /\ ready' = Waiter
               ELSE UNCHANGED <<counter, ready>>
  /\ npc' = [npc EXCEPT ![n] = "read"]
  /\ UNCHANGED <<opened, woken>>

\* Mutant: without EFD_SEMAPHORE a read takes the whole count.
ReadAll(n) ==
  /\ npc[n] = "read"
  /\ IF opened THEN counter > 0 /\ counter' = 0 ELSE UNCHANGED counter
  /\ npc' = [npc EXCEPT ![n] = "idle"]
  /\ UNCHANGED <<opened, ready, woken>>

\* Mutant: the count is never taken back.
ReadNothing(n) ==
  /\ npc[n] = "read"
  /\ npc' = [npc EXCEPT ![n] = "idle"]
  /\ UNCHANGED <<opened, counter, ready, woken>>

\* notify(): eventfd_read, which would wait for a positive count.
Read(n) ==
  /\ npc[n] = "read"
  /\ IF opened THEN counter > 0 /\ counter' = counter - 1 ELSE UNCHANGED counter
  /\ npc' = [npc EXCEPT ![n] = "idle"]
  /\ UNCHANGED <<opened, ready, woken>>

Killed(n) ==
  /\ npc[n] = "read"
  /\ npc' = [npc EXCEPT ![n] = "killed"]
  /\ UNCHANGED <<opened, counter, ready, woken>>

\* epoll_wait looks at the event itself once more: it is returned only if the
\* count is still positive, and forgotten otherwise.
EpollWait(w) ==
  /\ w \in ready \ woken
  /\ ready' = ready \ {w}
  /\ woken' = IF counter > 0 THEN woken \union {w} ELSE woken
  /\ UNCHANGED <<opened, counter, npc>>

\* The waiter handles what it was woken for and waits again.
WaitAgain(w) ==
  /\ w \in woken
  /\ woken' = woken \ {w}
  /\ UNCHANGED <<opened, counter, npc, ready>>

Next ==
  \/ \E n \in Notifier : Write(n) \/ Read(n) \/ Killed(n)
  \/ \E w \in Waiter : EpollWait(w) \/ WaitAgain(w)

Spec == Init /\ [][Next]_vars

\* A thread in notify() is scheduled until it returns.
FairSpec == Spec /\ \A n \in Notifier : WF_vars(Read(n))
-----------------------------------------------------------------------------
\* The notifiers whose write is not taken back yet.
Raised == {n \in Notifier : npc[n] # "idle"}

(* The count is exactly the number of notify() calls between write and read, *)
(* those of killed threads included (event.cpp:8-9 and 23-24 together).      *)
CountsRaised == counter = IF opened THEN Cardinality(Raised) ELSE 0

(* No call of notify() waits in its read, whatever the other threads do      *)
(* (event.cpp:24 on a blocking eventfd).                                     *)
ReadNeverBlocks == \A n \in Notifier : npc[n] = "read" /\ opened => counter > 0

(* Every notify() returns, unless its thread is killed.                      *)
NotifyReturns == \A n \in Notifier : npc[n] = "read" ~> npc[n] # "read"

(* epoll_wait returns only for a notify() in progress, or cut short by a     *)
(* kill: a pulse that is over leaves no event behind (event.cpp:24).         *)
WokenOnlyWhileRaised ==
  [][\A w \in Waiter : w \notin woken /\ w \in woken' => Raised # {}]_vars
=============================================================================
