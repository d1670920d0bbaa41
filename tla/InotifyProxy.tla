---------------------------- MODULE InotifyProxy ----------------------------
(***************************************************************************)
(* experiments/linux_proxy and the scripts that watch a directory with it. *)
(* The scripts hand epoll the WATCH descriptor instead of the inotify      *)
(* descriptor: number 1 as a file descriptor is the standard output, so    *)
(* that it is the terminal that wakes them, and inotify_event_read() must  *)
(* find by itself whether there is anything to read.                       *)
(***************************************************************************)
EXTENDS Naturals, Sequences

CONSTANTS
  Files,      \* names in the directory
  MaxEvents   \* bound on what happens

ASSUME BoundIsNatural == MaxEvents \in Nat

VARIABLES
  present,    \* the files there are
  watched,    \* inotify_add_watch() is done
  happened,   \* history: the events of the directory since then, in order
  queue,      \* those of the inotify descriptor that are not read
  pc,         \* "watch", "poll", then in inotify_event_read(): "count", "read", "walk"
  room,       \* what FIONREAD has said: how many events the buffer has room for
  buffer,     \* the events read that the loop has not passed
  printed     \* history: what the loop has printed

proxyVars == <<present, watched, happened, queue, pc, room, buffer, printed>>

ProxyInit ==
  /\ present \in SUBSET Files /\ watched = FALSE
  /\ happened = <<>> /\ queue = <<>> /\ buffer = <<>> /\ printed = <<>>
  /\ pc = "watch" /\ room = 0

\* External: a file is made or removed, and the kernel queues the event if there is a watch.
Change(f) ==
  LET event == [mask |-> IF f \in present THEN "IN_DELETE" ELSE "IN_CREATE", name |-> f]
  IN
  /\ Len(happened) < MaxEvents
  /\ present' = IF f \in present THEN present \ {f} ELSE present \union {f}
  /\ happened' = IF watched THEN Append(happened, event) ELSE happened
  /\ queue' = IF watched THEN Append(queue, event) ELSE queue
  /\ UNCHANGED <<watched, pc, room, buffer, printed>>

inotify_add_watch ==
  /\ pc = "watch" /\ pc' = "poll" /\ watched' = TRUE
  /\ UNCHANGED <<present, happened, queue, room, buffer, printed>>

\* event.poll() returns for the terminal, which can always be written to (register() without a
\* mask asks for that too); the directory has no part in it.
poll ==
  /\ pc = "poll" /\ pc' = "count"
  /\ UNCHANGED <<present, watched, happened, queue, room, buffer, printed>>

\* Mutant: one event less than there are.
CountLess ==
  /\ pc = "count" /\ room' = (IF queue = <<>> THEN 0 ELSE Len(queue) - 1)
  /\ pc' = IF room' = 0 THEN "poll" ELSE "read"
  /\ UNCHANGED <<present, watched, happened, queue, buffer, printed>>

\* Mutant: an empty queue is read as well.
CountNone ==
  /\ pc = "count" /\ room' = Len(queue) /\ pc' = "read"
  /\ UNCHANGED <<present, watched, happened, queue, buffer, printed>>

\* ioctl(FIONREAD): with nothing to read the call returns.
Count ==
  /\ pc = "count" /\ room' = Len(queue)
  /\ pc' = IF queue = <<>> THEN "poll" ELSE "read"
  /\ UNCHANGED <<present, watched, happened, queue, buffer, printed>>

\* Mutant: the buffer is flushed: what came after FIONREAD is lost.
ReadFlushes ==
  /\ pc = "read" /\ queue # <<>>
  /\ buffer' = SubSeq(queue, 1, room) /\ queue' = <<>> /\ pc' = "walk"
  /\ UNCHANGED <<present, watched, happened, room, printed>>

\* read(fd, buffer, room) waits for an event, and takes those that fit.
read ==
  /\ pc = "read" /\ queue # <<>>
  /\ LET taken == IF room < Len(queue) THEN room ELSE Len(queue)
     IN  buffer' = SubSeq(queue, 1, taken) /\ queue' = SubSeq(queue, taken + 1, Len(queue))
  /\ pc' = "walk"
  /\ UNCHANGED <<present, watched, happened, room, printed>>

\* The loop prints an event; with none left the call returns.  The mask holds no event of the
\* directory itself, so that IN_DELETE_SELF never comes.
Walk ==
  /\ pc = "walk"
  /\ IF buffer = <<>>
     THEN pc' = "poll" /\ UNCHANGED <<buffer, printed>>
     ELSE buffer' = Tail(buffer) /\ printed' = Append(printed, Head(buffer)) /\ pc' = pc
  /\ UNCHANGED <<present, watched, happened, queue, room>>

Script == inotify_add_watch \/ poll \/ Count \/ read \/ Walk
ProxyNext == Script \/ (\E f \in Files : Change(f))

\* The script is scheduled; files need not change.
ProxySpec == ProxyInit /\ [][ProxyNext]_proxyVars /\ WF_proxyVars(Script)

-----------------------------------------------------------------------------
\* The last event of a file is the k-th one.
LastOf(f, k) == happened[k].name = f /\ \A l \in k + 1 .. Len(happened) : happened[l].name # f

(* However many events come between FIONREAD and read(), each is printed once and in order: what
   is printed, in the buffer and queued is what happened, and the files are those it leaves. *)
EachEventOnce ==
  /\ happened = printed \o buffer \o queue
  /\ \A f \in Files, k \in 1 .. Len(happened) :
       LastOf(f, k) => (f \in present <=> happened[k].mask = "IN_CREATE")

(* read() is called only when it need not wait: the script is never stuck in it while epoll would
   have had something to tell. *)
ReadNeverWaits == pc = "read" => 0 < room /\ room <= Len(queue)

(* Every event is printed at last, although epoll watches the wrong descriptor. *)
EventsArePrinted == [](\A i \in 1 .. MaxEvents : i <= Len(happened) => <>(i <= Len(printed)))

\* Why these hold: buffer is empty outside the loop, and nothing is taken from the queue between
\* FIONREAD and read().
Event == [mask : {"IN_CREATE", "IN_DELETE"}, name : Files]

QueueInv ==
  /\ present \subseteq Files /\ watched \in BOOLEAN /\ room \in Nat
  /\ {happened, queue, buffer, printed} \subseteq Seq(Event)
  /\ ~watched => happened = <<>> /\ queue = <<>>
  /\ pc # "walk" => buffer = <<>>

ProxyInv == QueueInv /\ EachEventOnce /\ ReadNeverWaits
=============================================================================
