---------------------------- MODULE PublisherBase ----------------------------
(***************************************************************************)
(* dps::PublisherBase with the DMABuffers and the Event it owns: the steps  *)
(* of its constructor and of its destructor, the descriptor table of the    *)
(* process it lives in, and the info file that makes the descriptors known  *)
(* to other processes.  A process may host several publishers, each built   *)
(* and destroyed by a thread of its own; it may exit in the middle, and a   *)
(* new process may be given its pid.                                        *)
(*                                                                          *)
(* A publisher is one object, built at most once.  Its buffers are numbered *)
(* 0 .. QueueSize: dma_buffers, then publisher_info_buffer as QueueSize.    *)
(***************************************************************************)
EXTENDS TopicDirectory, Integers

CONSTANTS Proc,        \* the pids
          Pub,         \* the publishers of the topic
          Host,        \* the pid of the process each publisher is built in
          QueueSize,   \* queue_size
          MaxFd,       \* bound: descriptors are 0 .. MaxFd (RLIMIT_NOFILE)
          Inherited,   \* the descriptors a process starts with (stdin, ...)
          Free,        \* an unused descriptor
          Foreign,     \* an inherited descriptor
          Blank,       \* an info buffer nothing was written to
          Privileged,  \* the publishers ignore file permissions (root)
          MayCrash,    \* a process may exit with publishers in it
          Threaded,    \* publishers of a process are used by concurrent threads
          MaxBoots     \* bound: how many processes get the same pid

ASSUME HostAssumption == Host \in [Pub -> Proc]
ASSUME SizeAssumption == QueueSize \in Nat /\ MaxFd \in Nat /\ MaxBoots \in Nat \ {0}
ASSUME InheritedAssumption == Inherited \subseteq 0 .. MaxFd
ASSUME FlagAssumption == {Privileged, MayCrash, Threaded} \subseteq BOOLEAN
ASSUME NameAssumption == Name = Proc \X (0 .. MaxFd)

VARIABLES alive,      \* the pids in use
          boot,       \* how many processes had this pid so far
          fds,        \* the descriptor table of each process
          pc,         \* where each publisher is
          queue_id,   \* the buffer it is building or resetting
          heap_fd,    \* DMABuffer::allocate's open heap
          buffer_fd,  \* the descriptor of each buffer, -1 when there is none
          event_fd,   \* Event::event_fd
          file_fd,    \* publisher_info_file_fd, kept after it is closed
          info        \* what the info buffer says

procVars == <<alive, boot, fds>>
pubVars == <<pc, queue_id, heap_fd, buffer_fd, event_fd, file_fd, info>>
vars == <<dirVars, procVars, pubVars>>

Fd == 0 .. MaxFd
FdOrNone == Fd \union {-1}
Slot == 0 .. QueueSize

\* What a descriptor of a publisher refers to.  Only buffers carry a number.
Object == {"heap", "event", "file", "buffer"} \X Pub \X Slot
HeapOf(p) == <<"heap", p, 0>>
EventOf(p) == <<"event", p, 0>>
FileOf(p) == <<"file", p, 0>>
BufferOf(p, i) == <<"buffer", p, i>>

ASSUME SentinelAssumption == Free \notin Object /\ Foreign \notin Object /\ Free # Foreign

Info == [event_fd : FdOrNone, dma_buff_fd : [0 .. QueueSize - 1 -> FdOrNone]]
ASSUME BlankAssumption == Blank \notin Info

Step == {"idle", "open_heap", "allocate", "update_buffer_info", "create_event",
         "fill_info", "open_file", "close_file", "running", "reset_info",
         "reset_buffers", "reset_event", "destroyed", "exiting", "killed"}

TypeOK ==
  /\ DirTypeOK
  /\ alive \in SUBSET Proc
  /\ boot \in [Proc -> 1 .. MaxBoots]
  /\ fds \in [Proc -> [Fd -> Object \union {Free, Foreign}]]
  /\ pc \in [Pub -> Step]
  /\ queue_id \in [Pub -> Slot]
  /\ heap_fd \in [Pub -> FdOrNone]
  /\ buffer_fd \in [Pub -> [Slot -> FdOrNone]]
  /\ event_fd \in [Pub -> FdOrNone]
  /\ file_fd \in [Pub -> FdOrNone]
  /\ info \in [Pub -> Info \union {Blank}]

Baseline == [fd \in Fd |-> IF fd \in Inherited THEN Foreign ELSE Free]

Init ==
  /\ DirInit
  /\ alive = Proc
  /\ boot = [h \in Proc |-> 1]
  /\ fds = [h \in Proc |-> Baseline]
  /\ pc = [p \in Pub |-> "idle"]
  /\ queue_id = [p \in Pub |-> 0]
  /\ heap_fd = [p \in Pub |-> -1]
  /\ buffer_fd = [p \in Pub |-> [i \in Slot |-> -1]]
  /\ event_fd = [p \in Pub |-> -1]
  /\ file_fd = [p \in Pub |-> -1]
  /\ info = [p \in Pub |-> Blank]
-----------------------------------------------------------------------------
(* Descriptors: the kernel hands out the lowest free one. *)
Full(h) == \A fd \in Fd : fds[h][fd] # Free
LowestFree(h, fd) == fds[h][fd] = Free /\ \A lower \in 0 .. fd - 1 : fds[h][lower] # Free

Opened(p, fd, object) == fds' = [fds EXCEPT ![Host[p]][fd] = object]
Closed(p, fd) == fds' = [fds EXCEPT ![Host[p]][fd] = Free]

At(p, step) == Host[p] \in alive /\ pc[p] = step
GoTo(p, step) == pc' = [pc EXCEPT ![p] = step]

\* Mutant: the name says the event's descriptor.
InfoNameOfEvent(p) == <<Host[p], event_fd[p]>>

\* The pair of numbers in the name of a publisher's info file.
InfoName(p) == <<Host[p], buffer_fd[p][QueueSize]>>
-----------------------------------------------------------------------------
(* A process ends: by returning from main when its publishers are destroyed, *)
(* or, with MayCrash, anywhere (a signal, exit, a failed allocation).  No    *)
(* destructor runs and no file is removed; the kernel closes the descriptors,*)
(* the info file of a publisher that was about to close it a little later.   *)
Exit(h) ==
  /\ h \in alive
  /\ alive' = alive \ {h}
  /\ fds' = [fds EXCEPT ![h] = [fd \in Fd |-> Free]]
  /\ pc' = [p \in Pub |->
              IF Host[p] # h \/ pc[p] \in {"idle", "destroyed", "exiting", "killed"} THEN pc[p]
              ELSE IF pc[p] = "close_file" /\ file_fd[p] # -1 THEN "exiting"
              ELSE "killed"]
  /\ UNCHANGED <<dirVars, boot, queue_id, heap_fd, buffer_fd, event_fd, file_fd, info>>

ProcessExits(h) ==
  /\ MayCrash \/ \A p \in Pub : Host[p] = h => pc[p] \in {"idle", "destroyed", "killed"}
  /\ Exit(h)

KernelClosesFile(p) ==
  /\ pc[p] = "exiting"
  /\ CloseFile(InfoName(p))
  /\ GoTo(p, "killed")
  /\ UNCHANGED <<procVars, queue_id, heap_fd, buffer_fd, event_fd, file_fd, info>>

Boot(h) ==
  /\ h \notin alive
  /\ boot[h] < MaxBoots
  /\ \A p \in Pub : Host[p] = h => pc[p] # "exiting"
  /\ alive' = alive \union {h}
  /\ boot' = [boot EXCEPT ![h] = @ + 1]
  /\ fds' = [fds EXCEPT ![h] = Baseline]
  /\ UNCHANGED <<dirVars, pubVars>>
-----------------------------------------------------------------------------
\* A process without threads is in one constructor or destructor at a time.
MayEnter(p) ==
  Threaded \/ \A q \in Pub \ {p} :
               Host[q] = Host[p] => pc[q] \in {"idle", "running", "destroyed", "killed"}

(* The constructor. *)
InitTopicPath(p) ==
  /\ At(p, "idle")
  /\ MayEnter(p)
  /\ MakeDirectories
  /\ GoTo(p, IF QueueSize > 0 THEN "open_heap" ELSE "create_event")
  /\ UNCHANGED <<procVars, queue_id, heap_fd, buffer_fd, event_fd, file_fd, info>>

OpenHeap(p) ==
  /\ At(p, "open_heap")
  /\ \E fd \in Fd :
       /\ LowestFree(Host[p], fd)
       /\ Opened(p, fd, HeapOf(p))
       /\ heap_fd' = [heap_fd EXCEPT ![p] = fd]
  /\ GoTo(p, "allocate")
  /\ UNCHANGED <<dirVars, alive, boot, queue_id, buffer_fd, event_fd, file_fd, info>>

\* Mutant: the heap stays open.
AllocateKeepsHeap(p) ==
  /\ At(p, "allocate")
  /\ \E fd \in Fd :
       /\ LowestFree(Host[p], fd)
       /\ Opened(p, fd, BufferOf(p, queue_id[p]))
       /\ buffer_fd' = [buffer_fd EXCEPT ![p][queue_id[p]] = fd]
  /\ heap_fd' = [heap_fd EXCEPT ![p] = -1]
  /\ GoTo(p, "update_buffer_info")
  /\ UNCHANGED <<dirVars, alive, boot, queue_id, event_fd, file_fd, info>>

\* The buffer takes a descriptor while the heap still holds its own.
Allocate(p) ==
  /\ At(p, "allocate")
  /\ \E fd \in Fd :
       /\ LowestFree(Host[p], fd)
       /\ fds' = [fds EXCEPT ![Host[p]][fd] = BufferOf(p, queue_id[p]),
                             ![Host[p]][heap_fd[p]] = Free]
       /\ buffer_fd' = [buffer_fd EXCEPT ![p][queue_id[p]] = fd]
  /\ heap_fd' = [heap_fd EXCEPT ![p] = -1]
  /\ GoTo(p, "update_buffer_info")
  /\ UNCHANGED <<dirVars, alive, boot, queue_id, event_fd, file_fd, info>>

\* Reading /proc/self/fdinfo takes a descriptor for a moment.  The event is
\* created between the last message buffer and the info buffer.
UpdateBufferInfo(p) ==
  /\ At(p, "update_buffer_info")
  /\ ~Full(Host[p])
  /\ queue_id' = [queue_id EXCEPT ![p] = IF @ < QueueSize THEN @ + 1 ELSE @]
  /\ GoTo(p, IF queue_id[p] = QueueSize THEN "fill_info"
             ELSE IF queue_id[p] = QueueSize - 1 THEN "create_event"
             ELSE "open_heap")
  /\ UNCHANGED <<dirVars, procVars, heap_fd, buffer_fd, event_fd, file_fd, info>>

\* No descriptor for the heap, the buffer or fdinfo: raise(SIGSEGV).
AllocationRaises(p) ==
  /\ pc[p] \in {"open_heap", "allocate", "update_buffer_info"}
  /\ Full(Host[p])
  /\ Exit(Host[p])

\* eventfd()'s failure goes unnoticed and leaves -1.
CreateEvent(p) ==
  /\ At(p, "create_event")
  /\ \/ \E fd \in Fd :
          /\ LowestFree(Host[p], fd)
          /\ Opened(p, fd, EventOf(p))
          /\ event_fd' = [event_fd EXCEPT ![p] = fd]
     \/ Full(Host[p]) /\ UNCHANGED <<fds, event_fd>>
  /\ GoTo(p, "open_heap")
  /\ UNCHANGED <<dirVars, alive, boot, queue_id, heap_fd, buffer_fd, file_fd, info>>

FillInfo(p) ==
  /\ At(p, "fill_info")
  /\ info' = [info EXCEPT ![p] =
                [event_fd |-> event_fd[p],
                 dma_buff_fd |-> [i \in 0 .. QueueSize - 1 |-> buffer_fd[p][i]]]]
  /\ GoTo(p, "open_file")
  /\ UNCHANGED <<dirVars, procVars, queue_id, heap_fd, buffer_fd, event_fd, file_fd>>

\* open(O_WRONLY | O_CREAT, DPS_FILE_PERMISSION), whose failure goes unnoticed:
\* the directory may be gone, the table full, or a file of that name left by a
\* process that had this pid, which only root may open.
MayOpenFile(p) ==
  /\ dir
  /\ InfoName(p) \in files => Privileged
  /\ ~Full(Host[p])

OpenInfoFile(p) ==
  /\ At(p, "open_file")
  /\ \/ \E fd \in Fd :
          /\ MayOpenFile(p)
          /\ LowestFree(Host[p], fd)
          /\ CreateFile(InfoName(p))
          /\ Opened(p, fd, FileOf(p))
          /\ file_fd' = [file_fd EXCEPT ![p] = fd]
     \/ ~MayOpenFile(p) /\ UNCHANGED <<dirVars, fds, file_fd>>
  /\ GoTo(p, "close_file")
  /\ UNCHANGED <<alive, boot, queue_id, heap_fd, buffer_fd, event_fd, info>>

\* Mutant: the file was open for reading, so closing it makes no event.
CloseInfoFileQuietly(p) ==
  /\ At(p, "close_file")
  /\ IF file_fd[p] # -1 THEN Closed(p, file_fd[p]) ELSE UNCHANGED fds
  /\ GoTo(p, "running")
  /\ UNCHANGED <<dirVars, alive, boot, queue_id, heap_fd, buffer_fd, event_fd, file_fd, info>>

CloseInfoFile(p) ==
  /\ At(p, "close_file")
  /\ IF file_fd[p] # -1
     THEN Closed(p, file_fd[p]) /\ CloseFile(InfoName(p))
     ELSE UNCHANGED <<dirVars, fds>>
  /\ GoTo(p, "running")
  /\ UNCHANGED <<alive, boot, queue_id, heap_fd, buffer_fd, event_fd, file_fd, info>>
-----------------------------------------------------------------------------
(* The destructor. *)
\* Mutant: the file stays.
RemoveNothing(p) ==
  /\ At(p, "running")
  /\ MayEnter(p)
  /\ GoTo(p, "reset_info")
  /\ UNCHANGED <<dirVars, procVars, queue_id, heap_fd, buffer_fd, event_fd, file_fd, info>>

RemoveInfoFile(p) ==
  /\ At(p, "running")
  /\ MayEnter(p)
  /\ Unlink(InfoName(p))
  /\ GoTo(p, "reset_info")
  /\ UNCHANGED <<procVars, queue_id, heap_fd, buffer_fd, event_fd, file_fd, info>>

\* ~DMABuffer: does nothing when the descriptor is not positive.
ResetBuffer(p, i) ==
  /\ IF buffer_fd[p][i] <= 0 THEN UNCHANGED fds ELSE Closed(p, buffer_fd[p][i])
  /\ buffer_fd' = [buffer_fd EXCEPT ![p][i] = -1]

ResetInfoBuffer(p) ==
  /\ At(p, "reset_info")
  /\ ResetBuffer(p, QueueSize)
  /\ queue_id' = [queue_id EXCEPT ![p] = 0]
  /\ GoTo(p, IF QueueSize > 0 THEN "reset_buffers" ELSE "reset_event")
  /\ UNCHANGED <<dirVars, alive, boot, heap_fd, event_fd, file_fd, info>>

ResetDmaBuffer(p) ==
  /\ At(p, "reset_buffers")
  /\ ResetBuffer(p, queue_id[p])
  /\ queue_id' = [queue_id EXCEPT ![p] = @ + 1]
  /\ GoTo(p, IF queue_id[p] = QueueSize - 1 THEN "reset_event" ELSE "reset_buffers")
  /\ UNCHANGED <<dirVars, alive, boot, heap_fd, event_fd, file_fd, info>>

\* ~Event
ResetEvent(p) ==
  /\ At(p, "reset_event")
  /\ IF event_fd[p] > 0 THEN Closed(p, event_fd[p]) ELSE UNCHANGED fds
  /\ event_fd' = [event_fd EXCEPT ![p] = -1]
  /\ GoTo(p, "destroyed")
  /\ UNCHANGED <<dirVars, alive, boot, queue_id, heap_fd, buffer_fd, file_fd, info>>
-----------------------------------------------------------------------------
Construct(p) ==
  \/ InitTopicPath(p) \/ OpenHeap(p) \/ Allocate(p) \/ UpdateBufferInfo(p)
  \/ AllocationRaises(p) \/ CreateEvent(p) \/ FillInfo(p)
  \/ OpenInfoFile(p) \/ CloseInfoFile(p)

Destruct(p) ==
  \/ RemoveInfoFile(p) \/ ResetInfoBuffer(p) \/ ResetDmaBuffer(p) \/ ResetEvent(p)

Publisher(p) == Construct(p) \/ Destruct(p) \/ KernelClosesFile(p)

Process(h) == ProcessExits(h) \/ Boot(h)

Environment == (Cleaner /\ UNCHANGED <<procVars, pubVars>>) \/ \E h \in Proc : Process(h)

Next == (\E p \in Pub : Publisher(p)) \/ Environment

Spec == Init /\ [][Next]_vars
-----------------------------------------------------------------------------
(* A publisher whose info file may be in the directory, with everything that *)
(* whoever reads the name needs: the process lives, the descriptor in the    *)
(* name is the info buffer, the buffer is written, and the descriptors it    *)
(* lists are the publisher's own.                                            *)
Usable(p) ==
  /\ Host[p] \in alive
  /\ pc[p] \in {"close_file", "running"}
  /\ fds[Host[p]][buffer_fd[p][QueueSize]] = BufferOf(p, QueueSize)
  /\ info[p] # Blank
  /\ \A i \in 0 .. QueueSize - 1 :
       fds[Host[p]][info[p].dma_buff_fd[i]] = BufferOf(p, i)
  /\ info[p].event_fd # -1 => fds[Host[p]][info[p].event_fd] = EventOf(p)

\* A publisher that was killed after it had created its info file.
Orphaned(p) == pc[p] \in {"exiting", "killed"} /\ file_fd[p] # -1

(* Whoever finds an info file can use what its name says: it designates the  *)
(* written info buffer of a living publisher (publisher_base.cpp:76-107 fill *)
(* the buffer before the file exists, 34-45 remove the file before any       *)
(* descriptor is closed and reused).  Only a killed publisher leaves another *)
(* file behind.                                                              *)
FilesDesignatePublishers ==
  \A n \in files : \E p \in Pub : InfoName(p) = n /\ (Usable(p) \/ Orphaned(p))

\* The publisher's own record of what descriptor fd is.
Holds(p, fd, object) ==
  \/ object = HeapOf(p) /\ heap_fd[p] = fd /\ pc[p] = "allocate"
  \/ object = EventOf(p) /\ event_fd[p] = fd
  \/ object = FileOf(p) /\ file_fd[p] = fd /\ pc[p] = "close_file"
  \/ \E i \in Slot : object = BufferOf(p, i) /\ buffer_fd[p][i] = fd

\* What a destroyed, or half destroyed, publisher may have left open.
Leaked(p, fd, object) ==
  /\ fd = 0
  /\ pc[p] \in {"reset_buffers", "reset_event", "destroyed"}
  /\ object[1] \in {"buffer", "event"}

(* Every descriptor a publisher opens is one it will close, except           *)
(* descriptor 0: ~DMABuffer (dma_buffer.cpp:20) and ~Event (event.cpp:14)    *)
(* take 0 for none, so in a process started without stdin one may stay open. *)
OnlyZeroLeaks ==
  \A h \in Proc, fd \in Fd : \A p \in Pub :
    LET object == fds[h][fd]
    IN  object \in Object /\ object[2] = p
          => Host[p] = h /\ (Holds(p, fd, object) \/ Leaked(p, fd, object))
-----------------------------------------------------------------------------
(* Why these hold: the inductive invariant. *)

WrittenInfo(p) ==
  [event_fd |-> event_fd[p], dma_buff_fd |-> [i \in 0 .. QueueSize - 1 |-> buffer_fd[p][i]]]

\* Which fields of a publisher are set at which step.
Ordered(p) ==
  /\ pc[p] = "idle" =>
       queue_id[p] = 0 /\ event_fd[p] = -1 /\ \A i \in Slot : buffer_fd[p][i] = -1
  /\ pc[p] \in {"open_heap", "allocate"} =>
       \A i \in Slot : buffer_fd[p][i] = -1 <=> i >= queue_id[p]
  /\ pc[p] = "update_buffer_info" =>
       \A i \in Slot : buffer_fd[p][i] = -1 <=> i > queue_id[p]
  /\ pc[p] = "create_event" =>
       queue_id[p] = QueueSize /\ \A i \in Slot : buffer_fd[p][i] = -1 <=> i = QueueSize
  /\ pc[p] = "create_event" => event_fd[p] = -1
  /\ pc[p] \in {"open_heap", "allocate", "update_buffer_info"} /\ queue_id[p] < QueueSize =>
       event_fd[p] = -1
  /\ pc[p] \in {"fill_info", "open_file", "close_file", "running", "exiting"} =>
       \A i \in Slot : buffer_fd[p][i] # -1
  /\ pc[p] \in {"open_file", "close_file", "running"} => info[p] = WrittenInfo(p)
  /\ pc[p] = "reset_buffers" => queue_id[p] < QueueSize
  /\ pc[p] \in {"idle", "open_heap", "allocate", "update_buffer_info",
                "create_event", "fill_info", "open_file"} => file_fd[p] = -1

Active(p) == pc[p] \notin {"idle", "destroyed", "exiting", "killed"}

\* What a publisher in the middle of its life takes for its descriptors is its own.
Owns(p) ==
  Active(p) =>
    /\ Host[p] \in alive
    /\ pc[p] = "allocate" => heap_fd[p] # -1 /\ fds[Host[p]][heap_fd[p]] = HeapOf(p)
    /\ pc[p] = "close_file" /\ file_fd[p] # -1 => fds[Host[p]][file_fd[p]] = FileOf(p)
    /\ event_fd[p] # -1 => fds[Host[p]][event_fd[p]] = EventOf(p)
    /\ \A i \in Slot : buffer_fd[p][i] # -1 => fds[Host[p]][buffer_fd[p][i]] = BufferOf(p, i)

\* Who created an info file that nobody removed.
Registrant(p) ==
  pc[p] \in {"close_file", "running", "exiting", "killed"} /\ file_fd[p] # -1

FilesRegistered == \A n \in files : \E p \in Pub : InfoName(p) = n /\ Registrant(p)

(* Every publisher builds in order and owns the descriptors it records, and  *)
(* every info file was created by one that did not remove it                 *)
(* (publisher_base.cpp:5-46 as a whole): a descriptor number is never in two *)
(* hands, however threads, exits and new processes with an old pid mix.      *)
OwnershipInv ==
  /\ TypeOK
  /\ \A p \in Pub : Ordered(p) /\ Owns(p)
  /\ FilesRegistered
=============================================================================
