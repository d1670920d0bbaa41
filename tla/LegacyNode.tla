------------------------------ MODULE LegacyNode ------------------------------
(***************************************************************************)
(* dps::Node and dps::BasePublisher, the predecessors of PublisherBase      *)
(* (src/_node.cpp, src/_base_publisher.cpp, used by apps/simple_node.cpp).  *)
(* A publisher has a file "pid SEP fd SEP number SEP queue_size" for each   *)
(* of its buffers, in the directory of its topic.  A Node catches signals:  *)
(* its handler removes what belongs to its pid and ends the process.        *)
(*                                                                          *)
(* A process is one thread, so a signal comes between two steps of it and   *)
(* what it interrupted never goes on.  All publishers share one topic,      *)
(* whose directory exists, and have the same queue_size.                    *)
(***************************************************************************)
EXTENDS Integers, Sequences, FiniteSets

CONSTANTS Proc,        \* the pids
          Spelling,    \* the decimal spelling of each pid
          Separator,   \* DPS_TOPIC_SEPARATOR, which is no digit
          Pub,         \* the publishers
          Host,        \* the pid of the process each publisher is built in
          QueueSize,   \* queue_size
          MaxFd,       \* bound: descriptors are 0 .. MaxFd (RLIMIT_NOFILE)
          ScanFds,     \* the descriptors a scan of the topics holds at once
          Free,        \* an unused descriptor
          MaxBoots     \* bound: how many processes get the same pid

ASSUME HostAssumption == Host \in [Pub -> Proc]
ASSUME SizeAssumption == QueueSize \in Nat /\ MaxFd \in Nat /\ ScanFds \in Nat \ {0}
ASSUME BootsAssumption == MaxBoots \in Nat \ {0}
ASSUME SpellingAssumption ==
  \A h \in Proc : /\ Spelling[h] \in Seq(Nat)
                  /\ \A i \in 1 .. Len(Spelling[h]) : Spelling[h][i] # Separator
                  /\ \A g \in Proc : Spelling[g] = Spelling[h] => g = h

VARIABLES boot,       \* how many processes had this pid so far
          fds,        \* the descriptor table of each process
          files,      \* the files of the topic
          nodes,      \* the pids that have a node directory
          hpc,        \* where the Node of each process, or its handler, is
          todo,       \* the files the handler has listed and not removed
          pc,         \* where each publisher is
          index,      \* the loop counter of its constructor or destructor
          allocated   \* allocated_dma_bufs_fd

vars == <<boot, fds, files, nodes, hpc, todo, pc, index, allocated>>
pubVars == <<pc, index, allocated>>

Fd == 0 .. MaxFd
Number == 0 .. QueueSize - 1
Buffer == Pub \X Number
File == Proc \X Fd \X Number

ASSUME FreeAssumption == Free \notin Buffer

Handling == {"remove_node", "list_topics", "remove_topics"}
Dead == {"exited", "aborted", "killed"}

TypeOK ==
  /\ boot \in [Proc -> 1 .. MaxBoots]
  /\ fds \in [Proc -> [Fd -> Buffer \union {Free}]]
  /\ files \in SUBSET File
  /\ nodes \in SUBSET Proc
  /\ hpc \in [Proc -> {"booted", "installed", "running"} \union Handling \union Dead]
  /\ todo \in [Proc -> SUBSET File]
  /\ pc \in [Pub -> {"idle", "allocate", "create_file", "ready",
                     "close", "remove_file", "destroyed", "dead"}]
  /\ index \in [Pub -> 0 .. QueueSize]
  /\ allocated \in [Pub -> [Number -> Fd \union {-1}]]

Init ==
  /\ boot = [h \in Proc |-> 1]
  /\ fds = [h \in Proc |-> [fd \in Fd |-> Free]]
  /\ files = {}
  /\ nodes = {}
  /\ hpc = [h \in Proc |-> "booted"]
  /\ todo = [h \in Proc |-> {}]
  /\ pc = [p \in Pub |-> "idle"]
  /\ index = [p \in Pub |-> 0]
  /\ allocated = [p \in Pub |-> [i \in Number |-> -1]]
-----------------------------------------------------------------------------
(* Descriptors: the kernel hands out the lowest free one. *)
FreeFds(h) == {fd \in Fd : fds[h][fd] = Free}
Lowest(fd, S) == fd \in S /\ \A other \in S : fd <= other

\* The process of a publisher is in none of its publishers' functions, and in
\* no signal handler.
MayEnter(p) ==
  /\ hpc[Host[p]] = "running"
  /\ \A q \in Pub : Host[q] = Host[p] => pc[q] \in {"idle", "ready", "destroyed", "dead"}

At(p, step) == hpc[Host[p]] = "running" /\ pc[p] = step
GoTo(p, step) == pc' = [pc EXCEPT ![p] = step]
NodeGoesTo(h, step) == hpc' = [hpc EXCEPT ![h] = step]

FileOf(p, i) == <<Host[p], allocated[p][i], i>>
-----------------------------------------------------------------------------
(* A process ends; its publishers' destructors do not run. *)
Ends(h, how) ==
  /\ NodeGoesTo(h, how)
  /\ fds' = [fds EXCEPT ![h] = [fd \in Fd |-> Free]]
  /\ todo' = [todo EXCEPT ![h] = {}]
  /\ pc' = [p \in Pub |-> IF Host[p] = h /\ pc[p] \notin {"idle", "destroyed"}
                          THEN "dead" ELSE pc[p]]
  /\ UNCHANGED <<boot, index, allocated>>

\* SIGKILL anywhere, or any signal before the handlers are installed.
Killed(h) ==
  /\ hpc[h] \notin Dead
  /\ Ends(h, "killed")
  /\ UNCHANGED <<files, nodes>>

Boot(h) ==
  /\ hpc[h] \in Dead
  /\ boot[h] < MaxBoots
  /\ boot' = [boot EXCEPT ![h] = @ + 1]
  /\ NodeGoesTo(h, "booted")
  /\ UNCHANGED <<fds, files, nodes, todo, pubVars>>
-----------------------------------------------------------------------------
(* Node::Node *)
InstallHandlers(h) ==
  /\ hpc[h] = "booted"
  /\ NodeGoesTo(h, "installed")
  /\ UNCHANGED <<boot, fds, files, nodes, todo, pubVars>>

\* Node::init_filesystem: the directory of the pid and the name in it.
InitFilesystem(h) ==
  /\ hpc[h] = "installed"
  /\ nodes' = nodes \union {h}
  /\ NodeGoesTo(h, "running")
  /\ UNCHANGED <<boot, fds, files, todo, pubVars>>

(* Node::signalHandler: a signal comes, again while the handler runs, or     *)
(* Node::~Node calls it, which ends the process all the same.                *)
Signal(h) ==
  /\ hpc[h] \in {"installed", "running"} \union Handling
  /\ NodeGoesTo(h, "remove_node")
  /\ UNCHANGED <<boot, fds, files, nodes, todo, pubVars>>

RemoveNode(h) ==
  /\ hpc[h] = "remove_node"
  /\ FreeFds(h) # {}
  /\ nodes' = nodes \ {h}
  /\ NodeGoesTo(h, "list_topics")
  /\ UNCHANGED <<boot, fds, files, todo, pubVars>>

\* Mutant: the separator is not looked at.
RelatedBySpelling(h, n) ==
  LET pid_start == Spelling[h]
      name == Spelling[n[1]] \o <<Separator>>
  IN  Len(pid_start) <= Len(name) /\ SubSeq(name, 1, Len(pid_start)) = pid_start

\* The name of file n starts with the pid and the separator.
Related(h, n) ==
  LET pid_start == Spelling[h] \o <<Separator>>
      name == Spelling[n[1]] \o <<Separator>>
  IN  Len(pid_start) <= Len(name) /\ SubSeq(name, 1, Len(pid_start)) = pid_start

ListTopics(h) ==
  /\ hpc[h] = "list_topics"
  /\ Cardinality(FreeFds(h)) >= ScanFds
  /\ todo' = [todo EXCEPT ![h] = {n \in files : Related(h, n)}]
  /\ NodeGoesTo(h, "remove_topics")
  /\ UNCHANGED <<boot, fds, files, nodes, pubVars>>

\* No descriptor for a directory: the exception leaves the handler and, by
\* way of SIGABRT, ends the process.
HandlerThrows(h) ==
  /\ \/ hpc[h] = "remove_node" /\ FreeFds(h) = {}
     \/ hpc[h] = "list_topics" /\ Cardinality(FreeFds(h)) < ScanFds
  /\ Ends(h, "aborted")
  /\ UNCHANGED <<files, nodes>>

RemoveTopicFile(h) ==
  /\ hpc[h] = "remove_topics"
  /\ \E n \in todo[h] :
       /\ files' = files \ {n}
       /\ todo' = [todo EXCEPT ![h] = @ \ {n}]
  /\ UNCHANGED <<boot, fds, nodes, hpc, pubVars>>

\* Mutant: the loop ends at the first file.
HandlerExitsEarly(h) ==
  /\ hpc[h] = "remove_topics"
  /\ Ends(h, "exited")
  /\ UNCHANGED <<files, nodes>>

\* Mutant: the handler returns.
HandlerReturns(h) ==
  /\ hpc[h] = "remove_topics"
  /\ todo[h] = {}
  /\ NodeGoesTo(h, "running")
  /\ UNCHANGED <<boot, fds, files, nodes, todo, pubVars>>

HandlerExits(h) ==
  /\ hpc[h] = "remove_topics"
  /\ todo[h] = {}
  /\ Ends(h, "exited")
  /\ UNCHANGED <<files, nodes>>
-----------------------------------------------------------------------------
(* BasePublisher::BasePublisher, in a process that has a Node. *)
Construct(p) ==
  /\ pc[p] = "idle"
  /\ MayEnter(p)
  /\ GoTo(p, IF QueueSize > 0 THEN "allocate" ELSE "ready")
  /\ UNCHANGED <<boot, fds, files, nodes, hpc, todo, index, allocated>>

\* allocate(): the heap takes the lowest descriptor and gives it back when the
\* buffer has got the next one.  Without two descriptors it raises SIGSEGV,
\* which the Node handles.
Allocate(p) ==
  /\ At(p, "allocate")
  /\ \E heap_fd, fd \in Fd :
       /\ Lowest(heap_fd, FreeFds(Host[p]))
       /\ Lowest(fd, FreeFds(Host[p]) \ {heap_fd})
       /\ fds' = [fds EXCEPT ![Host[p]][fd] = <<p, index[p]>>]
       /\ allocated' = [allocated EXCEPT ![p][index[p]] = fd]
  /\ GoTo(p, "create_file")
  /\ UNCHANGED <<boot, files, nodes, hpc, todo, index>>

AllocateRaises(p) ==
  /\ At(p, "allocate")
  /\ Cardinality(FreeFds(Host[p])) < 2
  /\ NodeGoesTo(Host[p], "remove_node")
  /\ UNCHANGED <<boot, fds, files, nodes, todo, pubVars>>

\* std::ofstream{...}, whose failure to open goes unnoticed.
CreateFile(p) ==
  /\ At(p, "create_file")
  /\ files' = IF FreeFds(Host[p]) = {} THEN files ELSE files \union {FileOf(p, index[p])}
  /\ index' = [index EXCEPT ![p] = @ + 1]
  /\ GoTo(p, IF index[p] + 1 = QueueSize THEN "ready" ELSE "allocate")
  /\ UNCHANGED <<boot, fds, nodes, hpc, todo, allocated>>
-----------------------------------------------------------------------------
(* BasePublisher::~BasePublisher *)
Destruct(p) ==
  /\ pc[p] = "ready"
  /\ MayEnter(p)
  /\ index' = [index EXCEPT ![p] = 0]
  /\ GoTo(p, IF QueueSize > 0 THEN "close" ELSE "destroyed")
  /\ UNCHANGED <<boot, fds, files, nodes, hpc, todo, allocated>>

\* The descriptor is closed before the file that names it is removed.
CloseBuffer(p) ==
  /\ At(p, "close")
  /\ fds' = [fds EXCEPT ![Host[p]][allocated[p][index[p]]] = Free]
  /\ GoTo(p, "remove_file")
  /\ UNCHANGED <<boot, files, nodes, hpc, todo, index, allocated>>

\* Mutant: the loop over the files ends one too early.
RemoveFileButLast(p) ==
  /\ At(p, "remove_file")
  /\ files' = IF index[p] + 1 = QueueSize THEN files ELSE files \ {FileOf(p, index[p])}
  /\ index' = [index EXCEPT ![p] = @ + 1]
  /\ GoTo(p, IF index[p] + 1 = QueueSize THEN "destroyed" ELSE "close")
  /\ UNCHANGED <<boot, fds, nodes, hpc, todo, allocated>>

RemoveFile(p) ==
  /\ At(p, "remove_file")
  /\ files' = files \ {FileOf(p, index[p])}
  /\ index' = [index EXCEPT ![p] = @ + 1]
  /\ GoTo(p, IF index[p] + 1 = QueueSize THEN "destroyed" ELSE "close")
  /\ UNCHANGED <<boot, fds, nodes, hpc, todo, allocated>>
-----------------------------------------------------------------------------
Handler(h) ==
  RemoveNode(h) \/ ListTopics(h) \/ HandlerThrows(h) \/ RemoveTopicFile(h) \/ HandlerExits(h)

Process(h) ==
  Boot(h) \/ Killed(h) \/ InstallHandlers(h) \/ InitFilesystem(h) \/ Signal(h) \/ Handler(h)

BasePublisher(p) ==
  \/ Construct(p) \/ Allocate(p) \/ AllocateRaises(p) \/ CreateFile(p)
  \/ Destruct(p) \/ CloseBuffer(p) \/ RemoveFile(p)

Next == (\E h \in Proc : Process(h)) \/ (\E p \in Pub : BasePublisher(p))

\* A handler is a running thread that waits for nobody.
Fairness == \A h \in Proc : WF_vars(Handler(h))

Spec == Init /\ [][Next]_vars /\ Fairness
-----------------------------------------------------------------------------
Own(h) == {n \in files : n[1] = h}

(* A process whose handler came to its end has left nothing in the file      *)
(* system, however often it was interrupted by further signals, and cleans   *)
(* up after the killed processes that had its pid (_node.cpp:76-103).        *)
ExitLeavesNothing ==
  \A h \in Proc : hpc[h] = "exited" => Own(h) = {} /\ h \notin nodes

(* A file names an open descriptor of the buffer with its number, except in  *)
(* the gap in which the destructor has closed it (_base_publisher.cpp:55-64) *)
(* and where a publisher died with its process.                              *)
FilesDesignateBuffers ==
  \A n \in files : \E p \in Pub :
    /\ n = FileOf(p, n[3])
    /\ \/ fds[n[1]][n[2]] = <<p, n[3]>>
       \/ pc[p] = "remove_file" /\ index[p] = n[3]
       \/ pc[p] = "dead"

(* A file disappears only by the destructor of its publisher or by the       *)
(* handler of its process: no handler takes another pid's files for its own  *)
(* (_node.cpp:84-101).                                                       *)
OnlyOwnerRemoves ==
  [][\A n \in files \ files' :
       \/ hpc[n[1]] = "remove_topics" /\ n \in todo[n[1]] \ todo'[n[1]]
       \/ \E p \in Pub : At(p, "remove_file") /\ n = FileOf(p, index[p])]_vars

(* Once a signal has come the process ends (_node.cpp:103), unless signals   *)
(* never stop coming.                                                        *)
SignalEndsProcess ==
  \A h \in Proc : <>[][~Signal(h)]_vars => (hpc[h] \in Handling ~> hpc[h] \in Dead)
-----------------------------------------------------------------------------
(* Why these hold: the inductive invariant. *)

\* The loops of the constructor and of the destructor stay within the buffers,
\* and a file is created for a buffer that has been allocated.
InLoop(p) ==
  /\ pc[p] = "idle" => index[p] = 0
  /\ pc[p] \in {"allocate", "create_file", "close", "remove_file"} => index[p] < QueueSize
  /\ pc[p] = "create_file" => allocated[p][index[p]] # -1

\* Every step of a handler works on what the one before has left.
HandlerProgress(h) ==
  /\ hpc[h] = "remove_topics" => Own(h) \subseteq todo[h]
  /\ hpc[h] \in {"list_topics", "remove_topics", "exited"} => h \notin nodes
  /\ hpc[h] = "exited" => Own(h) = {}

\* The numbers whose buffer is open, and those whose file may exist.
Open(p) ==
  {i \in Number : \/ pc[p] = "allocate" /\ i < index[p]
                  \/ pc[p] = "create_file" /\ i <= index[p]
                  \/ pc[p] = "ready"
                  \/ pc[p] = "close" /\ i >= index[p]
                  \/ pc[p] = "remove_file" /\ i > index[p]}

Listed(p) ==
  {i \in Number : \/ pc[p] \in {"allocate", "create_file"} /\ i < index[p]
                  \/ pc[p] \in {"ready", "dead"}
                  \/ pc[p] \in {"close", "remove_file"} /\ i >= index[p]}

(* An open buffer is where its publisher says, and a file belongs to a       *)
(* publisher whose loop has created it and has not removed it                *)
(* (_base_publisher.cpp:55-83).                                              *)
BufferInv ==
  /\ \A p \in Pub : \A i \in Open(p) :
       allocated[p][i] \in Fd /\ fds[Host[p]][allocated[p][i]] = <<p, i>>
  /\ \A n \in files : \E p \in Pub : n[3] \in Listed(p) /\ n = FileOf(p, n[3])

(* A handler lists files of its own pid only: no spelling with the separator *)
(* is the beginning of another (_node.cpp:84-101).                           *)
ListInv == \A h \in Proc : \A n \in todo[h] : n[1] = h

(* The loops stay in bounds, and while a handler works the files of its pid  *)
(* that exist are all on its list: nothing the signal interrupted goes on to *)
(* create another (_base_publisher.cpp:67-83, _node.cpp:76-103).             *)
LegacyInv ==
  /\ TypeOK
  /\ \A p \in Pub : InLoop(p)
  /\ \A h \in Proc : HandlerProgress(h)
=============================================================================
