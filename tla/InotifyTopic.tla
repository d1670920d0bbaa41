----------------------------- MODULE InotifyTopic -----------------------------
(***************************************************************************)
(* apps/inotify_topic.cpp, the subscriber of a topic, composed with the     *)
(* publishers of PublisherBase through the topic's directory.  A subscriber *)
(* watches the directory, attaches to the info buffer of the first info     *)
(* file it learns of, by a scan or by an event, and starts over whenever a  *)
(* file, or the directory, is deleted.                                      *)
(***************************************************************************)
EXTENDS PublisherBase

CONSTANTS NoBuffer,     \* sub_buffer, sub_info = NULL
          MayTrace      \* the processes, by pid and boot, a subscriber may trace

ASSUME NoBufferAssumption == NoBuffer \notin Object
ASSUME MayTraceAssumption == MayTrace \subseteq Sub \X Proc \X (1 .. MaxBoots)

VARIABLES spc,       \* where each subscriber is
          target,    \* file_info: the name open_dma_buffer was called with
          pid_fd,    \* which process of that pid DMABuffer::connect's pidfd is, 0: none
          attached,  \* sub_buffer
          batch      \* the events read from inotify_fd and not yet handled

subVars == <<spc, target, pid_fd, attached, batch>>
allVars == <<vars, subVars>>

SubStep == {"start", "stat", "add_watch", "scan", "connect", "getfd", "events", "loop", "dead"}

SubTypeOK ==
  /\ TypeOK
  /\ spc \in [Sub -> SubStep]
  /\ target \in [Sub -> Name \union {NoName}]
  /\ pid_fd \in [Sub -> 0 .. MaxBoots]
  /\ attached \in [Sub -> Object \union {NoBuffer}]
  /\ batch \in [Sub -> Seq(Event)]

SubInit ==
  /\ Init
  /\ spc = [s \in Sub |-> "start"]
  /\ target = [s \in Sub |-> NoName]
  /\ pid_fd = [s \in Sub |-> 0]
  /\ attached = [s \in Sub |-> NoBuffer]
  /\ batch = [s \in Sub |-> <<>>]
-----------------------------------------------------------------------------
Proceed(s, step) == spc' = [spc EXCEPT ![s] = step]

\* SIGSEGV, raised or real: the process ends, and its watch with it.
Dies(s) ==
  /\ Proceed(s, "dead")
  /\ CloseWatch(s)
  /\ target' = [target EXCEPT ![s] = NoName]
  /\ pid_fd' = [pid_fd EXCEPT ![s] = 0]
  /\ attached' = [attached EXCEPT ![s] = NoBuffer]
  /\ batch' = [batch EXCEPT ![s] = <<>>]
  /\ UNCHANGED <<procVars, pubVars>>

\* Mutant: the attached buffer is kept.
SStartKeepsBuffer(s) ==
  /\ spc[s] = "start"
  /\ CloseWatch(s)
  /\ target' = [target EXCEPT ![s] = NoName]
  /\ Proceed(s, "stat")
  /\ UNCHANGED <<procVars, pubVars, pid_fd, attached, batch>>

\* start: everything is dropped, the watch with it.
SStart(s) ==
  /\ spc[s] = "start"
  /\ CloseWatch(s)
  /\ attached' = [attached EXCEPT ![s] = NoBuffer]
  /\ target' = [target EXCEPT ![s] = NoName]
  /\ Proceed(s, "stat")
  /\ UNCHANGED <<procVars, pubVars, pid_fd, batch>>

\* Without the directory the program sleeps and starts over: nothing changes.
SStat(s) ==
  /\ spc[s] = "stat"
  /\ dir
  /\ Proceed(s, "add_watch")
  /\ UNCHANGED <<vars, target, pid_fd, attached, batch>>

\* A directory removed since stat leaves inotify_fd without a watch, unnoticed.
SAddWatch(s) ==
  /\ spc[s] = "add_watch"
  /\ AddWatch(s)
  /\ Proceed(s, "scan")
  /\ UNCHANGED <<procVars, pubVars, target, pid_fd, attached, batch>>

\* Mutant: what is in the directory is not looked at.
SScanSkips(s) ==
  /\ spc[s] = "scan"
  /\ dir
  /\ Proceed(s, "loop")
  /\ UNCHANGED <<vars, target, pid_fd, attached, batch>>

\* The first entry of the directory is opened, in an order readdir chooses.
SScan(s) ==
  /\ spc[s] = "scan"
  /\ dir
  /\ \/ files = {} /\ Proceed(s, "loop") /\ UNCHANGED target
     \/ \E n \in files :
          /\ target' = [target EXCEPT ![s] = n]
          /\ Proceed(s, "connect")
  /\ UNCHANGED <<vars, pid_fd, attached, batch>>

\* opendir's NULL is passed on to readdir.
SScanFails(s) ==
  /\ spc[s] = "scan"
  /\ ~dir
  /\ Dies(s)

\* DMABuffer::connect: pidfd_open, or raise(SIGSEGV).
SPidfdOpen(s) ==
  /\ spc[s] = "connect"
  /\ \/ /\ target[s][1] \in alive
        /\ pid_fd' = [pid_fd EXCEPT ![s] = boot[target[s][1]]]
        /\ Proceed(s, "getfd")
        /\ UNCHANGED <<vars, target, attached, batch>>
     \/ target[s][1] \notin alive /\ Dies(s)

\* PTRACE_MODE_ATTACH_REALCREDS: the process is another user's, or yama protects it.
Refused(s) == spc[s] = "getfd" /\ <<s, target[s][1], pid_fd[s]>> \notin MayTrace

\* What pidfd_getfd returns from the process the pidfd means, NoBuffer for an
\* error or for a descriptor update_buffer_info finds no size of.
Borrowed(s) ==
  LET pid == target[s][1]
      object == fds[pid][target[s][2]]
  IN  IF /\ pid \in alive /\ boot[pid] = pid_fd[s]
         /\ ~Refused(s)
         /\ object \in Object
         /\ object[1] = "buffer"
      THEN object ELSE NoBuffer

\* DMABuffer::connect: pidfd_getfd, update_buffer_info and map, or raise(SIGSEGV).
SGetFd(s) ==
  /\ spc[s] = "getfd"
  /\ \/ /\ Borrowed(s) # NoBuffer
        /\ attached' = [attached EXCEPT ![s] = Borrowed(s)]
        /\ pid_fd' = [pid_fd EXCEPT ![s] = 0]
        /\ Proceed(s, "events")
        /\ UNCHANGED <<vars, target, batch>>
     \/ Borrowed(s) = NoBuffer /\ Dies(s)

\* The display reads the attached buffer as a PublisherInfo; if it is none the
\* program may go on or may be killed by the pointers it follows.
IsInfo(object) ==
  object # NoBuffer /\ object[3] = QueueSize /\ info[object[2]] # Blank

SDisplayFails(s) ==
  /\ spc[s] = "loop"
  /\ attached[s] # NoBuffer
  /\ ~IsInfo(attached[s])
  /\ Dies(s)

TakeEvents(s) ==
  /\ batch' = [batch EXCEPT ![s] = queue[s]]
  /\ queue' = [queue EXCEPT ![s] = <<>>]
  /\ Proceed(s, "events")
  /\ UNCHANGED <<dir, files, watching, missed, detached, doomed, cleaning, cleanings,
                 procVars, pubVars, target, pid_fd, attached>>

\* Mutant: events are waited for only while attached.
SReadWhileAttached(s) ==
  spc[s] = "loop" /\ queue[s] # <<>> /\ attached[s] # NoBuffer /\ TakeEvents(s)

\* Mutant: events are waited for only until something is attached.
SReadUntilAttached(s) ==
  spc[s] = "loop" /\ queue[s] # <<>> /\ attached[s] = NoBuffer /\ TakeEvents(s)

\* FIONREAD and read: all the events there are.
SRead(s) ==
  /\ spc[s] = "loop"
  /\ queue[s] # <<>>
  /\ TakeEvents(s)

SBatchDone(s) ==
  /\ spc[s] = "events"
  /\ batch[s] = <<>>
  /\ Proceed(s, "loop")
  /\ UNCHANGED <<vars, target, pid_fd, attached, batch>>

Handling(s, masks) ==
  /\ spc[s] = "events"
  /\ batch[s] # <<>>
  /\ Head(batch[s]).mask \in masks

\* Mutant: only the removal of the directory counts.
SDeletedSelfOnly(s) ==
  \/ /\ Handling(s, {"DELETE_SELF"})
     /\ batch' = [batch EXCEPT ![s] = <<>>]
     /\ Proceed(s, "start")
     /\ UNCHANGED <<vars, target, pid_fd, attached>>
  \/ /\ Handling(s, {"DELETE"})
     /\ batch' = [batch EXCEPT ![s] = Tail(@)]
     /\ UNCHANGED <<vars, spc, target, pid_fd, attached>>

\* Whatever was deleted, the rest of the batch is dropped.
SDeleted(s) ==
  /\ Handling(s, {"DELETE", "DELETE_SELF"})
  /\ batch' = [batch EXCEPT ![s] = <<>>]
  /\ Proceed(s, "start")
  /\ UNCHANGED <<vars, target, pid_fd, attached>>

SCreated(s) ==
  /\ Handling(s, {"CLOSE_WRITE"})
  /\ attached[s] = NoBuffer
  /\ target' = [target EXCEPT ![s] = Head(batch[s]).name]
  /\ batch' = [batch EXCEPT ![s] = Tail(@)]
  /\ Proceed(s, "connect")
  /\ UNCHANGED <<vars, pid_fd, attached>>

\* A file created while attached, or an event without a name.
SIgnored(s) ==
  /\ \/ Handling(s, {"CLOSE_WRITE"}) /\ attached[s] # NoBuffer
     \/ Handling(s, {"OVERFLOW"})
  /\ batch' = [batch EXCEPT ![s] = Tail(@)]
  /\ UNCHANGED <<vars, spc, target, pid_fd, attached>>

Subscriber(s) ==
  \/ SStart(s) \/ SStat(s) \/ SAddWatch(s) \/ SScan(s) \/ SScanFails(s)
  \/ SPidfdOpen(s) \/ SGetFd(s) \/ SDisplayFails(s) \/ SRead(s) \/ SBatchDone(s)
  \/ SDeleted(s) \/ SCreated(s) \/ SIgnored(s)

TopicNext ==
  \/ Next /\ UNCHANGED subVars
  \/ \E s \in Sub : Subscriber(s)

TopicSpec == SubInit /\ [][TopicNext]_allVars

\* A subscriber is one thread that never waits for anybody.
FairTopicSpec == TopicSpec /\ \A s \in Sub : WF_allVars(Subscriber(s))
-----------------------------------------------------------------------------
\* Between two rounds of reading events.
Settled(s) == spc[s] \in {"loop", "events"}

\* What subscriber s will still handle.
Pending(s) == {batch[s][i] : i \in DOMAIN batch[s]} \union {queue[s][i] : i \in DOMAIN queue[s]}

PendingReset(s) == \E e \in Pending(s) : e.mask \in {"DELETE", "DELETE_SELF"}

\* s no longer learns everything: its watch was never made, or events were lost.
Blind(s) == s \notin watching \/ s \in missed

\* n is the file of a publisher that can be used, and object is its info buffer.
Designates(n, object) ==
  /\ n \in files
  /\ \E p \in Pub : InfoName(p) = n /\ Usable(p) /\ object = BufferOf(p, QueueSize)

(* A subscriber shows the info buffer its target designates now, or will     *)
(* start over when it handles what it has not read yet, whatever happened to *)
(* the publisher, its pid and its descriptors between the scan or event and  *)
(* pidfd_getfd (inotify_topic.cpp:55-63, 89-103, 180-193; dma_buffer.cpp:    *)
(* 94-110).  Only a blind subscriber, a file a killed publisher left, or an  *)
(* rm -rf that took the file away may mislead it.                            *)
AttachmentSound ==
  \A s \in Sub :
    Settled(s) /\ attached[s] # NoBuffer =>
      \/ Designates(target[s], attached[s])
      \/ PendingReset(s)
      \/ Blind(s)
      \/ \E p \in Pub : Orphaned(p) /\ InfoName(p) = target[s]
      \/ cleanings < Cleanings

(* A subscriber without a publisher knows of every info file: one that it    *)
(* did not see in its scan will be announced to it (inotify_topic.cpp:88-103 *)
(* watches before it scans; publisher_base.cpp:107-108).                     *)
RegistrationPending ==
  \A s \in Sub :
    Settled(s) /\ attached[s] = NoBuffer /\ ~Blind(s) /\ ~PendingReset(s) =>
      \A n \in files :
        \/ CloseWrite(n) \in Pending(s)
        \/ \E p \in Pub : InfoName(p) = n /\ pc[p] \in {"close_file", "exiting"}

(* Connecting kills the subscriber (dma_buffer.cpp:95-109, 156-160) only     *)
(* when the kernel refuses it the process's descriptors, or when it was told,*)
(* or missed, that the publisher withdrew the name since it was read; or when*)
(* a killed publisher left the file, or an rm -rf took it away.  A publisher *)
(* that is leaving takes nobody with it that was not warned before           *)
(* (publisher_base.cpp:29-46).                                               *)
ConnectFailsOnlyIfWarned ==
  [][\A s \in Sub :
       spc[s] \in {"connect", "getfd"} /\ spc'[s] = "dead"
         => \/ PendingReset(s) \/ Blind(s) \/ Refused(s)
            \/ \E p \in Pub : Orphaned(p) /\ InfoName(p) = target[s]
            \/ cleanings < Cleanings]_allVars

(* "Create file ... -> generate inotify event IN_CLOSE_WRITE" (the comment   *)
(* at publisher_base.cpp:105): whoever watches the directory is told of the  *)
(* info file when the constructor is done.                                   *)
RegistrationAnnounced ==
  [][\A p \in Pub, s \in watching :
       pc[p] = "close_file" /\ pc'[p] = "running"
         => CloseWrite(InfoName(p)) \in Pending(s)' \/ s \in missed']_allVars

(* A publisher that stays gets every subscriber attached to some publisher   *)
(* again and again, unless connecting to another one killed the subscriber.  *)
EventuallyAttached ==
  \A s \in Sub, p \in Pub :
    <>[](pc[p] = "running") => <>(spc[s] = "dead") \/ []<>(attached[s] # NoBuffer)

(* The info buffer of a destroyed publisher does not stay on display.        *)
DestroyedIsDropped ==
  \A s \in Sub, p \in Pub :
    pc[p] = "destroyed" ~> attached[s] # BufferOf(p, QueueSize)
-----------------------------------------------------------------------------
(* Why RegistrationPending holds: the inductive invariant. *)

\* A file's name is never that of a file in a directory that was removed.
FilesAttached == files \cap detached = {}

\* The events of a read are handled before the next read, and before a new watch.
BatchHandled ==
  \A s \in Sub : spc[s] \in {"start", "stat", "add_watch", "scan", "loop"} => batch[s] = <<>>

\* Whoever is to close info file n, which makes the event.
Closing(n) == \E p \in Pub : InfoName(p) = n /\ pc[p] \in {"close_file", "exiting"} /\ file_fd[p] # -1

Awaits(s) == Settled(s) /\ attached[s] = NoBuffer /\ ~Blind(s) /\ ~PendingReset(s)

(* A subscriber without a publisher has been told of every info file, or is  *)
(* told when the publisher that created it closes it, which one that could   *)
(* not create it does not (inotify_topic.cpp:88-103).                        *)
AwaitsAll ==
  \A s \in Sub : Awaits(s) => \A n \in files : CloseWrite(n) \in Pending(s) \/ Closing(n)

TopicInv == OwnershipInv /\ SubTypeOK /\ FilesAttached /\ BatchHandled /\ AwaitsAll
-----------------------------------------------------------------------------
(* Why AttachmentSound holds while nobody runs rm -rf.                       *)

NeverCleaned == cleanings = Cleanings

\* Subscriber s starts over, or does not know what happens.
Excused(s) == PendingReset(s) \/ Blind(s)

\* The kernel closes the file of a process that is gone.
ExitingGone == \A p \in Pub : pc[p] = "exiting" => Host[p] \notin alive /\ file_fd[p] # -1

\* An info file is there until the publisher that created it removes it.
RegisteredThere ==
  \A p \in Pub :
    pc[p] \in {"close_file", "running", "exiting"} /\ file_fd[p] # -1 => InfoName(p) \in files

\* A file that was announced is there, or its removal is announced as well.
EventsTrue ==
  \A s \in Sub : spc[s] # "start" =>
    \A e \in Pending(s) : e.mask = "CLOSE_WRITE" => e.name \in files \/ Excused(s)

TargetThere ==
  \A s \in Sub : spc[s] \in {"connect", "getfd"} => target[s] \in files \/ Excused(s)

\* The process a pidfd was opened for is there as long as its file is, but for a
\* process that was killed.
TargetLives ==
  \A s \in Sub : spc[s] = "getfd" =>
    \/ Excused(s)
    \/ \E p \in Pub : Orphaned(p) /\ InfoName(p) = target[s]
    \/ target[s][1] \in alive /\ pid_fd[s] = boot[target[s][1]]

\* The watches on the directory end with it.
NoWatchWithoutDir == ~dir => watching = {}

\* Nothing of an earlier round is on display when a new one begins.
NothingAttached ==
  \A s \in Sub :
    spc[s] \in {"stat", "add_watch", "scan", "connect", "getfd"} => attached[s] = NoBuffer

\* What holds of the directory and of its watchers until somebody runs rm -rf.
Undisturbed ==
  ~cleaning /\ RegisteredThere /\ EventsTrue /\ TargetThere /\ TargetLives /\ AttachmentSound

(* Without rm -rf the attached buffer is the one its file designates, since  *)
(* the name it was reached by is that of a file until a DELETE says otherwise*)
(* (inotify_topic.cpp:88-103, 176-196; publisher_base.cpp:34, 105-108).      *)
AttachInv ==
  /\ TopicInv
  /\ ExitingGone
  /\ NothingAttached
  /\ NeverCleaned => Undisturbed
-----------------------------------------------------------------------------
(* Publishers and subscribers implement Discovery. *)

\* The NULL of a subscriber that shows nothing is no buffer.
ASSUME NothingAssumption == NoBuffer \notin Pub \X Slot

Life(p) ==
  CASE pc[p] \in {"close_file", "running"} -> "ready"
    [] pc[p] \in {"reset_info", "reset_buffers", "reset_event"} -> "leaving"
    [] pc[p] = "destroyed" -> "gone"
    [] pc[p] \in {"exiting", "killed"} -> "killed"
    [] OTHER -> "new"

Shown(s) == IF attached[s] = NoBuffer THEN NoBuffer ELSE <<attached[s][2], attached[s][3]>>

Lives == [p \in Pub |-> Life(p)]
Listed == {p \in Pub : InfoName(p) \in files /\ Usable(p)}
Showing == [s \in Sub |-> Shown(s)]
Warned == {s \in Sub : Excused(s) \/ spc[s] = "start"}

RefusedNow == {s \in Sub : Refused(s)}

\* The subscribers there is a process for that they may not trace.
MayBeRefused == {s \in Sub : ~({s} \X Proc \X (1 .. MaxBoots) \subseteq MayTrace)}

D == INSTANCE Discovery WITH
       life <- Lives,
       listed <- Listed,
       shown <- Showing,
       warned <- Warned,
       refused <- RefusedNow,
       swept <- ~NeverCleaned,
       InfoSlot <- QueueSize,
       Refusable <- MayBeRefused,
       Nothing <- NoBuffer

(* Constructors, destructors, the event loop of inotify_topic.cpp and the    *)
(* kernel between them implement Discovery: a destructor withdraws the name  *)
(* before any descriptor can mean something else, and warns all who watch    *)
(* (publisher_base.cpp:29-46); a subscriber lets go of a buffer only because *)
(* of a deletion, and does not survive looking only when it was warned,      *)
(* misled or refused (inotify_topic.cpp:70-200).                             *)
ImplementsDiscovery == D!Spec
=============================================================================
