--------------------------- MODULE TopicDirectory ---------------------------
(***************************************************************************)
(* The directory of one topic, DPS_BASE_PATH/<topic>, where publishers put  *)
(* their info files and which subscribers watch with inotify.  Everything   *)
(* here belongs to the kernel (tmpfs, fsnotify) or to rm(1): it is modelled *)
(* from how publisher_base.cpp, inotify_topic.cpp and                       *)
(* create_publisher_base.cpp use it.                                        *)
(*                                                                          *)
(* An info file is empty; all it says is its name "\<pid>\<fd>", the pair   *)
(* <<pid, fd>>.  A watcher's queue holds the events of its mask             *)
(* (IN_CLOSE_WRITE, IN_DELETE, IN_DELETE_SELF) it has not read.             *)
(***************************************************************************)
EXTENDS Naturals, Sequences

CONSTANTS Name,       \* the names of info files
          NoName,     \* the name of an event about the directory itself
          Sub,        \* the processes that watch
          MaxQueue,   \* fs.inotify.max_queued_events
          Cleanings   \* bound: how often somebody runs rm -rf on DPS_BASE_PATH

ASSUME NoNameAssumption == NoName \notin Name
ASSUME MaxQueueAssumption == MaxQueue \in Nat \ {0}
ASSUME CleaningsAssumption == Cleanings \in Nat

VARIABLES dir,        \* the directory exists
          files,      \* the info files in it
          watching,   \* the watchers whose watch is on this directory
          queue,      \* the events each watcher has not read
          missed,     \* the watchers of which an event was dropped
          detached,   \* the names whose open file was in a directory now removed
          doomed,     \* the files rm -rf has listed and not yet removed
          cleaning,   \* rm -rf is running
          cleanings   \* how often it may still start

dirVars == <<dir, files, watching, queue, missed, detached, doomed, cleaning, cleanings>>

Event == [mask : {"CLOSE_WRITE", "DELETE", "DELETE_SELF", "OVERFLOW"},
          name : Name \union {NoName}]

CloseWrite(n) == [mask |-> "CLOSE_WRITE", name |-> n]
Delete(n) == [mask |-> "DELETE", name |-> n]
DeleteSelf == [mask |-> "DELETE_SELF", name |-> NoName]
Overflow == [mask |-> "OVERFLOW", name |-> NoName]

DirTypeOK ==
  /\ dir \in BOOLEAN
  /\ files \in SUBSET Name
  /\ watching \in SUBSET Sub
  /\ queue \in [Sub -> Seq(Event)]
  /\ missed \in SUBSET Sub
  /\ detached \in SUBSET Name
  /\ doomed \in SUBSET Name
  /\ cleaning \in BOOLEAN
  /\ cleanings \in 0 .. Cleanings

DirInit ==
  /\ dir = FALSE
  /\ files = {}
  /\ watching = {}
  /\ queue = [s \in Sub |-> <<>>]
  /\ missed = {}
  /\ detached = {}
  /\ doomed = {}
  /\ cleaning = FALSE
  /\ cleanings = Cleanings
-----------------------------------------------------------------------------
(* fsnotify: when the queue is full it adds one nameless IN_Q_OVERFLOW and   *)
(* drops the event, otherwise it merges it with an equal one at the tail.    *)
IsTail(q, e) == q # <<>> /\ q[Len(q)] = e

Overflowed(q) == IF Len(q) = MaxQueue THEN Append(q, Overflow) ELSE q

Push(q, e) ==
  IF Len(q) >= MaxQueue THEN Overflowed(q)
  ELSE IF IsTail(q, e) THEN q ELSE Append(q, e)

\* Nothing is lost when the queue says the same already.
Drops(q, e) == ~IsTail(q, e) /\ Len(q) >= MaxQueue

Emit(e) ==
  /\ queue' = [s \in Sub |-> IF s \in watching THEN Push(queue[s], e) ELSE queue[s]]
  /\ missed' = missed \union {s \in watching : Drops(queue[s], e)}

MakeDirectories ==
  /\ dir' = TRUE
  /\ UNCHANGED <<files, watching, queue, missed, detached, doomed, cleaning, cleanings>>

\* open(O_CREAT) of a file that is, or is not, there: no event of the mask.
CreateFile(n) ==
  /\ files' = files \union {n}
  /\ detached' = detached \ {n}
  /\ UNCHANGED <<dir, watching, queue, missed, doomed, cleaning, cleanings>>

\* close() of a file open for writing: an event even when the file was unlinked
\* since (the watch has no IN_EXCL_UNLINK), for those that watch its directory.
CloseFile(n) ==
  /\ IF n \in detached THEN UNCHANGED <<queue, missed>> ELSE Emit(CloseWrite(n))
  /\ UNCHANGED <<dir, files, watching, detached, doomed, cleaning, cleanings>>

\* remove(): nothing happens, and no event, when there is no such file.
Unlink(n) ==
  /\ files' = files \ {n}
  /\ IF n \in files THEN Emit(Delete(n)) ELSE UNCHANGED <<queue, missed>>
  /\ UNCHANGED <<dir, watching, detached, doomed, cleaning, cleanings>>

AddWatch(s) ==
  /\ watching' = IF dir THEN watching \union {s} ELSE watching \ {s}
  /\ queue' = [queue EXCEPT ![s] = <<>>]
  /\ missed' = missed \ {s}
  /\ UNCHANGED <<dir, files, detached, doomed, cleaning, cleanings>>

CloseWatch(s) ==
  /\ watching' = watching \ {s}
  /\ queue' = [queue EXCEPT ![s] = <<>>]
  /\ missed' = missed \ {s}
  /\ UNCHANGED <<dir, files, detached, doomed, cleaning, cleanings>>
-----------------------------------------------------------------------------
(* rm -rf lists the directory, unlinks what it listed, then removes the      *)
(* directory, which fails when a file was created since.  The watches end    *)
(* with the directory.                                                       *)
CleanerStarts ==
  /\ ~cleaning
  /\ cleanings > 0
  /\ dir
  /\ cleaning' = TRUE
  /\ cleanings' = cleanings - 1
  /\ doomed' = files
  /\ UNCHANGED <<dir, files, watching, queue, missed, detached>>

CleanerUnlinks ==
  \E n \in doomed :
    /\ cleaning
    /\ files' = files \ {n}
    /\ IF n \in files THEN Emit(Delete(n)) ELSE UNCHANGED <<queue, missed>>
    /\ doomed' = doomed \ {n}
    /\ UNCHANGED <<dir, watching, detached, cleaning, cleanings>>

CleanerRemovesDirectory ==
  /\ cleaning
  /\ doomed = {}
  /\ cleaning' = FALSE
  /\ IF files = {}
     THEN dir' = FALSE /\ watching' = {} /\ detached' = Name /\ Emit(DeleteSelf)
     ELSE UNCHANGED <<dir, watching, queue, missed, detached>>
  /\ UNCHANGED <<files, doomed, cleanings>>

Cleaner == CleanerStarts \/ CleanerUnlinks \/ CleanerRemovesDirectory
=============================================================================
