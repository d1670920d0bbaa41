------------------------- MODULE PublisherBase_proof -------------------------
(***************************************************************************)
(* For any number of publishers, processes, buffers and descriptors: an     *)
(* info file designates a usable publisher or one that was killed, and no   *)
(* descriptor but 0 is lost.  The argument is OwnershipInv of PublisherBase:*)
(* a publisher that is being built, is running or is being destroyed owns   *)
(* every descriptor it records.                                             *)
(***************************************************************************)
EXTENDS PublisherBase, TLAPS

-----------------------------------------------------------------------------
(* The operations on a topic's directory keep its type, whatever the names,  *)
(* the watchers and the bound on a queue.                                    *)

(* A queue stays a sequence of events when one is pushed, merged or dropped. *)
LEMMA PushType ==
  ASSUME NEW q \in Seq(Event), NEW e \in Event
  PROVE  Push(q, e) \in Seq(Event)
<1>1. Overflow \in Event
  BY DEF Overflow, Event
<1>2. Append(q, e) \in Seq(Event) /\ Append(q, Overflow) \in Seq(Event)
  BY <1>1
<1> QED
  BY <1>2 DEF Push, Overflowed

(* An event told to every watcher keeps the queues sequences of events.      *)
LEMMA EmitType ==
  ASSUME DirTypeOK, NEW e \in Event, Emit(e)
  PROVE  queue' \in [Sub -> Seq(Event)] /\ missed' \in SUBSET Sub
<1>1. \A s \in Sub : Push(queue[s], e) \in Seq(Event)
  BY PushType DEF DirTypeOK
<1>2. queue' \in [Sub -> Seq(Event)]
  BY <1>1 DEF Emit, DirTypeOK
<1>3. missed' \in SUBSET Sub
  BY DEF Emit, DirTypeOK
<1> QED
  BY <1>2, <1>3

(* The directory starts with its type.                                       *)
LEMMA DirInitType == DirInit => DirTypeOK
<1> SUFFICES ASSUME DirInit PROVE DirTypeOK
  OBVIOUS
<1>1. <<>> \in Seq(Event)
  OBVIOUS
<1>2. queue \in [Sub -> Seq(Event)]
  BY <1>1 DEF DirInit
<1>3. cleanings \in 0 .. Cleanings
  BY CleaningsAssumption DEF DirInit, CleaningsAssumption
<1> QED
  BY <1>2, <1>3 DEF DirInit, DirTypeOK

(* A step that leaves the directory alone keeps its type.                    *)
LEMMA DirStutterType ==
  ASSUME DirTypeOK, UNCHANGED dirVars
  PROVE  DirTypeOK'
  BY DEF DirTypeOK, dirVars

(* create_directories keeps the type.                                        *)
LEMMA MakeDirectoriesType ==
  ASSUME DirTypeOK, MakeDirectories
  PROVE  DirTypeOK'
  BY DEF DirTypeOK, MakeDirectories

(* Creating an info file keeps the type.                                     *)
LEMMA CreateFileType ==
  ASSUME DirTypeOK, NEW n \in Name, CreateFile(n)
  PROVE  DirTypeOK'
  BY DEF DirTypeOK, CreateFile

(* Closing an info file keeps the type.                                      *)
LEMMA CloseFileType ==
  ASSUME DirTypeOK, NEW n \in Name, CloseFile(n)
  PROVE  DirTypeOK'
<1>1. CloseWrite(n) \in Event
  BY DEF CloseWrite, Event
<1>2. queue' \in [Sub -> Seq(Event)] /\ missed' \in SUBSET Sub
  BY <1>1, EmitType DEF CloseFile, DirTypeOK
<1> QED
  BY <1>2 DEF DirTypeOK, CloseFile

(* Telling the watchers of a file that is gone keeps the queues typed.       *)
LEMMA DeleteType ==
  ASSUME DirTypeOK, NEW n,
         IF n \in files THEN Emit(Delete(n)) ELSE UNCHANGED <<queue, missed>>
  PROVE  queue' \in [Sub -> Seq(Event)] /\ missed' \in SUBSET Sub
<1>1. n \in files => Delete(n) \in Event
  BY DEF Delete, Event, DirTypeOK
<1> QED
  BY <1>1, EmitType DEF DirTypeOK

(* Removing an info file keeps the type, even of a name nobody uses.         *)
LEMMA UnlinkType ==
  ASSUME DirTypeOK, NEW n, Unlink(n)
  PROVE  DirTypeOK'
<1>1. queue' \in [Sub -> Seq(Event)] /\ missed' \in SUBSET Sub
  BY DeleteType DEF Unlink
<1> QED
  BY <1>1 DEF DirTypeOK, Unlink

(* rm -rf keeps the type and creates no file.                                *)
LEMMA CleanerType ==
  ASSUME DirTypeOK, Cleaner
  PROVE  DirTypeOK' /\ files' \subseteq files
<1> USE CleaningsAssumption DEF CleaningsAssumption
<1>1. CASE CleanerStarts
  BY <1>1 DEF CleanerStarts, DirTypeOK
<1>2. CASE CleanerUnlinks
  <2>1. PICK n \in doomed :
          /\ files' = files \ {n}
          /\ IF n \in files THEN Emit(Delete(n)) ELSE UNCHANGED <<queue, missed>>
          /\ doomed' = doomed \ {n}
          /\ UNCHANGED <<dir, watching, detached, cleaning, cleanings>>
    BY <1>2 DEF CleanerUnlinks
  <2>2. queue' \in [Sub -> Seq(Event)] /\ missed' \in SUBSET Sub
    BY <2>1, DeleteType
  <2> QED
    BY <2>1, <2>2 DEF DirTypeOK
<1>3. CASE CleanerRemovesDirectory
  <2>1. DeleteSelf \in Event
    BY DEF DeleteSelf, Event
  <2>2. queue' \in [Sub -> Seq(Event)] /\ missed' \in SUBSET Sub
    BY <1>3, <2>1, EmitType DEF CleanerRemovesDirectory, DirTypeOK
  <2> QED
    BY <1>3, <2>2 DEF CleanerRemovesDirectory, DirTypeOK
<1> QED
  BY <1>1, <1>2, <1>3 DEF Cleaner

-----------------------------------------------------------------------------
USE HostAssumption, SizeAssumption, FlagAssumption, NameAssumption, SentinelAssumption
    DEF HostAssumption, SizeAssumption, FlagAssumption, NameAssumption, SentinelAssumption

-----------------------------------------------------------------------------
(* Steps of one publisher, seen from the others. *)

\* Nothing publisher q records changes.
Same(q) ==
  /\ pc'[q] = pc[q]
  /\ queue_id'[q] = queue_id[q]
  /\ heap_fd'[q] = heap_fd[q]
  /\ buffer_fd'[q] = buffer_fd[q]
  /\ event_fd'[q] = event_fd[q]
  /\ file_fd'[q] = file_fd[q]
  /\ info'[q] = info[q]

Kind == {"heap", "event", "file", "buffer"}

\* The tables change only where nothing, or something of p, was open.
OnlyOwn(p) ==
  \A h \in Proc, fd \in Fd :
    \/ fds'[h][fd] = fds[h][fd]
    \/ fds[h][fd] = Free
    \/ \E k \in Kind, i \in Slot : fds[h][fd] = <<k, p, i>>

(* What a publisher has built depends on its own fields alone.               *)
LEMMA SameOrdered ==
  ASSUME NEW q \in Pub, Ordered(q), Same(q)
  PROVE  Ordered(q)'
  BY DEF Ordered, Same, WrittenInfo

(* A publisher keeps its descriptors when another one opens a free           *)
(* descriptor or closes its own.                                             *)
LEMMA SameOwns ==
  ASSUME TypeOK, NEW p \in Pub, NEW q \in Pub, p # q,
         Owns(q), Same(q), OnlyOwn(p), alive' = alive
  PROVE  Owns(q)'
<1> SUFFICES ASSUME Active(q)' PROVE Owns(q)'
  BY DEF Owns
<1> DEFINE h == Host[q]
<1>1. h \in Proc /\ Active(q)
  BY DEF Active, Same
<1>2. \A fd \in Fd, k \in Kind, i \in Slot : fds[h][fd] = <<k, q, i>> => fds'[h][fd] = <<k, q, i>>
  <2> SUFFICES ASSUME NEW fd \in Fd, NEW k \in Kind, NEW i \in Slot,
                      fds[h][fd] = <<k, q, i>>
               PROVE  fds'[h][fd] = <<k, q, i>>
    OBVIOUS
  <2>1. fds[h][fd] \in Object
    BY DEF Object, Kind
  <2>2. fds[h][fd] # Free
    BY <2>1
  <2>3. ~ \E l \in Kind, j \in Slot : fds[h][fd] = <<l, p, j>>
    OBVIOUS
  <2>4. h \in Proc
    BY <1>1
  <2> HIDE DEF h
  <2> QED
    BY <2>2, <2>3, <2>4 DEF OnlyOwn
<1>3. 0 \in Slot /\ {"heap", "event", "file", "buffer"} = Kind
  BY DEF Slot, Kind
<1>4. heap_fd[q] # -1 => heap_fd[q] \in Fd
  BY DEF TypeOK, FdOrNone
<1>5. file_fd[q] # -1 => file_fd[q] \in Fd
  BY DEF TypeOK, FdOrNone
<1>6. event_fd[q] # -1 => event_fd[q] \in Fd
  BY DEF TypeOK, FdOrNone
<1>7. \A i \in Slot : buffer_fd[q][i] # -1 => buffer_fd[q][i] \in Fd
  BY DEF TypeOK, FdOrNone
<1> HIDE DEF h
<1>8. pc[q] = "allocate" => heap_fd[q] # -1 /\ fds'[h][heap_fd[q]] = HeapOf(q)
  BY <1>1, <1>2, <1>3, <1>4 DEF Owns, HeapOf, h
<1>9. pc[q] = "close_file" /\ file_fd[q] # -1 => fds'[h][file_fd[q]] = FileOf(q)
  BY <1>1, <1>2, <1>3, <1>5 DEF Owns, FileOf, h
<1>10. event_fd[q] # -1 => fds'[h][event_fd[q]] = EventOf(q)
  BY <1>1, <1>2, <1>3, <1>6 DEF Owns, EventOf, h
<1>11. \A i \in Slot : buffer_fd[q][i] # -1 => fds'[h][buffer_fd[q][i]] = BufferOf(q, i)
  BY <1>1, <1>2, <1>3, <1>7 DEF Owns, BufferOf, h
<1>12. h \in alive
  BY <1>1 DEF Owns, h
<1> QED
  BY <1>8, <1>9, <1>10, <1>11, <1>12 DEF Owns, Same, h, HeapOf, FileOf, EventOf, BufferOf

(* ... and when its process and its process's table are not touched.         *)
LEMMA SameTable ==
  ASSUME NEW q \in Pub, Owns(q), Same(q), fds'[Host[q]] = fds[Host[q]],
         Host[q] \in alive => Host[q] \in alive'
  PROVE  Owns(q)'
  BY DEF Owns, Same, Active, HeapOf, FileOf, EventOf, BufferOf

(* A step of publisher p keeps everybody in order when it keeps p in order.  *)
LEMMA OwnStep ==
  ASSUME OwnershipInv, NEW p \in Pub, alive' = alive, OnlyOwn(p),
         \A q \in Pub \ {p} : Same(q),
         Ordered(p)', Owns(p)'
  PROVE  \A q \in Pub : Ordered(q)' /\ Owns(q)'
<1> SUFFICES ASSUME NEW q \in Pub, q # p PROVE Ordered(q)' /\ Owns(q)'
  OBVIOUS
<1> QED
  BY SameOrdered, SameOwns DEF OwnershipInv

(* Files keep their registrants when registrants stay what they are.         *)
LEMMA KeepFiles ==
  ASSUME FilesRegistered, files' \subseteq files,
         \A q \in Pub : Registrant(q) => Registrant(q)' /\ InfoName(q)' = InfoName(q)
  PROVE  FilesRegistered'
  BY DEF FilesRegistered
-----------------------------------------------------------------------------
(* The steps of the constructor. *)

(* A step that opens and closes nothing, and leaves the files alone.         *)
LEMMA QuietStep ==
  ASSUME OwnershipInv, NEW p \in Pub, UNCHANGED <<alive, fds>>, TypeOK',
         \A q \in Pub \ {p} : Same(q),
         Ordered(p)', Owns(p)', files' = files, ~Registrant(p)
  PROVE  OwnershipInv'
<1>1. OnlyOwn(p)
  BY DEF OnlyOwn
<1>2. \A q \in Pub : Ordered(q)' /\ Owns(q)'
  BY <1>1, OwnStep
<1>3. \A q \in Pub : Registrant(q) => Registrant(q)' /\ InfoName(q)' = InfoName(q)
  BY DEF Registrant, InfoName, Same
<1>4. FilesRegistered'
  BY <1>3, KeepFiles DEF OwnershipInv
<1> QED
  BY <1>2, <1>4 DEF OwnershipInv

(* Creating the directory of the topic keeps OwnershipInv.                   *)
LEMMA InitTopicPathInv ==
  ASSUME OwnershipInv, NEW p \in Pub, InitTopicPath(p)
  PROVE  OwnershipInv'
<1> USE DEF InitTopicPath, At, GoTo, procVars
<1>1. TypeOK /\ Ordered(p) /\ Owns(p)
  BY DEF OwnershipInv
<1>2. TypeOK'
  BY <1>1, MakeDirectoriesType DEF TypeOK, Step
<1>3. Ordered(p)'
  BY <1>1 DEF Ordered, TypeOK, Slot
<1>4. Owns(p)'
  BY <1>1 DEF Owns, Ordered, TypeOK
<1>5. \A q \in Pub \ {p} : Same(q)
  BY <1>1 DEF Same, TypeOK
<1>6. files' = files /\ ~Registrant(p)
  BY DEF MakeDirectories, Registrant
<1> QED
  BY <1>2, <1>3, <1>4, <1>5, <1>6, QuietStep

(* Reading fdinfo and going on to the next buffer keep it.                   *)
LEMMA UpdateBufferInfoInv ==
  ASSUME OwnershipInv, NEW p \in Pub, UpdateBufferInfo(p)
  PROVE  OwnershipInv'
<1> USE DEF UpdateBufferInfo, At, GoTo, procVars
<1>1. TypeOK /\ Ordered(p) /\ Owns(p)
  BY DEF OwnershipInv
<1>2. TypeOK'
  <2>1. queue_id[p] \in Slot
    BY <1>1 DEF TypeOK
  <2>2. (IF queue_id[p] < QueueSize THEN queue_id[p] + 1 ELSE queue_id[p]) \in Slot
    BY <2>1 DEF Slot
  <2>3. queue_id' \in [Pub -> Slot]
    BY <1>1, <2>2 DEF TypeOK
  <2>4. pc' \in [Pub -> Step]
    BY <1>1 DEF TypeOK, Step
  <2>5. DirTypeOK'
    BY <1>1, DirStutterType DEF TypeOK
  <2> QED
    BY <1>1, <2>3, <2>4, <2>5 DEF TypeOK
<1>3. Ordered(p)'
  BY <1>1 DEF Ordered, TypeOK, Slot
<1>4. Owns(p)'
  BY <1>1 DEF Owns, Active, TypeOK
<1>5. \A q \in Pub \ {p} : Same(q)
  BY <1>1 DEF Same, TypeOK
<1>6. files' = files /\ ~Registrant(p)
  BY DEF dirVars, Registrant
<1> QED
  BY <1>2, <1>3, <1>4, <1>5, <1>6, QuietStep

(* Filling the info buffer keeps it.                                         *)
LEMMA FillInfoInv ==
  ASSUME OwnershipInv, NEW p \in Pub, FillInfo(p)
  PROVE  OwnershipInv'
<1> USE DEF FillInfo, At, GoTo, procVars
<1>1. TypeOK /\ Ordered(p) /\ Owns(p)
  BY DEF OwnershipInv
<1>2. TypeOK'
  <2>1. WrittenInfo(p) \in Info
    BY <1>1 DEF WrittenInfo, Info, TypeOK, Slot
  <2>2. info' = [info EXCEPT ![p] = WrittenInfo(p)]
    BY DEF WrittenInfo
  <2>3. info' \in [Pub -> Info \union {Blank}]
    BY <1>1, <2>1, <2>2 DEF TypeOK
  <2>4. DirTypeOK'
    BY <1>1, DirStutterType DEF TypeOK
  <2> QED
    BY <1>1, <2>3, <2>4 DEF TypeOK, Step
<1>3. Ordered(p)'
  BY <1>1 DEF Ordered, TypeOK, Slot, WrittenInfo
<1>4. Owns(p)'
  BY <1>1 DEF Owns, Active, TypeOK
<1>5. \A q \in Pub \ {p} : Same(q)
  BY <1>1 DEF Same, TypeOK
<1>6. files' = files /\ ~Registrant(p)
  BY DEF dirVars, Registrant
<1> QED
  BY <1>2, <1>3, <1>4, <1>5, <1>6, QuietStep

(* A step that opens or closes descriptors of p and leaves the files alone.  *)
LEMMA TableStep ==
  ASSUME OwnershipInv, NEW p \in Pub, UNCHANGED alive, OnlyOwn(p), TypeOK',
         \A q \in Pub \ {p} : Same(q),
         Ordered(p)', Owns(p)', files' = files, ~Registrant(p)
  PROVE  OwnershipInv'
<1>1. \A q \in Pub : Ordered(q)' /\ Owns(q)'
  BY OwnStep
<1>2. \A q \in Pub : Registrant(q) => Registrant(q)' /\ InfoName(q)' = InfoName(q)
  BY DEF Registrant, InfoName, Same
<1>3. FilesRegistered'
  BY <1>2, KeepFiles DEF OwnershipInv
<1> QED
  BY <1>1, <1>3 DEF OwnershipInv

(* What opening and closing one descriptor does to the tables.               *)
LEMMA OpenedTable ==
  ASSUME TypeOK, NEW p \in Pub, NEW fd \in Fd, NEW object \in Object,
         LowestFree(Host[p], fd), Opened(p, fd, object)
  PROVE  /\ fds' \in [Proc -> [Fd -> Object \union {Free, Foreign}]]
         /\ OnlyOwn(p)
         /\ fds'[Host[p]][fd] = object
         /\ \A other \in Fd : fds[Host[p]][other] # Free
              => fds'[Host[p]][other] = fds[Host[p]][other]
  BY DEF TypeOK, LowestFree, Opened, OnlyOwn

(* Closing a descriptor of a publisher leaves all its other ones.            *)
LEMMA ClosedTable ==
  ASSUME TypeOK, NEW p \in Pub, NEW fd \in Fd, NEW k \in Kind, NEW i \in Slot,
         fds[Host[p]][fd] = <<k, p, i>>, Closed(p, fd)
  PROVE  /\ fds' \in [Proc -> [Fd -> Object \union {Free, Foreign}]]
         /\ OnlyOwn(p)
         /\ \A other \in Fd : fds[Host[p]][other] # <<k, p, i>>
              => fds'[Host[p]][other] = fds[Host[p]][other]
  BY DEF TypeOK, Closed, OnlyOwn

(* The objects of a publisher are none of the sentinels and pairwise         *)
(* different.                                                                *)
LEMMA Objects ==
  ASSUME NEW p \in Pub
  PROVE  /\ HeapOf(p) \in Object /\ EventOf(p) \in Object /\ FileOf(p) \in Object
         /\ \A i \in Slot : BufferOf(p, i) \in Object
         /\ HeapOf(p) # EventOf(p) /\ HeapOf(p) # FileOf(p) /\ EventOf(p) # FileOf(p)
         /\ \A i \in Slot : BufferOf(p, i) \notin {HeapOf(p), EventOf(p), FileOf(p)}
         /\ \A i, j \in Slot : BufferOf(p, i) = BufferOf(p, j) => i = j
         /\ Free \notin {HeapOf(p), EventOf(p), FileOf(p)}
         /\ \A i \in Slot : BufferOf(p, i) # Free
<1>1. 0 \in Slot
  BY DEF Slot
<1>2. /\ HeapOf(p) \in Object /\ EventOf(p) \in Object /\ FileOf(p) \in Object
      /\ \A i \in Slot : BufferOf(p, i) \in Object
  BY <1>1 DEF Object, HeapOf, EventOf, FileOf, BufferOf
<1>3. /\ HeapOf(p) # EventOf(p) /\ HeapOf(p) # FileOf(p) /\ EventOf(p) # FileOf(p)
      /\ \A i \in Slot : BufferOf(p, i) \notin {HeapOf(p), EventOf(p), FileOf(p)}
      /\ \A i, j \in Slot : BufferOf(p, i) = BufferOf(p, j) => i = j
  BY DEF HeapOf, EventOf, FileOf, BufferOf
<1> QED
  BY <1>2, <1>3

(* Opening the heap keeps it: the descriptor was free.                       *)
LEMMA OpenHeapInv ==
  ASSUME OwnershipInv, NEW p \in Pub, OpenHeap(p)
  PROVE  OwnershipInv'
<1>1. TypeOK /\ Ordered(p) /\ Owns(p)
  BY DEF OwnershipInv
<1>2. PICK fd \in Fd : /\ LowestFree(Host[p], fd)
                       /\ Opened(p, fd, HeapOf(p))
                       /\ heap_fd' = [heap_fd EXCEPT ![p] = fd]
  BY DEF OpenHeap
<1>3. /\ fds' \in [Proc -> [Fd -> Object \union {Free, Foreign}]]
      /\ OnlyOwn(p)
      /\ fds'[Host[p]][fd] = HeapOf(p)
      /\ \A other \in Fd : fds[Host[p]][other] # Free
           => fds'[Host[p]][other] = fds[Host[p]][other]
  BY <1>1, <1>2, Objects, OpenedTable
<1>4. TypeOK'
  <2>1. DirTypeOK'
    BY <1>1, DirStutterType DEF OpenHeap, TypeOK
  <2>2. heap_fd' \in [Pub -> FdOrNone]
    BY <1>1, <1>2 DEF TypeOK, FdOrNone
  <2> QED
    BY <1>1, <1>3, <2>1, <2>2 DEF OpenHeap, GoTo, TypeOK, Step
<1>5. Ordered(p)'
  BY <1>1 DEF OpenHeap, At, GoTo, Ordered, TypeOK
<1>6. Owns(p)'
  <2>1. Active(p) /\ pc'[p] = "allocate" /\ heap_fd'[p] = fd /\ fd # -1
    BY <1>1, <1>2 DEF OpenHeap, At, GoTo, Active, TypeOK, Fd
  <2>2. event_fd[p] # -1 => fds'[Host[p]][event_fd[p]] = EventOf(p)
    BY <1>1, <1>3, <2>1, Objects DEF Owns, TypeOK, FdOrNone
  <2>3. \A i \in Slot : buffer_fd[p][i] # -1
           => fds'[Host[p]][buffer_fd[p][i]] = BufferOf(p, i)
    BY <1>1, <1>3, <2>1, Objects DEF Owns, TypeOK, FdOrNone
  <2> QED
    BY <1>1, <1>3, <2>1, <2>2, <2>3
    DEF OpenHeap, At, Owns, Active, HeapOf, FileOf, EventOf, BufferOf
<1>7. \A q \in Pub \ {p} : Same(q)
  BY <1>1, <1>2 DEF OpenHeap, GoTo, Same, TypeOK
<1>8. files' = files /\ ~Registrant(p) /\ alive' = alive
  BY DEF OpenHeap, At, dirVars, Registrant
<1> QED
  BY <1>3, <1>4, <1>5, <1>6, <1>7, <1>8, TableStep

(* Allocating a buffer and closing the heap keep it.                         *)
LEMMA AllocateInv ==
  ASSUME OwnershipInv, NEW p \in Pub, Allocate(p)
  PROVE  OwnershipInv'
<1> DEFINE h == Host[p]
           n == queue_id[p]
           heap == heap_fd[p]
<1>1. TypeOK /\ Ordered(p) /\ Owns(p)
  BY DEF OwnershipInv
<1>2. PICK fd \in Fd :
        /\ LowestFree(h, fd)
        /\ fds' = [fds EXCEPT ![h][fd] = BufferOf(p, n), ![h][heap] = Free]
        /\ buffer_fd' = [buffer_fd EXCEPT ![p][n] = fd]
  BY DEF Allocate
<1>3. /\ h \in Proc /\ n \in Slot /\ heap \in Fd
      /\ fds[h][heap] = HeapOf(p) /\ fds[h][fd] = Free /\ fd # heap
      /\ Active(p) /\ fd # -1
  BY <1>1, <1>2, Objects
  DEF Allocate, At, Owns, Active, TypeOK, FdOrNone, LowestFree, Fd
<1> HIDE DEF h, n, heap
<1>4. /\ fds' \in [Proc -> [Fd -> Object \union {Free, Foreign}]]
      /\ fds'[h][fd] = BufferOf(p, n)
      /\ \A other \in Fd : other \notin {fd, heap} => fds'[h][other] = fds[h][other]
      /\ \A g \in Proc : g # h => fds'[g] = fds[g]
  BY <1>1, <1>2, <1>3, Objects DEF TypeOK
<1>5. OnlyOwn(p)
  <2>1. HeapOf(p) = <<"heap", p, 0>> /\ "heap" \in Kind /\ 0 \in Slot
    BY DEF HeapOf, Kind, Slot
  <2> QED
    BY <1>3, <1>4, <2>1 DEF OnlyOwn
<1>6. TypeOK'
  <2>1. DirTypeOK'
    BY <1>1, DirStutterType DEF Allocate, TypeOK
  <2>2. buffer_fd' \in [Pub -> [Slot -> FdOrNone]]
    BY <1>1, <1>2, <1>3 DEF TypeOK, FdOrNone
  <2>3. heap_fd' \in [Pub -> FdOrNone]
    BY <1>1 DEF Allocate, TypeOK, FdOrNone
  <2> QED
    BY <1>1, <1>4, <2>1, <2>2, <2>3 DEF Allocate, GoTo, TypeOK, Step
<1>7. /\ buffer_fd'[p][n] = fd
      /\ \A i \in Slot \ {n} : buffer_fd'[p][i] = buffer_fd[p][i]
  BY <1>1, <1>2, <1>3 DEF TypeOK
<1>8. Ordered(p)'
  <2>1. \A i \in Slot : buffer_fd[p][i] = -1 <=> i >= n
    BY <1>1 DEF Allocate, At, Ordered, n
  <2>2. \A i \in Slot : buffer_fd'[p][i] = -1 <=> i > n
    BY <1>3, <1>7, <2>1 DEF Slot
  <2>3. /\ pc'[p] = "update_buffer_info" /\ queue_id'[p] = n
        /\ event_fd'[p] = event_fd[p] /\ file_fd'[p] = file_fd[p]
    BY <1>1 DEF Allocate, GoTo, TypeOK, n
  <2>4. (n < QueueSize => event_fd[p] = -1) /\ file_fd[p] = -1
    BY <1>1 DEF Allocate, At, Ordered, n
  <2> QED
    BY <2>2, <2>3, <2>4 DEF Ordered
<1>9. Owns(p)'
  <2>1. /\ pc'[p] = "update_buffer_info" /\ event_fd'[p] = event_fd[p]
        /\ alive' = alive /\ h \in alive
    BY <1>1 DEF Allocate, At, GoTo, TypeOK, h
  <2>2. event_fd[p] # -1 => fds'[h][event_fd[p]] = EventOf(p)
    BY <1>1, <1>3, <1>4, Objects DEF Owns, TypeOK, FdOrNone, h
  <2>3. \A i \in Slot : buffer_fd[p][i] # -1
           => fds'[h][buffer_fd[p][i]] = BufferOf(p, i)
    <3> SUFFICES ASSUME NEW i \in Slot, buffer_fd[p][i] # -1
                 PROVE  fds'[h][buffer_fd[p][i]] = BufferOf(p, i)
      OBVIOUS
    <3>1. buffer_fd[p][i] \in Fd /\ fds[h][buffer_fd[p][i]] = BufferOf(p, i)
      BY <1>1, <1>3 DEF Owns, TypeOK, FdOrNone, h
    <3>2. buffer_fd[p][i] \notin {fd, heap}
      BY <1>3, <3>1, Objects
    <3> QED
      BY <1>4, <3>1, <3>2
  <2>4. \A i \in Slot : buffer_fd'[p][i] # -1
           => fds'[h][buffer_fd'[p][i]] = BufferOf(p, i)
    BY <1>3, <1>4, <1>7, <2>3
  <2> QED
    BY <2>1, <2>2, <2>4 DEF Owns, EventOf, BufferOf, h
<1>10. \A q \in Pub \ {p} : Same(q)
  BY <1>1, <1>2 DEF Allocate, GoTo, Same, TypeOK
<1>11. files' = files /\ ~Registrant(p) /\ alive' = alive
  BY DEF Allocate, At, dirVars, Registrant
<1> QED
  BY <1>5, <1>6, <1>8, <1>9, <1>10, <1>11, TableStep

(* Creating the event keeps it, whether eventfd succeeds or not.             *)
LEMMA CreateEventInv ==
  ASSUME OwnershipInv, NEW p \in Pub, CreateEvent(p)
  PROVE  OwnershipInv'
<1> DEFINE h == Host[p]
<1>1. TypeOK /\ Ordered(p) /\ Owns(p)
  BY DEF OwnershipInv
<1>2. DirTypeOK'
  BY <1>1, DirStutterType DEF CreateEvent, TypeOK
<1>3. Active(p) /\ pc[p] = "create_event" /\ pc'[p] = "open_heap"
  BY <1>1 DEF CreateEvent, At, GoTo, Active, TypeOK
<1>4. files' = files /\ ~Registrant(p) /\ alive' = alive
  BY DEF CreateEvent, At, dirVars, Registrant
<1>5. Ordered(p)'
  BY <1>1, <1>3 DEF CreateEvent, Ordered, TypeOK, Slot
<1>6. CASE Full(h) /\ UNCHANGED <<fds, event_fd>>
  <2>1. TypeOK'
    BY <1>1, <1>2, <1>6 DEF CreateEvent, GoTo, TypeOK, Step
  <2>2. Owns(p)'
    BY <1>1, <1>3, <1>6 DEF CreateEvent, Owns, Active
  <2>3. \A q \in Pub \ {p} : Same(q)
    BY <1>1, <1>6 DEF CreateEvent, GoTo, Same, TypeOK
  <2> QED
    BY <1>4, <1>5, <1>6, <2>1, <2>2, <2>3, QuietStep
<1>7. ASSUME NEW fd \in Fd, LowestFree(h, fd), Opened(p, fd, EventOf(p)),
             event_fd' = [event_fd EXCEPT ![p] = fd]
      PROVE  OwnershipInv'
  <2>1. /\ fds' \in [Proc -> [Fd -> Object \union {Free, Foreign}]]
        /\ OnlyOwn(p)
        /\ fds'[h][fd] = EventOf(p)
        /\ \A other \in Fd : fds[h][other] # Free => fds'[h][other] = fds[h][other]
    BY <1>1, <1>7, Objects, OpenedTable
  <2>2. TypeOK'
    <3>1. event_fd' \in [Pub -> FdOrNone]
      BY <1>1, <1>7 DEF TypeOK, FdOrNone
    <3> QED
      BY <1>1, <1>2, <2>1, <3>1 DEF CreateEvent, GoTo, TypeOK, Step
  <2>3. Owns(p)'
    <3>1. event_fd'[p] = fd
      BY <1>1, <1>7 DEF TypeOK
    <3>2. \A i \in Slot : buffer_fd[p][i] # -1
             => fds'[h][buffer_fd[p][i]] = BufferOf(p, i)
      BY <1>1, <1>3, <2>1, Objects DEF Owns, TypeOK, FdOrNone
    <3> QED
      BY <1>1, <1>3, <2>1, <3>1, <3>2 DEF CreateEvent, Owns, Active, EventOf, BufferOf
  <2>4. \A q \in Pub \ {p} : Same(q)
    BY <1>1, <1>7 DEF CreateEvent, GoTo, Same, TypeOK
  <2> QED
    BY <1>4, <1>5, <2>1, <2>2, <2>3, <2>4, TableStep
<1> QED
  BY <1>6, <1>7 DEF CreateEvent

(* Creating the info file keeps it: the publisher becomes its registrant.    *)
LEMMA OpenInfoFileInv ==
  ASSUME OwnershipInv, NEW p \in Pub, OpenInfoFile(p)
  PROVE  OwnershipInv'
<1> DEFINE h == Host[p]
<1>1. TypeOK /\ Ordered(p) /\ Owns(p) /\ FilesRegistered
  BY DEF OwnershipInv
<1>2. /\ Active(p) /\ pc[p] = "open_file" /\ pc'[p] = "close_file" /\ alive' = alive
      /\ ~Registrant(p)
  BY <1>1 DEF OpenInfoFile, At, GoTo, Active, TypeOK, Registrant
<1>3. Ordered(p)'
  BY <1>1, <1>2 DEF OpenInfoFile, Ordered, WrittenInfo
<1>4. CASE ~MayOpenFile(p) /\ UNCHANGED <<dirVars, fds, file_fd>>
  <2>1. TypeOK'
    BY <1>1, <1>4, DirStutterType DEF OpenInfoFile, GoTo, TypeOK, Step
  <2>2. file_fd[p] # -1 => fds[h][file_fd[p]] = FileOf(p)
    BY <1>1, <1>2 DEF Ordered
  <2>3. Owns(p)'
    BY <1>1, <1>2, <1>4, <2>2 DEF OpenInfoFile, Owns, Active
  <2>4. \A q \in Pub \ {p} : Same(q)
    BY <1>1, <1>4 DEF OpenInfoFile, GoTo, Same, TypeOK
  <2>5. files' = files
    BY <1>4 DEF dirVars
  <2> QED
    BY <1>2, <1>3, <1>4, <2>1, <2>3, <2>4, <2>5, QuietStep
<1>5. ASSUME NEW fd \in Fd, LowestFree(h, fd), CreateFile(InfoName(p)),
             Opened(p, fd, FileOf(p)), file_fd' = [file_fd EXCEPT ![p] = fd]
      PROVE  OwnershipInv'
  <2>1. /\ fds' \in [Proc -> [Fd -> Object \union {Free, Foreign}]]
        /\ OnlyOwn(p)
        /\ fds'[h][fd] = FileOf(p)
        /\ \A other \in Fd : fds[h][other] # Free => fds'[h][other] = fds[h][other]
    BY <1>1, <1>5, Objects, OpenedTable
  <2>2. InfoName(p) \in Name
    <3>1. QueueSize \in Slot
      BY DEF Slot
    <3>2. buffer_fd[p][QueueSize] \in Fd
      BY <1>1, <1>2, <3>1 DEF Ordered, TypeOK, FdOrNone
    <3> QED
      BY <3>2 DEF InfoName, Fd
  <2>3. TypeOK'
    <3>1. DirTypeOK'
      BY <1>1, <1>5, <2>2, CreateFileType DEF TypeOK
    <3>2. file_fd' \in [Pub -> FdOrNone]
      BY <1>1, <1>5 DEF TypeOK, FdOrNone
    <3> QED
      BY <1>1, <2>1, <3>1, <3>2 DEF OpenInfoFile, GoTo, TypeOK, Step
  <2>4. file_fd'[p] = fd /\ fd # -1
    BY <1>1, <1>5 DEF TypeOK, Fd
  <2>5. Owns(p)'
    <3>1. \A i \in Slot : buffer_fd[p][i] # -1
             => fds'[h][buffer_fd[p][i]] = BufferOf(p, i)
      BY <1>1, <1>2, <2>1, Objects DEF Owns, TypeOK, FdOrNone
    <3>2. event_fd[p] # -1 => fds'[h][event_fd[p]] = EventOf(p)
      BY <1>1, <1>2, <2>1, Objects DEF Owns, TypeOK, FdOrNone
    <3> QED
      BY <1>1, <1>2, <2>1, <2>4, <3>1, <3>2
      DEF OpenInfoFile, Owns, Active, EventOf, BufferOf, FileOf
  <2>6. \A q \in Pub \ {p} : Same(q)
    BY <1>1, <1>5 DEF OpenInfoFile, GoTo, Same, TypeOK
  <2>7. \A q \in Pub : Ordered(q)' /\ Owns(q)'
    BY <1>2, <1>3, <2>1, <2>5, <2>6, OwnStep
  <2>8. FilesRegistered'
    <3> SUFFICES ASSUME NEW n \in files'
                 PROVE  \E q \in Pub : InfoName(q)' = n /\ Registrant(q)'
      BY DEF FilesRegistered
    <3>1. CASE n = InfoName(p)
      <4>1. InfoName(p)' = n /\ Registrant(p)'
        BY <1>2, <2>4, <3>1 DEF OpenInfoFile, InfoName, Registrant
      <4> QED
        BY <4>1
    <3>2. CASE n # InfoName(p)
      <4>1. n \in files
        BY <1>5, <3>2 DEF CreateFile
      <4>2. PICK q \in Pub : InfoName(q) = n /\ Registrant(q)
        BY <1>1, <4>1 DEF FilesRegistered
      <4>3. q # p
        BY <3>2, <4>2
      <4> QED
        BY <2>6, <4>2, <4>3 DEF Same, InfoName, Registrant
    <3> QED
      BY <3>1, <3>2
  <2> QED
    BY <2>3, <2>7, <2>8 DEF OwnershipInv
<1> QED
  BY <1>4, <1>5 DEF OpenInfoFile

(* Closing the info file keeps it: the registrant stays one.                 *)
LEMMA CloseInfoFileInv ==
  ASSUME OwnershipInv, NEW p \in Pub, CloseInfoFile(p)
  PROVE  OwnershipInv'
<1> DEFINE h == Host[p]
<1>1. TypeOK /\ Ordered(p) /\ Owns(p) /\ FilesRegistered
  BY DEF OwnershipInv
<1>2. /\ Active(p) /\ pc[p] = "close_file" /\ pc'[p] = "running" /\ alive' = alive
      /\ h \in alive
  BY <1>1 DEF CloseInfoFile, At, GoTo, Active, TypeOK
<1>3. Ordered(p)'
  BY <1>1, <1>2 DEF CloseInfoFile, Ordered, WrittenInfo
<1>4. \A q \in Pub \ {p} : Same(q)
  BY <1>1 DEF CloseInfoFile, GoTo, Same, TypeOK
<1>5. files' = files
  BY DEF CloseInfoFile, CloseFile, dirVars
<1>6. FilesRegistered'
  <2>1. \A q \in Pub : Registrant(q) => Registrant(q)' /\ InfoName(q)' = InfoName(q)
    BY <1>2, <1>4 DEF CloseInfoFile, Registrant, InfoName, Same
  <2> QED
    BY <1>1, <1>5, <2>1, KeepFiles
<1>7. TypeOK' /\ OnlyOwn(p) /\ Owns(p)'
  <2>1. CASE file_fd[p] = -1
    <3>1. UNCHANGED <<dirVars, fds>>
      BY <2>1 DEF CloseInfoFile
    <3>2. TypeOK'
      BY <1>1, <3>1, DirStutterType DEF CloseInfoFile, GoTo, TypeOK, Step
    <3>3. Owns(p)'
      BY <1>1, <1>2, <3>1 DEF CloseInfoFile, Owns
    <3> QED
      BY <3>1, <3>2, <3>3 DEF OnlyOwn
  <2>2. CASE file_fd[p] # -1
    <3>1. Closed(p, file_fd[p]) /\ CloseFile(InfoName(p))
      BY <2>2 DEF CloseInfoFile
    <3>2. /\ file_fd[p] \in Fd
          /\ fds[h][file_fd[p]] = <<"file", p, 0>>
          /\ "file" \in Kind /\ 0 \in Slot
      BY <1>1, <1>2, <2>2 DEF Owns, FileOf, TypeOK, FdOrNone, Kind, Slot
    <3>3. /\ fds' \in [Proc -> [Fd -> Object \union {Free, Foreign}]]
          /\ OnlyOwn(p)
          /\ \A other \in Fd : fds[h][other] # FileOf(p)
               => fds'[h][other] = fds[h][other]
      BY <1>1, <3>1, <3>2, ClosedTable DEF FileOf
    <3>4. InfoName(p) \in Name
      <4>1. QueueSize \in Slot
        BY DEF Slot
      <4>2. buffer_fd[p][QueueSize] \in Fd
        BY <1>1, <1>2, <4>1 DEF Ordered, TypeOK, FdOrNone
      <4> QED
        BY <4>2 DEF InfoName, Fd
    <3>5. DirTypeOK'
      BY <1>1, <3>1, <3>4, CloseFileType DEF TypeOK
    <3>6. TypeOK'
      BY <1>1, <3>3, <3>5 DEF CloseInfoFile, GoTo, TypeOK, Step
    <3>7. \A i \in Slot : buffer_fd[p][i] # -1
             => fds'[h][buffer_fd[p][i]] = BufferOf(p, i)
      BY <1>1, <1>2, <3>3, Objects DEF Owns, TypeOK, FdOrNone
    <3>8. event_fd[p] # -1 => fds'[h][event_fd[p]] = EventOf(p)
      BY <1>1, <1>2, <3>3, Objects DEF Owns, TypeOK, FdOrNone
    <3>9. Owns(p)'
      BY <1>2, <3>7, <3>8 DEF CloseInfoFile, Owns, EventOf, BufferOf
    <3> QED
      BY <3>3, <3>6, <3>9
  <2> QED
    BY <2>1, <2>2
<1>8. \A q \in Pub : Ordered(q)' /\ Owns(q)'
  BY <1>2, <1>3, <1>4, <1>7, OwnStep
<1> QED
  BY <1>6, <1>7, <1>8 DEF OwnershipInv
-----------------------------------------------------------------------------
(* The steps of the destructor. *)

(* Removing the info file keeps it: what stays was registered by others.     *)
LEMMA RemoveInfoFileInv ==
  ASSUME OwnershipInv, NEW p \in Pub, RemoveInfoFile(p)
  PROVE  OwnershipInv'
<1>1. TypeOK /\ Ordered(p) /\ Owns(p) /\ FilesRegistered
  BY DEF OwnershipInv
<1>2. /\ pc[p] = "running" /\ pc'[p] = "reset_info" /\ UNCHANGED <<alive, fds>>
      /\ files' = files \ {InfoName(p)}
  BY <1>1 DEF RemoveInfoFile, Unlink, At, GoTo, TypeOK, procVars
<1>3. TypeOK'
  <2>1. DirTypeOK'
    BY <1>1, UnlinkType DEF RemoveInfoFile, TypeOK
  <2> QED
    BY <1>1, <2>1 DEF RemoveInfoFile, GoTo, TypeOK, Step, procVars
<1>4. Ordered(p)'
  BY <1>1, <1>2 DEF Ordered
<1>5. Owns(p)'
  BY <1>1, <1>2 DEF RemoveInfoFile, Owns, Active
<1>6. \A q \in Pub \ {p} : Same(q)
  BY <1>1 DEF RemoveInfoFile, GoTo, Same, TypeOK
<1>7. \A q \in Pub : Ordered(q)' /\ Owns(q)'
  BY <1>2, <1>4, <1>5, <1>6, OwnStep DEF OnlyOwn
<1>8. FilesRegistered'
  <2> SUFFICES ASSUME NEW n \in files'
               PROVE  \E q \in Pub : InfoName(q)' = n /\ Registrant(q)'
    BY DEF FilesRegistered
  <2>1. n \in files /\ n # InfoName(p)
    BY <1>2
  <2>2. PICK q \in Pub : InfoName(q) = n /\ Registrant(q)
    BY <1>1, <2>1 DEF FilesRegistered
  <2>3. q # p
    BY <2>1, <2>2
  <2> QED
    BY <1>6, <2>2, <2>3 DEF Same, InfoName, Registrant
<1> QED
  BY <1>3, <1>7, <1>8 DEF OwnershipInv

(* What ~DMABuffer leaves: the other descriptors of the publisher.           *)
LEMMA ResetBufferTable ==
  ASSUME OwnershipInv, NEW p \in Pub, NEW i \in Slot, Active(p), ResetBuffer(p, i),
         pc[p] \notin {"allocate", "close_file"}
  PROVE  /\ fds' \in [Proc -> [Fd -> Object \union {Free, Foreign}]]
         /\ OnlyOwn(p)
         /\ buffer_fd' \in [Pub -> [Slot -> FdOrNone]]
         /\ buffer_fd'[p][i] = -1
         /\ \A j \in Slot \ {i} : buffer_fd'[p][j] = buffer_fd[p][j]
         /\ \A q \in Pub \ {p} : buffer_fd'[q] = buffer_fd[q]
         /\ event_fd[p] # -1 => fds'[Host[p]][event_fd[p]] = EventOf(p)
         /\ \A j \in Slot : buffer_fd'[p][j] # -1
              => fds'[Host[p]][buffer_fd'[p][j]] = BufferOf(p, j)
<1> DEFINE h == Host[p]
<1>1. TypeOK /\ Owns(p)
  BY DEF OwnershipInv
<1>2. /\ buffer_fd' \in [Pub -> [Slot -> FdOrNone]]
      /\ buffer_fd'[p][i] = -1
      /\ \A j \in Slot \ {i} : buffer_fd'[p][j] = buffer_fd[p][j]
      /\ \A q \in Pub \ {p} : buffer_fd'[q] = buffer_fd[q]
  BY <1>1 DEF ResetBuffer, TypeOK, FdOrNone
<1>3. /\ event_fd[p] # -1 => fds[h][event_fd[p]] = EventOf(p)
      /\ \A j \in Slot : buffer_fd[p][j] # -1 => fds[h][buffer_fd[p][j]] = BufferOf(p, j)
  BY <1>1 DEF Owns
<1>4. CASE buffer_fd[p][i] <= 0
  <2>1. fds' = fds
    BY <1>4 DEF ResetBuffer
  <2> QED
    BY <1>1, <1>2, <1>3, <2>1 DEF TypeOK, OnlyOwn
<1>5. CASE ~(buffer_fd[p][i] <= 0)
  <2>1. Closed(p, buffer_fd[p][i])
    BY <1>5 DEF ResetBuffer
  <2>2. buffer_fd[p][i] \in Fd /\ buffer_fd[p][i] # -1
    BY <1>1, <1>5 DEF TypeOK, FdOrNone, Fd
  <2>3. fds[h][buffer_fd[p][i]] = <<"buffer", p, i>> /\ "buffer" \in Kind
    BY <1>3, <2>2 DEF BufferOf, Kind
  <2>4. /\ fds' \in [Proc -> [Fd -> Object \union {Free, Foreign}]]
        /\ OnlyOwn(p)
        /\ \A other \in Fd : fds[h][other] # BufferOf(p, i)
             => fds'[h][other] = fds[h][other]
    BY <1>1, <2>1, <2>2, <2>3, ClosedTable DEF BufferOf
  <2>5. event_fd[p] # -1 => fds'[h][event_fd[p]] = EventOf(p)
    BY <1>1, <1>3, <2>4, Objects DEF TypeOK, FdOrNone
  <2>6. \A j \in Slot : buffer_fd'[p][j] # -1
          => fds'[h][buffer_fd'[p][j]] = BufferOf(p, j)
    <3> SUFFICES ASSUME NEW j \in Slot, buffer_fd'[p][j] # -1
                 PROVE  fds'[h][buffer_fd'[p][j]] = BufferOf(p, j)
      OBVIOUS
    <3>1. j # i /\ buffer_fd'[p][j] = buffer_fd[p][j] /\ buffer_fd[p][j] \in Fd
      BY <1>1, <1>2 DEF TypeOK, FdOrNone
    <3>2. fds[h][buffer_fd[p][j]] = BufferOf(p, j)
      BY <1>3, <3>1
    <3>3. BufferOf(p, j) # BufferOf(p, i)
      BY <3>1, Objects
    <3> HIDE DEF h
    <3> QED
      BY <2>4, <3>1, <3>2, <3>3
  <2> QED
    BY <1>2, <2>4, <2>5, <2>6
<1> QED
  BY <1>4, <1>5

(* Closing the info buffer keeps it.                                         *)
LEMMA ResetInfoBufferInv ==
  ASSUME OwnershipInv, NEW p \in Pub, ResetInfoBuffer(p)
  PROVE  OwnershipInv'
<1>1. TypeOK /\ Ordered(p) /\ Owns(p)
  BY DEF OwnershipInv
<1>2. /\ Active(p) /\ pc[p] = "reset_info" /\ alive' = alive
      /\ pc'[p] \in {"reset_buffers", "reset_event"}
      /\ pc'[p] = "reset_buffers" => queue_id'[p] < QueueSize
  BY <1>1 DEF ResetInfoBuffer, At, GoTo, Active, TypeOK
<1>3. QueueSize \in Slot
  BY DEF Slot
<1>4. /\ fds' \in [Proc -> [Fd -> Object \union {Free, Foreign}]]
      /\ OnlyOwn(p)
      /\ buffer_fd' \in [Pub -> [Slot -> FdOrNone]]
      /\ \A q \in Pub \ {p} : buffer_fd'[q] = buffer_fd[q]
      /\ event_fd[p] # -1 => fds'[Host[p]][event_fd[p]] = EventOf(p)
      /\ \A j \in Slot : buffer_fd'[p][j] # -1
           => fds'[Host[p]][buffer_fd'[p][j]] = BufferOf(p, j)
  BY <1>2, <1>3, ResetBufferTable DEF ResetInfoBuffer
<1>5. TypeOK'
  <2>1. DirTypeOK'
    BY <1>1, DirStutterType DEF ResetInfoBuffer, TypeOK
  <2>2. queue_id' \in [Pub -> Slot]
    BY <1>1 DEF ResetInfoBuffer, TypeOK, Slot
  <2> QED
    BY <1>1, <1>4, <2>1, <2>2 DEF ResetInfoBuffer, GoTo, TypeOK, Step
<1>6. Ordered(p)'
  BY <1>1, <1>2 DEF Ordered
<1>7. Owns(p)'
  BY <1>1, <1>2, <1>4 DEF ResetInfoBuffer, Owns, EventOf, BufferOf
<1>8. \A q \in Pub \ {p} : Same(q)
  BY <1>1, <1>4 DEF ResetInfoBuffer, GoTo, Same, TypeOK
<1>9. files' = files /\ ~Registrant(p)
  BY <1>2 DEF ResetInfoBuffer, dirVars, Registrant
<1> QED
  BY <1>2, <1>4, <1>5, <1>6, <1>7, <1>8, <1>9, TableStep

(* Closing a message buffer keeps it.                                        *)
LEMMA ResetDmaBufferInv ==
  ASSUME OwnershipInv, NEW p \in Pub, ResetDmaBuffer(p)
  PROVE  OwnershipInv'
<1>1. TypeOK /\ Ordered(p) /\ Owns(p)
  BY DEF OwnershipInv
<1>2. /\ Active(p) /\ pc[p] = "reset_buffers" /\ alive' = alive
      /\ queue_id[p] \in Slot /\ queue_id[p] < QueueSize
      /\ queue_id'[p] = queue_id[p] + 1
      /\ pc'[p] = IF queue_id[p] = QueueSize - 1 THEN "reset_event" ELSE "reset_buffers"
  BY <1>1 DEF ResetDmaBuffer, At, GoTo, Active, TypeOK, Ordered
<1>3. /\ fds' \in [Proc -> [Fd -> Object \union {Free, Foreign}]]
      /\ OnlyOwn(p)
      /\ buffer_fd' \in [Pub -> [Slot -> FdOrNone]]
      /\ \A q \in Pub \ {p} : buffer_fd'[q] = buffer_fd[q]
      /\ event_fd[p] # -1 => fds'[Host[p]][event_fd[p]] = EventOf(p)
      /\ \A j \in Slot : buffer_fd'[p][j] # -1
           => fds'[Host[p]][buffer_fd'[p][j]] = BufferOf(p, j)
  BY <1>2, ResetBufferTable DEF ResetDmaBuffer
<1>4. TypeOK'
  <2>1. DirTypeOK'
    BY <1>1, DirStutterType DEF ResetDmaBuffer, TypeOK
  <2>2. queue_id[p] + 1 \in Slot
    BY <1>2 DEF Slot
  <2>3. queue_id' \in [Pub -> Slot]
    BY <1>1, <2>2 DEF ResetDmaBuffer, TypeOK
  <2> QED
    BY <1>1, <1>3, <2>1, <2>3 DEF ResetDmaBuffer, GoTo, TypeOK, Step
<1>5. Ordered(p)'
  <2>1. pc'[p] = "reset_buffers" => queue_id'[p] < QueueSize
    BY <1>2 DEF Slot
  <2> QED
    BY <1>2, <2>1 DEF Ordered
<1>6. Owns(p)'
  BY <1>1, <1>2, <1>3 DEF ResetDmaBuffer, Owns, EventOf, BufferOf
<1>7. \A q \in Pub \ {p} : Same(q)
  BY <1>1, <1>3 DEF ResetDmaBuffer, GoTo, Same, TypeOK
<1>8. files' = files /\ ~Registrant(p)
  BY <1>2 DEF ResetDmaBuffer, dirVars, Registrant
<1> QED
  BY <1>2, <1>3, <1>4, <1>5, <1>6, <1>7, <1>8, TableStep

(* Closing the event keeps it.                                               *)
LEMMA ResetEventInv ==
  ASSUME OwnershipInv, NEW p \in Pub, ResetEvent(p)
  PROVE  OwnershipInv'
<1>1. TypeOK /\ Ordered(p) /\ Owns(p)
  BY DEF OwnershipInv
<1>2. /\ pc[p] = "reset_event" /\ pc'[p] = "destroyed" /\ alive' = alive
      /\ files' = files /\ ~Registrant(p)
  BY <1>1 DEF ResetEvent, At, GoTo, TypeOK, dirVars, Registrant
<1>3. DirTypeOK'
  BY <1>1, DirStutterType DEF ResetEvent, TypeOK
<1>4. Ordered(p)' /\ Owns(p)'
  BY <1>2 DEF Ordered, Owns, Active
<1>5. \A q \in Pub \ {p} : Same(q)
  BY <1>1 DEF ResetEvent, GoTo, Same, TypeOK
<1>6. /\ fds' \in [Proc -> [Fd -> Object \union {Free, Foreign}]]
      /\ OnlyOwn(p)
  <2>1. CASE event_fd[p] > 0
    <3>1. /\ event_fd[p] \in Fd /\ "event" \in Kind /\ 0 \in Slot
          /\ fds[Host[p]][event_fd[p]] = <<"event", p, 0>>
      BY <1>1, <1>2, <2>1 DEF Owns, Active, EventOf, TypeOK, FdOrNone, Kind, Slot
    <3>2. Closed(p, event_fd[p])
      BY <2>1 DEF ResetEvent
    <3> QED
      BY <1>1, <3>1, <3>2, ClosedTable
  <2>2. CASE ~(event_fd[p] > 0)
    BY <1>1, <2>2 DEF ResetEvent, TypeOK, OnlyOwn
  <2> QED
    BY <2>1, <2>2
<1>7. TypeOK'
  <2>1. event_fd' \in [Pub -> FdOrNone]
    BY <1>1 DEF ResetEvent, TypeOK, FdOrNone
  <2> QED
    BY <1>1, <1>3, <1>6, <2>1 DEF ResetEvent, GoTo, TypeOK, Step
<1> QED
  BY <1>2, <1>4, <1>5, <1>6, <1>7, TableStep
-----------------------------------------------------------------------------
(* The steps of processes and of the cleaner. *)

(* The kernel closes the file of a killed publisher: its name stays a        *)
(* registered one.                                                           *)
LEMMA KernelClosesFileInv ==
  ASSUME OwnershipInv, NEW p \in Pub, KernelClosesFile(p)
  PROVE  OwnershipInv'
<1>1. TypeOK /\ Ordered(p) /\ Owns(p) /\ FilesRegistered
  BY DEF OwnershipInv
<1>2. /\ pc[p] = "exiting" /\ pc'[p] = "killed" /\ UNCHANGED <<alive, fds>>
      /\ files' = files
  BY <1>1 DEF KernelClosesFile, CloseFile, GoTo, TypeOK, procVars
<1>3. TypeOK'
  <2>1. InfoName(p) \in Name
    <3>1. QueueSize \in Slot
      BY DEF Slot
    <3>2. buffer_fd[p][QueueSize] \in Fd
      BY <1>1, <1>2, <3>1 DEF Ordered, TypeOK, FdOrNone
    <3> QED
      BY <3>2 DEF InfoName, Fd
  <2>2. DirTypeOK'
    BY <1>1, <2>1, CloseFileType DEF KernelClosesFile, TypeOK
  <2> QED
    BY <1>1, <2>2 DEF KernelClosesFile, GoTo, TypeOK, Step, procVars
<1>4. Ordered(p)' /\ Owns(p)'
  BY <1>2 DEF Ordered, Owns, Active
<1>5. \A q \in Pub \ {p} : Same(q)
  BY <1>1 DEF KernelClosesFile, GoTo, Same, TypeOK
<1>6. \A q \in Pub : Ordered(q)' /\ Owns(q)'
  BY <1>2, <1>4, <1>5, OwnStep DEF OnlyOwn
<1>7. \A q \in Pub : Registrant(q) => Registrant(q)' /\ InfoName(q)' = InfoName(q)
  BY <1>2, <1>5 DEF KernelClosesFile, Registrant, InfoName, Same
<1>8. FilesRegistered'
  BY <1>1, <1>2, <1>7, KeepFiles
<1> QED
  BY <1>3, <1>6, <1>8 DEF OwnershipInv

(* A process ends: its publishers have nothing any more but what they left   *)
(* in the directory; those of other processes are not touched.               *)
LEMMA ExitInv ==
  ASSUME OwnershipInv, NEW h \in Proc, Exit(h)
  PROVE  OwnershipInv'
<1>1. TypeOK /\ FilesRegistered /\ \A q \in Pub : Ordered(q) /\ Owns(q)
  BY DEF OwnershipInv
<1>2. \A q \in Pub : pc'[q] = IF Host[q] # h \/ pc[q] \in {"idle", "destroyed", "exiting", "killed"}
                              THEN pc[q]
                              ELSE IF pc[q] = "close_file" /\ file_fd[q] # -1 THEN "exiting"
                              ELSE "killed"
  BY DEF Exit
<1>3. TypeOK'
  <2>1. DirTypeOK'
    BY <1>1, DirStutterType DEF Exit, TypeOK
  <2>2. pc' \in [Pub -> Step]
    BY <1>1 DEF Exit, TypeOK, Step
  <2>3. fds' \in [Proc -> [Fd -> Object \union {Free, Foreign}]]
    BY <1>1 DEF Exit, TypeOK
  <2> QED
    BY <1>1, <2>1, <2>2, <2>3 DEF Exit, TypeOK
<1>4. \A q \in Pub : Ordered(q)'
  <2> SUFFICES ASSUME NEW q \in Pub PROVE Ordered(q)'
    OBVIOUS
  <2>1. /\ Ordered(q)
        /\ \/ pc'[q] = pc[q]
           \/ pc'[q] = "exiting" /\ pc[q] = "close_file"
           \/ pc'[q] = "killed"
    BY <1>1, <1>2
  <2>2. CASE pc'[q] = pc[q]
    BY <2>1, <2>2 DEF Exit, Ordered, WrittenInfo
  <2>3. CASE pc'[q] = "exiting" /\ pc[q] = "close_file"
    BY <2>1, <2>3 DEF Exit, Ordered
  <2>4. CASE pc'[q] = "killed"
    BY <2>4 DEF Ordered
  <2> QED
    BY <2>1, <2>2, <2>3, <2>4
<1>5. \A q \in Pub : Owns(q)'
  <2> SUFFICES ASSUME NEW q \in Pub, Active(q)' PROVE Owns(q)'
    BY DEF Owns
  <2>1. Host[q] \in Proc /\ Host[q] # h /\ pc'[q] = pc[q] /\ Active(q)
    BY <1>2 DEF Active
  <2>2. fds'[Host[q]] = fds[Host[q]] /\ (Host[q] \in alive => Host[q] \in alive')
    BY <1>1, <2>1 DEF Exit, TypeOK
  <2> QED
    BY <1>1, <2>1, <2>2 DEF Exit, Owns, Active, HeapOf, FileOf, EventOf, BufferOf
<1>6. FilesRegistered'
  <2>1. \A q \in Pub : Registrant(q) => Registrant(q)' /\ InfoName(q)' = InfoName(q)
    BY <1>2 DEF Exit, Registrant, InfoName
  <2> QED
    BY <1>1, <2>1, KeepFiles DEF Exit, dirVars
<1> QED
  BY <1>3, <1>4, <1>5, <1>6 DEF OwnershipInv

(* A new process has nothing of the publishers of its predecessors.          *)
LEMMA BootInv ==
  ASSUME OwnershipInv, NEW h \in Proc, Boot(h)
  PROVE  OwnershipInv'
<1>1. TypeOK /\ FilesRegistered /\ \A q \in Pub : Ordered(q) /\ Owns(q)
  BY DEF OwnershipInv
<1> USE DEF Boot, pubVars
<1>2. TypeOK'
  <2>1. DirTypeOK'
    BY <1>1, DirStutterType DEF TypeOK
  <2>2. boot' \in [Proc -> 1 .. MaxBoots]
    BY <1>1 DEF TypeOK
  <2>3. fds' \in [Proc -> [Fd -> Object \union {Free, Foreign}]]
    BY <1>1 DEF TypeOK, Baseline
  <2> QED
    BY <1>1, <2>1, <2>2, <2>3 DEF TypeOK
<1>3. \A q \in Pub : Ordered(q)'
  BY <1>1, SameOrdered DEF Same
<1>4. \A q \in Pub : Owns(q)'
  <2> SUFFICES ASSUME NEW q \in Pub, Active(q)' PROVE Owns(q)'
    BY DEF Owns
  <2>1. Active(q) /\ Host[q] \in alive /\ Host[q] # h /\ Host[q] \in Proc
    BY <1>1 DEF Active, Owns
  <2>2. fds'[Host[q]] = fds[Host[q]] /\ Host[q] \in alive'
    BY <1>1, <2>1 DEF TypeOK
  <2>3. Same(q)
    BY DEF Same
  <2> QED
    BY <1>1, <2>2, <2>3, SameTable
<1>5. FilesRegistered'
  <2>1. \A q \in Pub : Registrant(q) => Registrant(q)' /\ InfoName(q)' = InfoName(q)
    BY DEF Registrant, InfoName
  <2> QED
    BY <1>1, <2>1, KeepFiles DEF dirVars
<1> QED
  BY <1>2, <1>3, <1>4, <1>5 DEF OwnershipInv

(* A step that changes nothing but the directory, and creates no file.       *)
LEMMA DirectoryInv ==
  ASSUME OwnershipInv, UNCHANGED <<procVars, pubVars>>, DirTypeOK', files' \subseteq files
  PROVE  OwnershipInv'
<1> USE DEF procVars, pubVars
<1>1. TypeOK /\ FilesRegistered /\ \A q \in Pub : Ordered(q) /\ Owns(q)
  BY DEF OwnershipInv
<1>2. TypeOK'
  BY <1>1 DEF TypeOK
<1>3. \A q \in Pub : Ordered(q)' /\ Owns(q)'
  BY <1>1, SameOrdered, SameTable DEF Same
<1>4. \A q \in Pub : Registrant(q) => Registrant(q)' /\ InfoName(q)' = InfoName(q)
  BY DEF Registrant, InfoName
<1>5. FilesRegistered'
  BY <1>1, <1>4, KeepFiles
<1> QED
  BY <1>2, <1>3, <1>5 DEF OwnershipInv
-----------------------------------------------------------------------------
(* OwnershipInv holds at the start, when nothing is built.                   *)
LEMMA InitInv == Init => OwnershipInv
<1> SUFFICES ASSUME Init PROVE OwnershipInv
  OBVIOUS
<1>1. TypeOK
  <2>1. DirTypeOK
    BY DirInitType DEF Init
  <2>2. fds \in [Proc -> [Fd -> Object \union {Free, Foreign}]]
    BY DEF Init, Baseline
  <2>3. queue_id \in [Pub -> Slot] /\ boot \in [Proc -> 1 .. MaxBoots]
    BY DEF Init, Slot
  <2>4. buffer_fd \in [Pub -> [Slot -> FdOrNone]]
    BY DEF Init, FdOrNone
  <2> QED
    BY <2>1, <2>2, <2>3, <2>4 DEF Init, TypeOK, Step, FdOrNone
<1>2. \A p \in Pub : Ordered(p) /\ Owns(p)
  BY DEF Init, Ordered, Owns, Active
<1>3. FilesRegistered
  BY DEF Init, DirInit, FilesRegistered
<1> QED
  BY <1>1, <1>2, <1>3 DEF OwnershipInv

(* Every step of publishers, processes and the cleaner keeps OwnershipInv.   *)
LEMMA NextInv == OwnershipInv /\ [Next]_vars => OwnershipInv'
<1> SUFFICES ASSUME OwnershipInv, [Next]_vars PROVE OwnershipInv'
  OBVIOUS
<1>1. TypeOK
  BY DEF OwnershipInv
<1>2. ASSUME NEW p \in Pub, Publisher(p) PROVE OwnershipInv'
  <2>1. CASE InitTopicPath(p)
    BY <2>1, InitTopicPathInv
  <2>2. CASE OpenHeap(p)
    BY <2>2, OpenHeapInv
  <2>3. CASE Allocate(p)
    BY <2>3, AllocateInv
  <2>4. CASE UpdateBufferInfo(p)
    BY <2>4, UpdateBufferInfoInv
  <2>5. CASE AllocationRaises(p)
    BY <2>5, ExitInv DEF AllocationRaises
  <2>6. CASE CreateEvent(p)
    BY <2>6, CreateEventInv
  <2>7. CASE FillInfo(p)
    BY <2>7, FillInfoInv
  <2>8. CASE OpenInfoFile(p)
    BY <2>8, OpenInfoFileInv
  <2>9. CASE CloseInfoFile(p)
    BY <2>9, CloseInfoFileInv
  <2>10. CASE RemoveInfoFile(p)
    BY <2>10, RemoveInfoFileInv
  <2>11. CASE ResetInfoBuffer(p)
    BY <2>11, ResetInfoBufferInv
  <2>12. CASE ResetDmaBuffer(p)
    BY <2>12, ResetDmaBufferInv
  <2>13. CASE ResetEvent(p)
    BY <2>13, ResetEventInv
  <2>14. CASE KernelClosesFile(p)
    BY <2>14, KernelClosesFileInv
  <2> QED
    BY <1>2, <2>1, <2>2, <2>3, <2>4, <2>5, <2>6, <2>7, <2>8, <2>9, <2>10, <2>11, <2>12,
       <2>13, <2>14 DEF Publisher, Construct, Destruct
<1>3. ASSUME NEW h \in Proc, Process(h) PROVE OwnershipInv'
  BY <1>3, ExitInv, BootInv DEF Process, ProcessExits
<1>4. CASE Cleaner /\ UNCHANGED <<procVars, pubVars>>
  BY <1>1, <1>4, CleanerType, DirectoryInv DEF TypeOK
<1>5. CASE UNCHANGED vars
  <2>1. DirTypeOK' /\ files' \subseteq files
    BY <1>1, <1>5, DirStutterType DEF TypeOK, vars, dirVars
  <2> QED
    BY <1>5, <2>1, DirectoryInv DEF vars
<1> QED
  BY <1>2, <1>3, <1>4, <1>5 DEF Next, Environment

(* Publishers build in order and own the descriptors they record, and every  *)
(* info file was created by one that did not remove it.                      *)
THEOREM OwnershipInvariant == Spec => []OwnershipInv
<1>1. Init => OwnershipInv
  BY InitInv
<1>2. OwnershipInv /\ [Next]_vars => OwnershipInv'
  BY NextInv
<1> QED
  BY <1>1, <1>2, PTL DEF Spec

(* The fields of publishers and the tables of processes keep their types: in *)
(* particular a buffer number never leaves 0 .. queue_size.                  *)
THEOREM TypeCorrect == Spec => []TypeOK
<1>1. OwnershipInv => TypeOK
  BY DEF OwnershipInv
<1> QED
  BY <1>1, OwnershipInvariant, PTL

(* A publisher that has created its info file, or has tried to, is usable.   *)
LEMMA ActiveUsable ==
  ASSUME OwnershipInv, NEW p \in Pub, pc[p] \in {"close_file", "running"}
  PROVE  Usable(p)
<1>1. TypeOK /\ Ordered(p) /\ Owns(p) /\ Active(p)
  BY DEF OwnershipInv, Active
<1>2. \A i \in Slot : fds[Host[p]][buffer_fd[p][i]] = BufferOf(p, i)
  BY <1>1 DEF Ordered, Owns
<1>3. QueueSize \in Slot /\ 0 .. QueueSize - 1 \subseteq Slot
  BY DEF Slot
<1>4. info[p] = WrittenInfo(p)
  BY <1>1 DEF Ordered
<1>5. info[p] # Blank
  <2>1. WrittenInfo(p) \in Info
    BY <1>1, <1>3 DEF WrittenInfo, Info, TypeOK
  <2> QED
    BY <1>4, <2>1, BlankAssumption DEF BlankAssumption
<1>6. /\ info[p].event_fd = event_fd[p]
      /\ \A i \in 0 .. QueueSize - 1 : info[p].dma_buff_fd[i] = buffer_fd[p][i]
  BY <1>4 DEF WrittenInfo
<1> QED
  BY <1>1, <1>2, <1>3, <1>5, <1>6 DEF Usable, Owns

(* Whoever finds an info file finds the name of a written info buffer whose  *)
(* descriptors are all open, or of a publisher that was killed.              *)
THEOREM FilesUsable == Spec => []FilesDesignatePublishers
<1>1. OwnershipInv => FilesDesignatePublishers
  <2> SUFFICES ASSUME OwnershipInv, NEW n \in files
               PROVE  \E p \in Pub : InfoName(p) = n /\ (Usable(p) \/ Orphaned(p))
    BY DEF FilesDesignatePublishers
  <2>1. PICK p \in Pub : InfoName(p) = n /\ Registrant(p)
    BY DEF OwnershipInv, FilesRegistered
  <2>2. CASE pc[p] \in {"exiting", "killed"}
    BY <2>1, <2>2 DEF Registrant, Orphaned
  <2>3. CASE pc[p] \in {"close_file", "running"}
    BY <2>1, <2>3, ActiveUsable
  <2> QED
    BY <2>1, <2>2, <2>3 DEF Registrant
<1> QED
  BY <1>1, OwnershipInvariant, PTL

-----------------------------------------------------------------------------
(* The converse of Owns: every open descriptor of a publisher is one it will  *)
(* close, except descriptor 0 of one that is destroyed.                       *)

\* Holds or Leaked, for the object <<k, p, i>>.
Retained(p, fd, k, i) ==
  \/ k = "heap" /\ i = 0 /\ heap_fd[p] = fd /\ pc[p] = "allocate"
  \/ k = "event" /\ i = 0 /\ event_fd[p] = fd
  \/ k = "file" /\ i = 0 /\ file_fd[p] = fd /\ pc[p] = "close_file"
  \/ k = "buffer" /\ buffer_fd[p][i] = fd
  \/ /\ k \in {"buffer", "event"} /\ fd = 0
     /\ pc[p] \in {"reset_buffers", "reset_event", "destroyed"}

Accounted(p) ==
  \A h \in Proc, fd \in Fd, k \in Kind, i \in Slot :
    fds[h][fd] = <<k, p, i>> => Host[p] = h /\ Retained(p, fd, k, i)

LeakInv == OwnershipInv /\ \A p \in Pub : Accounted(p)

\* What the tables gain belongs to p.
GainsOnly(p) ==
  \A h \in Proc, fd \in Fd :
    \/ fds'[h][fd] = fds[h][fd]
    \/ fds'[h][fd] = Free
    \/ \E k \in Kind, i \in Slot : fds'[h][fd] = <<k, p, i>>

(* What is accounted for stays so when another publisher opens or closes.    *)
LEMMA OthersAccounted ==
  ASSUME NEW p \in Pub, NEW q \in Pub, q # p, Accounted(q), Same(q), GainsOnly(p)
  PROVE  Accounted(q)'
<1> SUFFICES ASSUME NEW h \in Proc, NEW fd \in Fd, NEW k \in Kind, NEW i \in Slot,
                    fds'[h][fd] = <<k, q, i>>
             PROVE  Host[q] = h /\ Retained(q, fd, k, i)'
  BY DEF Accounted
<1>1. <<k, q, i>> # Free
  BY DEF Object, Kind
<1>2. \A l \in Kind, j \in Slot : <<k, q, i>> # <<l, p, j>>
  OBVIOUS
<1>3. fds[h][fd] = <<k, q, i>>
  BY <1>1, <1>2 DEF GainsOnly
<1>4. Host[q] = h /\ Retained(q, fd, k, i)
  BY <1>3 DEF Accounted
<1> QED
  BY <1>4 DEF Retained, Same

(* A step that neither opens nor closes, and forgets nothing.                *)
LEMMA QuietAccounted ==
  ASSUME NEW p \in Pub, Accounted(p), UNCHANGED fds,
         heap_fd'[p] = heap_fd[p], event_fd'[p] = event_fd[p],
         file_fd'[p] = file_fd[p], buffer_fd'[p] = buffer_fd[p],
         pc[p] \notin {"allocate", "close_file"},
         pc[p] \in {"reset_buffers", "reset_event", "destroyed"} => pc'[p] = pc[p]
  PROVE  Accounted(p)' /\ GainsOnly(p)
<1>1. GainsOnly(p)
  BY DEF GainsOnly
<1>2. ASSUME NEW h \in Proc, NEW fd \in Fd, NEW k \in Kind, NEW i \in Slot,
             fds[h][fd] = <<k, p, i>>
      PROVE  Host[p] = h /\ Retained(p, fd, k, i)'
  <2>1. Host[p] = h /\ Retained(p, fd, k, i)
    BY <1>2 DEF Accounted
  <2> QED
    BY <2>1 DEF Retained
<1> QED
  BY <1>1, <1>2 DEF Accounted

(* What is open for a publisher after one descriptor was opened for it.      *)
LEMMA OpenedGains ==
  ASSUME TypeOK, NEW p \in Pub, NEW k \in Kind, NEW i \in Slot, NEW new \in Fd,
         Opened(p, new, <<k, p, i>>)
  PROVE  /\ GainsOnly(p)
         /\ \A h \in Proc, fd \in Fd, l \in Kind, j \in Slot : fds'[h][fd] = <<l, p, j>> =>
              \/ h = Host[p] /\ fd = new /\ l = k /\ j = i
              \/ fds[h][fd] = <<l, p, j>>
<1>1. \A h \in Proc, fd \in Fd :
        \/ h = Host[p] /\ fd = new /\ fds'[h][fd] = <<k, p, i>>
        \/ fds'[h][fd] = fds[h][fd]
  BY DEF Opened, TypeOK
<1>2. \A l \in Kind, j \in Slot : <<l, p, j>> = <<k, p, i>> => l = k /\ j = i
  OBVIOUS
<1> QED
  BY <1>1, <1>2 DEF GainsOnly

(* ... and after one was closed.                                             *)
LEMMA ClosedGains ==
  ASSUME TypeOK, NEW p \in Pub, NEW old \in Fd, Closed(p, old)
  PROVE  /\ GainsOnly(p)
         /\ \A h \in Proc, fd \in Fd, l \in Kind, j \in Slot : fds'[h][fd] = <<l, p, j>> =>
              ~(h = Host[p] /\ fd = old) /\ fds[h][fd] = <<l, p, j>>
<1>1. \A h \in Proc, fd \in Fd :
        \/ h = Host[p] /\ fd = old /\ fds'[h][fd] = Free
        \/ ~(h = Host[p] /\ fd = old) /\ fds'[h][fd] = fds[h][fd]
  BY DEF Closed, TypeOK
<1>2. \A l \in Kind, j \in Slot : <<l, p, j>> # Free
  BY DEF Object, Kind
<1> QED
  BY <1>1, <1>2 DEF GainsOnly

(* The heap is held until the buffer is allocated.                           *)
LEMMA OpenHeapAccounted ==
  ASSUME OwnershipInv, NEW p \in Pub, Accounted(p), OpenHeap(p)
  PROVE  Accounted(p)' /\ GainsOnly(p)
<1>1. TypeOK
  BY DEF OwnershipInv
<1>2. PICK new \in Fd : /\ LowestFree(Host[p], new)
                        /\ Opened(p, new, HeapOf(p))
                        /\ heap_fd' = [heap_fd EXCEPT ![p] = new]
  BY DEF OpenHeap
<1>3. /\ pc[p] = "open_heap" /\ pc'[p] = "allocate" /\ heap_fd'[p] = new
      /\ UNCHANGED <<buffer_fd, event_fd, file_fd>>
  BY <1>1, <1>2 DEF OpenHeap, At, GoTo, TypeOK
<1>4. /\ GainsOnly(p)
      /\ \A h \in Proc, fd \in Fd, l \in Kind, j \in Slot : fds'[h][fd] = <<l, p, j>> =>
           \/ h = Host[p] /\ fd = new /\ l = "heap" /\ j = 0
           \/ fds[h][fd] = <<l, p, j>>
  <2>1. HeapOf(p) = <<"heap", p, 0>> /\ "heap" \in Kind /\ 0 \in Slot
    BY DEF HeapOf, Kind, Slot
  <2> QED
    BY <1>1, <1>2, <2>1, OpenedGains
<1>5. \A h \in Proc, fd \in Fd, k \in Kind, i \in Slot : fds'[h][fd] = <<k, p, i>> =>
        Host[p] = h /\ Retained(p, fd, k, i)'
  BY <1>3, <1>4 DEF Accounted, Retained
<1> QED
  BY <1>4, <1>5 DEF Accounted

(* The buffer's descriptor is recorded as the heap's is given back.          *)
LEMMA AllocateAccounted ==
  ASSUME OwnershipInv, NEW p \in Pub, Accounted(p), Allocate(p)
  PROVE  Accounted(p)' /\ GainsOnly(p)
<1> DEFINE n == queue_id[p]
           heap == heap_fd[p]
<1>1. TypeOK /\ Ordered(p) /\ Owns(p)
  BY DEF OwnershipInv
<1>2. PICK new \in Fd :
        /\ LowestFree(Host[p], new)
        /\ fds' = [fds EXCEPT ![Host[p]][new] = BufferOf(p, n), ![Host[p]][heap] = Free]
        /\ buffer_fd' = [buffer_fd EXCEPT ![p][n] = new]
  BY DEF Allocate
<1>3. /\ pc[p] = "allocate" /\ pc'[p] = "update_buffer_info"
      /\ UNCHANGED <<event_fd, file_fd>>
      /\ n \in Slot /\ heap \in Fd /\ fds[Host[p]][heap] = HeapOf(p)
      /\ fds[Host[p]][new] = Free /\ new # heap
  BY <1>1, <1>2, Objects
  DEF Allocate, At, GoTo, Owns, Active, TypeOK, FdOrNone, LowestFree
<1>4. /\ buffer_fd[p][n] = -1 /\ buffer_fd'[p][n] = new
      /\ \A i \in Slot \ {n} : buffer_fd'[p][i] = buffer_fd[p][i]
  BY <1>1, <1>2, <1>3 DEF Ordered, TypeOK, Slot
<1> HIDE DEF n, heap
<1>5. \A h \in Proc, fd \in Fd :
        \/ h = Host[p] /\ fd = new /\ fds'[h][fd] = <<"buffer", p, n>>
        \/ h = Host[p] /\ fd = heap /\ fds'[h][fd] = Free
        \/ ~(h = Host[p] /\ fd = heap) /\ fds'[h][fd] = fds[h][fd]
  BY <1>1, <1>2, <1>3 DEF TypeOK, BufferOf
<1>6. GainsOnly(p)
  BY <1>3, <1>5 DEF GainsOnly, Kind
<1>7. ASSUME NEW h \in Proc, NEW fd \in Fd, NEW k \in Kind, NEW i \in Slot,
             fds'[h][fd] = <<k, p, i>>
      PROVE  Host[p] = h /\ Retained(p, fd, k, i)'
  <2>1. <<k, p, i>> # Free
    BY DEF Object, Kind
  <2>2. CASE h = Host[p] /\ fd = new /\ fds'[h][fd] = <<"buffer", p, n>>
    <3>1. k = "buffer" /\ i = n
      BY <1>7, <2>2
    <3> QED
      BY <1>4, <2>2, <3>1 DEF Retained
  <2>3. CASE ~(h = Host[p] /\ fd = heap) /\ fds'[h][fd] = fds[h][fd]
    <3>1. fds[h][fd] = <<k, p, i>>
      BY <1>7, <2>3
    <3>2. Host[p] = h /\ Retained(p, fd, k, i)
      BY <3>1 DEF Accounted
    <3>3. fd # -1 /\ fd # heap
      BY <2>3, <3>2 DEF Fd
    <3>4. k # "heap"
      BY <1>3, <3>2, <3>3 DEF Retained, heap
    <3>5. k = "buffer" => buffer_fd'[p][i] = fd
      BY <1>3, <1>4, <3>2, <3>3 DEF Retained
    <3> QED
      BY <1>3, <3>2, <3>4, <3>5 DEF Retained
  <2> QED
    BY <1>5, <1>7, <2>1, <2>2, <2>3
<1> QED
  BY <1>6, <1>7 DEF Accounted

(* The event is created once: nothing else is its descriptor.                *)
LEMMA CreateEventAccounted ==
  ASSUME OwnershipInv, NEW p \in Pub, Accounted(p), CreateEvent(p)
  PROVE  Accounted(p)' /\ GainsOnly(p)
<1>1. TypeOK /\ Ordered(p)
  BY DEF OwnershipInv
<1>2. /\ pc[p] = "create_event" /\ pc'[p] = "open_heap" /\ event_fd[p] = -1
      /\ UNCHANGED <<buffer_fd, file_fd, heap_fd>>
  BY <1>1 DEF CreateEvent, At, GoTo, TypeOK, Ordered
<1>3. CASE UNCHANGED <<fds, event_fd>>
  BY <1>2, <1>3, QuietAccounted
<1>4. ASSUME NEW new \in Fd, Opened(p, new, EventOf(p)),
             event_fd' = [event_fd EXCEPT ![p] = new]
      PROVE  Accounted(p)' /\ GainsOnly(p)
  <2>1. event_fd'[p] = new
    BY <1>1, <1>4 DEF TypeOK
  <2>2. /\ GainsOnly(p)
        /\ \A h \in Proc, fd \in Fd, l \in Kind, j \in Slot : fds'[h][fd] = <<l, p, j>> =>
             \/ h = Host[p] /\ fd = new /\ l = "event" /\ j = 0
             \/ fds[h][fd] = <<l, p, j>>
    <3>1. EventOf(p) = <<"event", p, 0>> /\ "event" \in Kind /\ 0 \in Slot
      BY DEF EventOf, Kind, Slot
    <3> QED
      BY <1>1, <1>4, <3>1, OpenedGains
  <2>3. \A fd \in Fd : fd # -1
    BY DEF Fd
  <2>4. \A h \in Proc, fd \in Fd, k \in Kind, i \in Slot : fds'[h][fd] = <<k, p, i>> =>
          Host[p] = h /\ Retained(p, fd, k, i)'
    BY <1>2, <2>1, <2>2, <2>3 DEF Accounted, Retained
  <2> QED
    BY <2>2, <2>4 DEF Accounted
<1> QED
  BY <1>3, <1>4 DEF CreateEvent

(* The info file's descriptor is kept until it is closed.                    *)
LEMMA OpenInfoFileAccounted ==
  ASSUME OwnershipInv, NEW p \in Pub, Accounted(p), OpenInfoFile(p)
  PROVE  Accounted(p)' /\ GainsOnly(p)
<1>1. TypeOK
  BY DEF OwnershipInv
<1>2. /\ pc[p] = "open_file" /\ pc'[p] = "close_file"
      /\ UNCHANGED <<buffer_fd, event_fd, heap_fd>>
  BY <1>1 DEF OpenInfoFile, At, GoTo, TypeOK
<1>3. CASE UNCHANGED <<fds, file_fd>>
  BY <1>2, <1>3, QuietAccounted
<1>4. ASSUME NEW new \in Fd, Opened(p, new, FileOf(p)),
             file_fd' = [file_fd EXCEPT ![p] = new]
      PROVE  Accounted(p)' /\ GainsOnly(p)
  <2>1. file_fd'[p] = new
    BY <1>1, <1>4 DEF TypeOK
  <2>2. /\ GainsOnly(p)
        /\ \A h \in Proc, fd \in Fd, l \in Kind, j \in Slot : fds'[h][fd] = <<l, p, j>> =>
             \/ h = Host[p] /\ fd = new /\ l = "file" /\ j = 0
             \/ fds[h][fd] = <<l, p, j>>
    <3>1. FileOf(p) = <<"file", p, 0>> /\ "file" \in Kind /\ 0 \in Slot
      BY DEF FileOf, Kind, Slot
    <3> QED
      BY <1>1, <1>4, <3>1, OpenedGains
  <2>3. \A h \in Proc, fd \in Fd, k \in Kind, i \in Slot : fds'[h][fd] = <<k, p, i>> =>
          Host[p] = h /\ Retained(p, fd, k, i)'
    BY <1>2, <2>1, <2>2 DEF Accounted, Retained
  <2> QED
    BY <2>2, <2>3 DEF Accounted
<1> QED
  BY <1>3, <1>4 DEF OpenInfoFile

(* Closing the info file closes every descriptor of it.                      *)
LEMMA CloseInfoFileAccounted ==
  ASSUME OwnershipInv, NEW p \in Pub, Accounted(p), CloseInfoFile(p)
  PROVE  Accounted(p)' /\ GainsOnly(p)
<1>1. TypeOK
  BY DEF OwnershipInv
<1>2. /\ pc[p] = "close_file" /\ pc'[p] = "running"
      /\ UNCHANGED <<buffer_fd, event_fd, heap_fd, file_fd>>
  BY <1>1 DEF CloseInfoFile, At, GoTo, TypeOK
<1>3. /\ GainsOnly(p)
      /\ \A h \in Proc, fd \in Fd, l \in Kind, j \in Slot : fds'[h][fd] = <<l, p, j>> =>
           fds[h][fd] = <<l, p, j>> /\ ~(h = Host[p] /\ fd = file_fd[p])
  <2>1. CASE file_fd[p] = -1
    <3>1. fds' = fds /\ \A fd \in Fd : fd # -1
      BY <2>1 DEF CloseInfoFile, Fd
    <3> QED
      BY <2>1, <3>1 DEF GainsOnly
  <2>2. CASE file_fd[p] # -1
    <3>1. file_fd[p] \in Fd /\ Closed(p, file_fd[p])
      BY <1>1, <2>2 DEF CloseInfoFile, TypeOK, FdOrNone
    <3> QED
      BY <1>1, <3>1, ClosedGains
  <2> QED
    BY <2>1, <2>2
<1>4. \A h \in Proc, fd \in Fd, k \in Kind, i \in Slot : fds'[h][fd] = <<k, p, i>> =>
        Host[p] = h /\ Retained(p, fd, k, i)'
  BY <1>2, <1>3 DEF Accounted, Retained
<1> QED
  BY <1>3, <1>4 DEF Accounted

(* ~DMABuffer closes the buffer, unless its descriptor is 0.                 *)
LEMMA ResetBufferAccounted ==
  ASSUME OwnershipInv, NEW p \in Pub, NEW n \in Slot, Accounted(p), ResetBuffer(p, n),
         UNCHANGED <<event_fd, heap_fd, file_fd>>,
         pc[p] \in {"reset_info", "reset_buffers"},
         pc'[p] \in {"reset_buffers", "reset_event"}
  PROVE  Accounted(p)' /\ GainsOnly(p)
<1>1. TypeOK
  BY DEF OwnershipInv
<1>2. \A i \in Slot \ {n} : buffer_fd'[p][i] = buffer_fd[p][i]
  BY <1>1 DEF ResetBuffer, TypeOK
<1>3. /\ GainsOnly(p)
      /\ \A h \in Proc, fd \in Fd, l \in Kind, j \in Slot : fds'[h][fd] = <<l, p, j>> =>
           /\ fds[h][fd] = <<l, p, j>>
           /\ h = Host[p] /\ fd = buffer_fd[p][n] => fd = 0
  <2>1. CASE buffer_fd[p][n] <= 0
    <3>1. fds' = fds /\ \A fd \in Fd : fd <= 0 => fd = 0
      BY <2>1 DEF ResetBuffer, Fd
    <3> QED
      BY <2>1, <3>1 DEF GainsOnly
  <2>2. CASE ~(buffer_fd[p][n] <= 0)
    <3>1. buffer_fd[p][n] \in Fd /\ Closed(p, buffer_fd[p][n])
      BY <1>1, <2>2 DEF ResetBuffer, TypeOK, FdOrNone
    <3> QED
      BY <1>1, <3>1, ClosedGains
  <2> QED
    BY <2>1, <2>2
<1>4. ASSUME NEW h \in Proc, NEW fd \in Fd, NEW k \in Kind, NEW i \in Slot,
             fds'[h][fd] = <<k, p, i>>
      PROVE  Host[p] = h /\ Retained(p, fd, k, i)'
  <2>1. fds[h][fd] = <<k, p, i>> /\ (h = Host[p] /\ fd = buffer_fd[p][n] => fd = 0)
    BY <1>3, <1>4
  <2>2. Host[p] = h /\ Retained(p, fd, k, i)
    BY <2>1 DEF Accounted
  <2>3. CASE k = "buffer" /\ i = n
    BY <2>1, <2>2, <2>3 DEF Retained
  <2>4. CASE ~(k = "buffer" /\ i = n)
    BY <1>2, <2>2, <2>4 DEF Retained
  <2> QED
    BY <2>3, <2>4
<1> QED
  BY <1>3, <1>4 DEF Accounted

(* ~Event closes the event, unless its descriptor is 0.                      *)
LEMMA ResetEventAccounted ==
  ASSUME OwnershipInv, NEW p \in Pub, Accounted(p), ResetEvent(p)
  PROVE  Accounted(p)' /\ GainsOnly(p)
<1>1. TypeOK
  BY DEF OwnershipInv
<1>2. /\ pc[p] = "reset_event" /\ pc'[p] = "destroyed"
      /\ UNCHANGED <<buffer_fd, heap_fd, file_fd>>
  BY <1>1 DEF ResetEvent, At, GoTo, TypeOK
<1>3. /\ GainsOnly(p)
      /\ \A h \in Proc, fd \in Fd, l \in Kind, j \in Slot : fds'[h][fd] = <<l, p, j>> =>
           /\ fds[h][fd] = <<l, p, j>>
           /\ h = Host[p] /\ fd = event_fd[p] => fd = 0
  <2>1. CASE event_fd[p] > 0
    <3>1. event_fd[p] \in Fd /\ Closed(p, event_fd[p])
      BY <1>1, <2>1 DEF ResetEvent, TypeOK, FdOrNone
    <3> QED
      BY <1>1, <3>1, ClosedGains
  <2>2. CASE ~(event_fd[p] > 0)
    <3>1. fds' = fds /\ \A fd \in Fd : ~(fd > 0) => fd = 0
      BY <2>2 DEF ResetEvent, Fd
    <3> QED
      BY <2>2, <3>1 DEF GainsOnly
  <2> QED
    BY <2>1, <2>2
<1>4. \A h \in Proc, fd \in Fd, k \in Kind, i \in Slot : fds'[h][fd] = <<k, p, i>> =>
        Host[p] = h /\ Retained(p, fd, k, i)'
  BY <1>2, <1>3 DEF Accounted, Retained
<1> QED
  BY <1>3, <1>4 DEF Accounted
-----------------------------------------------------------------------------
(* The steps of a publisher that are not the end of its process.             *)
PublisherStep(p) ==
  \/ InitTopicPath(p) \/ OpenHeap(p) \/ Allocate(p) \/ UpdateBufferInfo(p)
  \/ CreateEvent(p) \/ FillInfo(p) \/ OpenInfoFile(p) \/ CloseInfoFile(p)
  \/ RemoveInfoFile(p) \/ ResetInfoBuffer(p) \/ ResetDmaBuffer(p) \/ ResetEvent(p)
  \/ KernelClosesFile(p)

(* They change the fields of their publisher only.                           *)
LEMMA OthersSame ==
  ASSUME TypeOK, NEW p \in Pub, PublisherStep(p), NEW q \in Pub, q # p
  PROVE  Same(q)
<1> USE DEF TypeOK, GoTo, Same
<1>1. CASE InitTopicPath(p)
  BY <1>1 DEF InitTopicPath
<1>2. CASE OpenHeap(p)
  BY <1>2 DEF OpenHeap
<1>3. CASE Allocate(p)
  BY <1>3 DEF Allocate
<1>4. CASE UpdateBufferInfo(p)
  BY <1>4 DEF UpdateBufferInfo
<1>5. CASE CreateEvent(p)
  BY <1>5 DEF CreateEvent
<1>6. CASE FillInfo(p)
  BY <1>6 DEF FillInfo
<1>7. CASE OpenInfoFile(p)
  BY <1>7 DEF OpenInfoFile
<1>8. CASE CloseInfoFile(p)
  BY <1>8 DEF CloseInfoFile
<1>9. CASE RemoveInfoFile(p)
  BY <1>9 DEF RemoveInfoFile
<1>10. CASE ResetInfoBuffer(p)
  BY <1>10 DEF ResetInfoBuffer, ResetBuffer
<1>11. CASE ResetDmaBuffer(p)
  BY <1>11 DEF ResetDmaBuffer, ResetBuffer
<1>12. CASE ResetEvent(p)
  BY <1>12 DEF ResetEvent
<1>13. CASE KernelClosesFile(p)
  BY <1>13 DEF KernelClosesFile
<1> QED
  BY <1>1, <1>2, <1>3, <1>4, <1>5, <1>6, <1>7, <1>8, <1>9, <1>10, <1>11, <1>12, <1>13
  DEF PublisherStep

(* They account for all that is open of their publisher.                     *)
LEMMA OwnAccounted ==
  ASSUME OwnershipInv, NEW p \in Pub, Accounted(p), PublisherStep(p)
  PROVE  Accounted(p)' /\ GainsOnly(p)
<1>1. TypeOK /\ Ordered(p)
  BY DEF OwnershipInv
<1>2. CASE InitTopicPath(p)
  BY <1>1, <1>2, QuietAccounted DEF InitTopicPath, At, procVars
<1>3. CASE UpdateBufferInfo(p)
  BY <1>1, <1>3, QuietAccounted DEF UpdateBufferInfo, At, procVars
<1>4. CASE FillInfo(p)
  BY <1>1, <1>4, QuietAccounted DEF FillInfo, At, procVars
<1>5. CASE RemoveInfoFile(p)
  BY <1>1, <1>5, QuietAccounted DEF RemoveInfoFile, At, procVars
<1>6. CASE KernelClosesFile(p)
  BY <1>1, <1>6, QuietAccounted DEF KernelClosesFile, procVars
<1>7. CASE ResetInfoBuffer(p)
  <2>1. QueueSize \in Slot
    BY DEF Slot
  <2>2. pc[p] = "reset_info" /\ pc'[p] \in {"reset_buffers", "reset_event"}
    BY <1>1, <1>7 DEF ResetInfoBuffer, At, GoTo, TypeOK
  <2> QED
    BY <1>7, <2>1, <2>2, ResetBufferAccounted DEF ResetInfoBuffer
<1>8. CASE ResetDmaBuffer(p)
  <2>1. queue_id[p] \in Slot
    BY <1>1 DEF TypeOK
  <2>2. pc[p] = "reset_buffers" /\ pc'[p] \in {"reset_buffers", "reset_event"}
    BY <1>1, <1>8 DEF ResetDmaBuffer, At, GoTo, TypeOK
  <2> QED
    BY <1>8, <2>1, <2>2, ResetBufferAccounted DEF ResetDmaBuffer
<1> QED
  BY <1>2, <1>3, <1>4, <1>5, <1>6, <1>7, <1>8, OpenHeapAccounted, AllocateAccounted,
     CreateEventAccounted, OpenInfoFileAccounted, CloseInfoFileAccounted, ResetEventAccounted
  DEF PublisherStep

(* When a process ends nothing is open in it; other processes have nothing   *)
(* of its publishers.                                                        *)
LEMMA ExitAccounted ==
  ASSUME LeakInv, NEW g \in Proc, Exit(g), NEW p \in Pub
  PROVE  Accounted(p)'
<1>1. TypeOK /\ Accounted(p)
  BY DEF LeakInv, OwnershipInv
<1> SUFFICES ASSUME NEW h \in Proc, NEW fd \in Fd, NEW k \in Kind, NEW i \in Slot,
                    fds'[h][fd] = <<k, p, i>>
             PROVE  Host[p] = h /\ Retained(p, fd, k, i)'
  BY DEF Accounted
<1>2. <<k, p, i>> # Free
  BY DEF Object, Kind
<1>3. h # g /\ fds[h][fd] = <<k, p, i>>
  BY <1>1, <1>2 DEF Exit, TypeOK
<1>4. Host[p] = h /\ Retained(p, fd, k, i)
  BY <1>1, <1>3 DEF Accounted
<1>5. pc'[p] = pc[p]
  BY <1>3, <1>4 DEF Exit
<1> QED
  BY <1>4, <1>5 DEF Exit, Retained

(* A new process starts with nothing of any publisher.                       *)
LEMMA BootAccounted ==
  ASSUME LeakInv, NEW g \in Proc, Boot(g), NEW p \in Pub
  PROVE  Accounted(p)'
<1>1. TypeOK /\ Accounted(p)
  BY DEF LeakInv, OwnershipInv
<1> SUFFICES ASSUME NEW h \in Proc, NEW fd \in Fd, NEW k \in Kind, NEW i \in Slot,
                    fds'[h][fd] = <<k, p, i>>
             PROVE  Host[p] = h /\ Retained(p, fd, k, i)'
  BY DEF Accounted
<1>2. <<k, p, i>> # Free /\ <<k, p, i>> # Foreign
  BY DEF Object, Kind
<1>3. h # g /\ fds[h][fd] = <<k, p, i>>
  BY <1>1, <1>2 DEF Boot, Baseline, TypeOK
<1>4. Host[p] = h /\ Retained(p, fd, k, i)
  BY <1>1, <1>3 DEF Accounted
<1> QED
  BY <1>4 DEF Boot, pubVars, Retained

(* At the start nothing is open.                                             *)
LEMMA LeakInit == Init => LeakInv
<1> SUFFICES ASSUME Init PROVE LeakInv
  OBVIOUS
<1>1. \A k \in Kind, p \in Pub, i \in Slot : <<k, p, i>> \notin {Free, Foreign}
  BY DEF Object, Kind
<1>2. \A p \in Pub : Accounted(p)
  BY <1>1 DEF Init, Baseline, Accounted
<1> QED
  BY <1>2, InitInv DEF LeakInv

(* Every step of the program keeps the account of what has leaked.           *)
LEMMA LeakNext == LeakInv /\ [Next]_vars => LeakInv'
<1> SUFFICES ASSUME LeakInv, [Next]_vars PROVE LeakInv'
  OBVIOUS
<1>1. OwnershipInv /\ TypeOK /\ \A p \in Pub : Accounted(p)
  BY DEF LeakInv, OwnershipInv
<1>2. OwnershipInv'
  BY <1>1, NextInv
<1>3. \A q \in Pub : Accounted(q)'
  <2>1. ASSUME NEW p \in Pub, PublisherStep(p), NEW q \in Pub PROVE Accounted(q)'
    <3>1. Accounted(p)' /\ GainsOnly(p)
      BY <1>1, <2>1, OwnAccounted
    <3>2. q # p => Same(q)
      BY <1>1, <2>1, OthersSame
    <3> QED
      BY <1>1, <3>1, <3>2, OthersAccounted
  <2>2. ASSUME NEW p \in Pub, AllocationRaises(p), NEW q \in Pub PROVE Accounted(q)'
    BY <2>2, ExitAccounted DEF AllocationRaises
  <2>3. ASSUME NEW h \in Proc, Process(h), NEW q \in Pub PROVE Accounted(q)'
    BY <2>3, ExitAccounted, BootAccounted DEF Process, ProcessExits
  <2>4. CASE UNCHANGED <<procVars, pubVars>>
    BY <1>1, <2>4 DEF Accounted, Retained, procVars, pubVars
  <2>5. CASE \E p \in Pub : Publisher(p)
    BY <2>1, <2>2, <2>5 DEF Publisher, Construct, Destruct, PublisherStep
  <2> QED
    BY <2>3, <2>4, <2>5 DEF Next, Environment, vars
<1> QED
  BY <1>2, <1>3 DEF LeakInv

(* Whatever is accounted for is held, or leaked as descriptor 0.             *)
LEMMA AccountedFor == LeakInv => OnlyZeroLeaks
<1> SUFFICES ASSUME LeakInv, NEW h \in Proc, NEW fd \in Fd, NEW p \in Pub,
                    fds[h][fd] \in Object, fds[h][fd][2] = p
             PROVE  /\ Host[p] = h
                    /\ Holds(p, fd, fds[h][fd]) \/ Leaked(p, fd, fds[h][fd])
  BY DEF OnlyZeroLeaks
<1>1. PICK k \in Kind, i \in Slot : fds[h][fd] = <<k, p, i>>
  BY DEF Object, Kind
<1>2. Host[p] = h /\ Retained(p, fd, k, i)
  BY <1>1 DEF LeakInv, Accounted
<1> QED
  BY <1>1, <1>2 DEF Retained, Holds, Leaked, HeapOf, EventOf, FileOf, BufferOf

(* Every open descriptor of a publisher is recorded by it, and will be       *)
(* closed, except descriptor 0 of one that was destroyed.                    *)
THEOREM NoLeak == Spec => []OnlyZeroLeaks
  BY AccountedFor, LeakInit, LeakNext, PTL DEF Spec
=============================================================================
