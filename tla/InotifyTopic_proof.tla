-------------------------- MODULE InotifyTopic_proof --------------------------
(***************************************************************************)
(* For any publishers, processes and subscribers: a subscriber without a   *)
(* publisher has been, or will be, told of every info file                 *)
(* (PendingTheorem); and, until an rm -rf begins, the buffer it looks at is*)
(* the one the file of its target designates (AttachmentTheorem), and it   *)
(* survives connecting to a publisher it was not warned of                 *)
(* (ConnectTheorem).  What concerns the publishers*)
(* alone is OwnershipInv of PublisherBase.                                 *)
(***************************************************************************)
EXTENDS InotifyTopic, PublisherBase_proof

USE NoBufferAssumption DEF NoBufferAssumption

-----------------------------------------------------------------------------
(* Types. *)

(* A subscriber step leaves the publishers, their processes and the files    *)
(* alone, and touches no watch but its own.                                  *)
LEMMA SubscriberEffect ==
  ASSUME SubTypeOK, NEW t \in Sub, Subscriber(t)
  PROVE  /\ UNCHANGED <<procVars, pubVars, dir, files, detached, doomed, cleaning, cleanings>>
         /\ \A s \in Sub \ {t} :
              /\ spc'[s] = spc[s] /\ target'[s] = target[s] /\ pid_fd'[s] = pid_fd[s]
              /\ attached'[s] = attached[s] /\ batch'[s] = batch[s] /\ queue'[s] = queue[s]
              /\ s \in watching' <=> s \in watching
              /\ s \in missed' <=> s \in missed
<1>1. CASE SStart(t)
  BY <1>1 DEF SStart, CloseWatch, Proceed, SubTypeOK, TypeOK, DirTypeOK
<1>2. CASE SStat(t)
  BY <1>2 DEF SStat, Proceed, SubTypeOK, TypeOK, DirTypeOK, vars, dirVars
<1>3. CASE SAddWatch(t)
  BY <1>3 DEF SAddWatch, AddWatch, Proceed, SubTypeOK, TypeOK, DirTypeOK
<1>4. CASE SScan(t)
  BY <1>4 DEF SScan, Proceed, SubTypeOK, TypeOK, DirTypeOK, vars, dirVars
<1>5. ASSUME Dies(t)
      PROVE  /\ UNCHANGED <<procVars, pubVars, dir, files, detached, doomed, cleaning, cleanings>>
             /\ \A s \in Sub \ {t} :
                  /\ spc'[s] = spc[s] /\ target'[s] = target[s] /\ pid_fd'[s] = pid_fd[s]
                  /\ attached'[s] = attached[s] /\ batch'[s] = batch[s] /\ queue'[s] = queue[s]
                  /\ s \in watching' <=> s \in watching
                  /\ s \in missed' <=> s \in missed
  BY <1>5 DEF Dies, CloseWatch, Proceed, SubTypeOK, TypeOK, DirTypeOK
<1>6. CASE SScanFails(t) \/ SDisplayFails(t)
  BY <1>5, <1>6 DEF SScanFails, SDisplayFails
<1>7. CASE SPidfdOpen(t)
  BY <1>5, <1>7 DEF SPidfdOpen, Proceed, SubTypeOK, TypeOK, DirTypeOK, vars, dirVars
<1>8. CASE SGetFd(t)
  BY <1>5, <1>8 DEF SGetFd, Proceed, SubTypeOK, TypeOK, DirTypeOK, vars, dirVars
<1>9. CASE SRead(t)
  BY <1>9 DEF SRead, TakeEvents, Proceed, SubTypeOK, TypeOK, DirTypeOK
<1>10. CASE SBatchDone(t)
  BY <1>10 DEF SBatchDone, Proceed, SubTypeOK, TypeOK, DirTypeOK, vars, dirVars
<1>11. CASE SDeleted(t)
  BY <1>11 DEF SDeleted, Proceed, SubTypeOK, TypeOK, DirTypeOK, vars, dirVars
<1>12. CASE SCreated(t)
  BY <1>12 DEF SCreated, Proceed, SubTypeOK, TypeOK, DirTypeOK, vars, dirVars
<1>13. CASE SIgnored(t)
  BY <1>13 DEF SIgnored, Proceed, SubTypeOK, TypeOK, DirTypeOK, vars, dirVars
<1> QED
  BY <1>1, <1>2, <1>3, <1>4, <1>6, <1>7, <1>8, <1>9, <1>10, <1>11, <1>12, <1>13 DEF Subscriber

(* A subscriber step keeps the types.                                        *)
LEMMA SubscriberType ==
  ASSUME SubTypeOK, NEW t \in Sub, Subscriber(t)
  PROVE  SubTypeOK'
<1>0. <<>> \in Seq(Event) /\ Sub \subseteq Sub
  OBVIOUS
<1>1. ASSUME CloseWatch(t) \/ AddWatch(t) PROVE DirTypeOK'
  <2>1. CASE CloseWatch(t)
    BY <1>0, <2>1 DEF CloseWatch, SubTypeOK, TypeOK, DirTypeOK
  <2>2. CASE AddWatch(t)
    BY <1>0, <2>2 DEF AddWatch, SubTypeOK, TypeOK, DirTypeOK
  <2> QED
    BY <1>1, <2>1, <2>2
<1>2. ASSUME UNCHANGED dirVars PROVE DirTypeOK'
  BY <1>2, DirStutterType DEF SubTypeOK, TypeOK
<1>3. ASSUME DirTypeOK', UNCHANGED <<procVars, pubVars>> PROVE TypeOK'
  BY <1>3 DEF SubTypeOK, TypeOK, procVars, pubVars
<1>4. ASSUME Dies(t) PROVE SubTypeOK'
  <2>1. 0 \in 0 .. MaxBoots
    BY SizeAssumption
  <2>2. TypeOK'
    BY <1>1, <1>3, <1>4 DEF Dies
  <2> QED
    BY <1>0, <1>4, <2>1, <2>2 DEF Dies, Proceed, SubTypeOK, SubStep
<1>5. ASSUME batch[t] # <<>> PROVE Head(batch[t]) \in Event /\ Tail(batch[t]) \in Seq(Event)
  BY <1>5 DEF SubTypeOK
<1>6. CASE SStart(t)
  BY <1>1, <1>3, <1>6 DEF SStart, Proceed, SubTypeOK, SubStep
<1>7. CASE SStat(t) \/ SBatchDone(t)
  BY <1>2, <1>3, <1>7 DEF SStat, SBatchDone, Proceed, SubTypeOK, SubStep, vars
<1>8. CASE SAddWatch(t)
  BY <1>1, <1>3, <1>8 DEF SAddWatch, Proceed, SubTypeOK, SubStep
<1>9. CASE SScan(t)
  <2>1. files \subseteq Name
    BY DEF SubTypeOK, TypeOK, DirTypeOK
  <2> QED
    BY <1>2, <1>3, <1>9, <2>1 DEF SScan, Proceed, SubTypeOK, SubStep, vars
<1>10. CASE SScanFails(t) \/ SDisplayFails(t)
  BY <1>4, <1>10 DEF SScanFails, SDisplayFails
<1>11. CASE SPidfdOpen(t)
  <2>1. target[t][1] \in alive => boot[target[t][1]] \in 0 .. MaxBoots
    BY SizeAssumption DEF SubTypeOK, TypeOK
  <2> QED
    BY <1>2, <1>3, <1>4, <1>11, <2>1 DEF SPidfdOpen, Proceed, SubTypeOK, SubStep, vars
<1>12. CASE SGetFd(t)
  <2>1. Borrowed(t) \in Object \union {NoBuffer}
    BY DEF Borrowed
  <2>2. 0 \in 0 .. MaxBoots
    BY SizeAssumption
  <2> HIDE DEF Borrowed
  <2> QED
    BY <1>2, <1>3, <1>4, <1>12, <2>1, <2>2 DEF SGetFd, Proceed, SubTypeOK, SubStep, vars
<1>13. CASE SRead(t)
  <2>1. DirTypeOK'
    BY <1>0, <1>13 DEF SRead, TakeEvents, SubTypeOK, TypeOK, DirTypeOK
  <2>2. queue[t] \in Seq(Event)
    BY DEF SubTypeOK, TypeOK, DirTypeOK
  <2> QED
    BY <1>3, <1>13, <2>1, <2>2 DEF SRead, TakeEvents, Proceed, SubTypeOK, SubStep
<1>14. CASE SDeleted(t)
  BY <1>0, <1>2, <1>3, <1>14 DEF SDeleted, Proceed, SubTypeOK, SubStep, vars
<1>15. CASE SCreated(t)
  <2>1. Head(batch[t]).name \in Name \union {NoName}
    BY <1>5, <1>15 DEF SCreated, Handling, Event
  <2> QED
    BY <1>2, <1>3, <1>5, <1>15, <2>1 DEF SCreated, Handling, Proceed, SubTypeOK, SubStep, vars
<1>16. CASE SIgnored(t)
  BY <1>2, <1>3, <1>5, <1>16 DEF SIgnored, Handling, SubTypeOK, vars
<1> QED
  BY <1>6, <1>7, <1>8, <1>9, <1>10, <1>11, <1>12, <1>13, <1>14, <1>15, <1>16 DEF Subscriber

(* The publishers' invariant survives the subscribers, which open no         *)
(* descriptor in a publisher's process and remove no file.                   *)
LEMMA OwnedTyped == TopicSpec => [](OwnershipInv /\ SubTypeOK)
<1>1. SubInit => OwnershipInv /\ SubTypeOK
  <2> SUFFICES ASSUME SubInit PROVE OwnershipInv /\ SubTypeOK
    OBVIOUS
  <2>1. OwnershipInv
    BY InitInv DEF SubInit
  <2>2. <<>> \in Seq(Event) /\ 0 \in 0 .. MaxBoots
    BY SizeAssumption
  <2> QED
    BY <2>1, <2>2 DEF SubInit, SubTypeOK, SubStep, OwnershipInv
<1>2. OwnershipInv /\ SubTypeOK /\ [TopicNext]_allVars => (OwnershipInv /\ SubTypeOK)'
  <2> SUFFICES ASSUME OwnershipInv, SubTypeOK, [TopicNext]_allVars
               PROVE  OwnershipInv' /\ SubTypeOK'
    OBVIOUS
  <2>1. CASE [Next]_vars /\ UNCHANGED subVars
    <3>1. OwnershipInv'
      BY <2>1, NextInv
    <3> QED
      BY <2>1, <3>1 DEF OwnershipInv, SubTypeOK, subVars
  <2>2. ASSUME NEW t \in Sub, Subscriber(t) PROVE OwnershipInv' /\ SubTypeOK'
    <3>1. SubTypeOK' /\ UNCHANGED <<procVars, pubVars, files>>
      BY <2>2, SubscriberType, SubscriberEffect
    <3> QED
      BY <3>1, DirectoryInv DEF SubTypeOK, TypeOK
  <2> QED
    BY <2>1, <2>2 DEF TopicNext, allVars
<1> QED
  BY <1>1, <1>2, PTL DEF TopicSpec

(* The subscribers' fields keep their types, with any publishers beside.     *)
THEOREM SubTypeCorrect == TopicSpec => []SubTypeOK
  BY OwnedTyped, PTL

-----------------------------------------------------------------------------
(* A subscriber without a publisher. *)

(* A pushed event is in the queue unless it was dropped, and no other event   *)
(* leaves the queue.                                                          *)
LEMMA PushKeeps ==
  ASSUME NEW q \in Seq(Event), NEW e \in Event
  PROVE  /\ \A i \in DOMAIN q : i \in DOMAIN Push(q, e) /\ Push(q, e)[i] = q[i]
         /\ ~Drops(q, e) => \E i \in DOMAIN Push(q, e) : Push(q, e)[i] = e
<1> USE MaxQueueAssumption DEF MaxQueueAssumption
<1>0. Overflow \in Event
  BY DEF Overflow, Event
<1>1. Len(q) \in Nat /\ DOMAIN q = 1 .. Len(q)
  OBVIOUS
<1>2. ASSUME NEW new \in Event
      PROVE  /\ DOMAIN Append(q, new) = 1 .. Len(q) + 1
             /\ \A i \in 1 .. Len(q) : Append(q, new)[i] = q[i]
             /\ Append(q, new)[Len(q) + 1] = new
  BY <1>1
<1>3. IsTail(q, e) => Len(q) \in DOMAIN q /\ q[Len(q)] = e
  BY <1>1 DEF IsTail
<1>4. CASE Len(q) >= MaxQueue
  <2>1. Push(q, e) = Append(q, Overflow) \/ Push(q, e) = q
    BY <1>4 DEF Push, Overflowed
  <2>2. \A i \in DOMAIN q : i \in DOMAIN Push(q, e) /\ Push(q, e)[i] = q[i]
    BY <1>0, <1>1, <1>2, <2>1
  <2>3. ~Drops(q, e) => IsTail(q, e)
    BY <1>4 DEF Drops
  <2> QED
    BY <1>3, <2>2, <2>3
<1>5. CASE ~(Len(q) >= MaxQueue)
  <2>1. Push(q, e) = IF IsTail(q, e) THEN q ELSE Append(q, e)
    BY <1>5 DEF Push
  <2> QED
    BY <1>1, <1>2, <1>3, <2>1
<1> QED
  BY <1>4, <1>5

(* Handling the first event keeps the others, and adds none.                  *)
LEMMA TailKeeps ==
  ASSUME NEW q \in Seq(Event), q # <<>>
  PROVE  /\ \A i \in DOMAIN q : q[i] = Head(q) \/ \E j \in DOMAIN Tail(q) : Tail(q)[j] = q[i]
         /\ \A j \in DOMAIN Tail(q) : \E i \in DOMAIN q : Tail(q)[j] = q[i]
         /\ Head(q) \in Event /\ \E i \in DOMAIN q : q[i] = Head(q)
<1>1. /\ Len(q) \in Nat /\ Len(q) >= 1 /\ DOMAIN q = 1 .. Len(q) /\ Head(q) = q[1]
      /\ DOMAIN Tail(q) = 1 .. Len(q) - 1
      /\ \A j \in 1 .. Len(q) - 1 : Tail(q)[j] = q[j + 1]
  OBVIOUS
<1>2. ASSUME NEW i \in DOMAIN q, i # 1 PROVE \E j \in DOMAIN Tail(q) : Tail(q)[j] = q[i]
  <2>1. i - 1 \in DOMAIN Tail(q) /\ Tail(q)[i - 1] = q[i]
    BY <1>1, <1>2
  <2> QED
    BY <2>1
<1>3. ASSUME NEW j \in DOMAIN Tail(q) PROVE \E i \in DOMAIN q : Tail(q)[j] = q[i]
  <2>1. j + 1 \in DOMAIN q /\ Tail(q)[j] = q[j + 1]
    BY <1>1, <1>3
  <2> QED
    BY <2>1
<1>4. 1 \in DOMAIN q /\ Head(q) \in Event
  BY <1>1
<1> QED
  BY <1>1, <1>2, <1>3, <1>4

\* What others do to a subscriber: it is told things, or goes blind.
Told(s) ==
  /\ Pending(s) \subseteq Pending(s)'
  /\ Blind(s) => Blind(s)'
  /\ spc'[s] = spc[s] /\ attached'[s] = attached[s] /\ batch'[s] = batch[s]

(* Who awaits the publishers has awaited them before he was told something.   *)
LEMMA ToldAwaits ==
  ASSUME NEW s \in Sub, Told(s), Awaits(s)'
  PROVE  Awaits(s)
  BY DEF Told, Awaits, Settled, PendingReset

(* Whoever watches and loses nothing has the event.                           *)
LEMMA EmitTold ==
  ASSUME SubTypeOK, NEW e \in Event, Emit(e), UNCHANGED subVars,
         watching' \subseteq watching, NEW s \in Sub
  PROVE  Told(s) /\ (~Blind(s)' => e \in Pending(s)')
<1>1. queue[s] \in Seq(Event)
  BY DEF SubTypeOK, TypeOK, DirTypeOK
<1>2. queue'[s] = IF s \in watching THEN Push(queue[s], e) ELSE queue[s]
  BY DEF Emit
<1>3. \A i \in DOMAIN queue[s] : i \in DOMAIN queue'[s] /\ queue'[s][i] = queue[s][i]
  BY <1>1, <1>2, PushKeeps
<1>4. Pending(s) \subseteq Pending(s)'
  BY <1>3 DEF Pending, subVars
<1>5. Blind(s) => Blind(s)'
  BY DEF Blind, Emit
<1>6. ASSUME ~Blind(s)' PROVE e \in Pending(s)'
  <2>1. s \in watching /\ ~Drops(queue[s], e)
    BY <1>6 DEF Blind, Emit
  <2>2. \E i \in DOMAIN queue'[s] : queue'[s][i] = e
    BY <1>1, <1>2, <2>1, PushKeeps
  <2> QED
    BY <2>2 DEF Pending
<1> QED
  BY <1>4, <1>5, <1>6 DEF Told, subVars

(* Nothing is heard of what makes no event.                                   *)
LEMMA QuietTold ==
  ASSUME UNCHANGED <<queue, missed, watching, subVars>>, NEW s \in Sub
  PROVE  Told(s)
  BY DEF Told, Pending, Blind, subVars

(* A step of the publishers, the processes or the cleaner that creates no     *)
(* file, and after which whoever was to close a file still is, or its event   *)
(* is sent.                                                                   *)
LEMMA KeepAwaits ==
  ASSUME AwaitsAll, \A s \in Sub : Told(s), files' \subseteq files,
         \A n \in files' : Closing(n) =>
            Closing(n)' \/ \A s \in Sub : Awaits(s)' => CloseWrite(n) \in Pending(s)'
  PROVE  AwaitsAll'
<1> SUFFICES ASSUME NEW s \in Sub, Awaits(s)', NEW n \in files'
             PROVE  (CloseWrite(n) \in Pending(s) \/ Closing(n))'
  BY DEF AwaitsAll
<1>1. CloseWrite(n) \in Pending(s) \/ Closing(n)
  BY ToldAwaits DEF AwaitsAll
<1>2. CloseWrite(n)' = CloseWrite(n)
  BY DEF CloseWrite
<1> QED
  BY <1>1, <1>2 DEF Told

\* The steps after which another publisher still is where it was.
Others(p) == \A q \in Pub \ {p} :
  pc'[q] = pc[q] /\ file_fd'[q] = file_fd[q] /\ buffer_fd'[q] = buffer_fd[q]

(* A publisher that is not closing its file leaves it to the others.          *)
LEMMA OthersClose ==
  ASSUME NEW p \in Pub, Others(p), pc[p] \notin {"close_file", "exiting"}
  PROVE  \A n \in Name : Closing(n) => Closing(n)'
<1> SUFFICES ASSUME NEW n \in Name, Closing(n) PROVE Closing(n)'
  OBVIOUS
<1>1. PICK q \in Pub : InfoName(q) = n /\ pc[q] \in {"close_file", "exiting"} /\ file_fd[q] # -1
  BY DEF Closing
<1>2. q # p
  BY <1>1
<1> QED
  BY <1>1, <1>2 DEF Others, Closing, InfoName

(* The steps of publishers that are silent and create no file.                *)
LEMMA SilentStep ==
  ASSUME OwnershipInv, NEW p \in Pub,
         \/ InitTopicPath(p) \/ OpenHeap(p) \/ Allocate(p) \/ UpdateBufferInfo(p)
         \/ CreateEvent(p) \/ FillInfo(p)
         \/ ResetInfoBuffer(p) \/ ResetDmaBuffer(p) \/ ResetEvent(p)
  PROVE  /\ Others(p) /\ {pc[p], pc'[p]} \cap {"close_file", "running", "exiting", "killed"} = {}
         /\ UNCHANGED <<files, watching, queue, missed, detached, cleaning, cleanings, alive, boot>>
<1>1. TypeOK
  BY DEF OwnershipInv
<1>2. CASE InitTopicPath(p)
  BY <1>1, <1>2 DEF InitTopicPath, MakeDirectories, procVars, At, GoTo, Others, TypeOK
<1>3. CASE OpenHeap(p) \/ Allocate(p)
  BY <1>1, <1>3 DEF OpenHeap, Allocate, dirVars, procVars, At, GoTo, Others, TypeOK
<1>4. CASE UpdateBufferInfo(p) \/ CreateEvent(p) \/ FillInfo(p)
  BY <1>1, <1>4 DEF UpdateBufferInfo, CreateEvent, FillInfo, dirVars, procVars, At, GoTo, Others, TypeOK
<1>5. CASE ResetInfoBuffer(p) \/ ResetDmaBuffer(p)
  BY <1>1, <1>5 DEF ResetInfoBuffer, ResetDmaBuffer, ResetBuffer, dirVars, procVars, At, GoTo, Others, TypeOK
<1>6. CASE ResetEvent(p)
  BY <1>1, <1>6 DEF ResetEvent, dirVars, procVars, At, GoTo, Others, TypeOK
<1> QED
  BY <1>2, <1>3, <1>4, <1>5, <1>6

(* Creating the file: its creator is to close it.                             *)
LEMMA OpenInfoFileAwaits ==
  ASSUME TopicInv, NEW p \in Pub, OpenInfoFile(p), UNCHANGED subVars
  PROVE  FilesAttached' /\ AwaitsAll'
<1>1. TypeOK /\ AwaitsAll /\ FilesAttached /\ files \subseteq Name
  BY DEF TopicInv, OwnershipInv, TypeOK, DirTypeOK
<1>2. Others(p) /\ pc[p] = "open_file" /\ pc'[p] = "close_file"
      /\ UNCHANGED <<watching, queue, missed, buffer_fd>>
  BY <1>1 DEF OpenInfoFile, CreateFile, dirVars, At, GoTo, Others, TypeOK
<1>3. \A s \in Sub : Told(s)
  BY <1>2, QuietTold
<1>4. \A n \in Name : Closing(n) => Closing(n)'
  BY <1>2, OthersClose
<1>5. CASE UNCHANGED <<dirVars, fds, file_fd>>
  <2>1. files' = files /\ detached' = detached
    BY <1>5 DEF dirVars
  <2> QED
    BY <1>1, <1>3, <1>4, <2>1, KeepAwaits DEF FilesAttached
<1>6. CASE \E fd \in Fd : CreateFile(InfoName(p)) /\ file_fd' = [file_fd EXCEPT ![p] = fd]
  <2>1. PICK fd \in Fd : CreateFile(InfoName(p)) /\ file_fd' = [file_fd EXCEPT ![p] = fd]
    BY <1>6
  <2>2. file_fd'[p] # -1
    BY <1>1, <2>1 DEF Fd, TypeOK
  <2>3. Closing(InfoName(p))'
    BY <1>2, <2>2 DEF Closing, InfoName
  <2>4. FilesAttached'
    BY <1>1, <2>1 DEF CreateFile, FilesAttached
  <2>5. AwaitsAll'
    <3> SUFFICES ASSUME NEW s \in Sub, Awaits(s)', NEW n \in files'
                 PROVE  CloseWrite(n) \in Pending(s)' \/ Closing(n)'
      BY DEF AwaitsAll, CloseWrite
    <3>1. CASE n = InfoName(p)
      <4>1. InfoName(p)' = InfoName(p)
        BY <1>2 DEF InfoName
      <4> QED
        BY <1>2, <2>2, <3>1, <4>1 DEF Closing
    <3>2. CASE n \in files
      <4>1. CloseWrite(n) \in Pending(s) \/ Closing(n)
        BY <1>1, <1>3, <3>2, ToldAwaits DEF AwaitsAll
      <4> QED
        BY <1>1, <1>3, <1>4, <3>2, <4>1 DEF Told
    <3> QED
      BY <2>1, <3>1, <3>2 DEF CreateFile
  <2> QED
    BY <2>4, <2>5
<1> QED
  BY <1>5, <1>6 DEF OpenInfoFile

(* Closing the file, by its creator or by the kernel: whoever watches is told.*)
LEMMA CloseFileAwaits ==
  ASSUME TopicInv, NEW p \in Pub, Others(p), UNCHANGED <<subVars, buffer_fd, file_fd>>,
         NEW n \in Name, InfoName(p) = n,
         \/ CloseFile(n)
         \/ file_fd[p] = -1 /\ UNCHANGED dirVars
  PROVE  FilesAttached' /\ AwaitsAll'
<1>1. SubTypeOK /\ AwaitsAll /\ FilesAttached
  BY DEF TopicInv
<1>2. files' = files /\ watching' = watching /\ detached' = detached
  BY DEF CloseFile, dirVars
<1>3. \A m \in files : Closing(m) /\ m # n => Closing(m)'
  BY DEF Closing, Others, InfoName
<1>4. ASSUME UNCHANGED <<queue, missed>>, n \in detached \/ file_fd[p] = -1
      PROVE  FilesAttached' /\ AwaitsAll'
  <2>1. \A s \in Sub : Told(s)
    BY <1>2, <1>4, QuietTold
  <2>2. \A m \in files : Closing(m) => Closing(m)'
    <3>1. CASE n \in detached
      BY <1>1, <1>3, <3>1 DEF FilesAttached
    <3>2. CASE file_fd[p] = -1
      BY <3>2 DEF Closing, Others, InfoName
    <3> QED
      BY <1>4, <3>1, <3>2
  <2> QED
    BY <1>1, <1>2, <2>1, <2>2, KeepAwaits DEF FilesAttached
<1>5. CASE CloseFile(n) /\ n \notin detached
  <2>1. Emit(CloseWrite(n)) /\ CloseWrite(n) \in Event
    BY <1>5 DEF CloseFile, CloseWrite, Event
  <2>2. \A s \in Sub : Told(s) /\ (~Blind(s)' => CloseWrite(n) \in Pending(s)')
    BY <1>1, <1>2, <2>1, EmitTold
  <2>3. \A s \in Sub : Awaits(s)' => CloseWrite(n) \in Pending(s)'
    BY <2>2 DEF Awaits
  <2>4. AwaitsAll'
    BY <1>1, <1>2, <1>3, <2>2, <2>3, KeepAwaits
  <2> QED
    BY <1>1, <1>2, <2>4 DEF FilesAttached
<1>6. CASE file_fd[p] = -1 /\ UNCHANGED dirVars
  BY <1>4, <1>6 DEF dirVars
<1>7. CASE CloseFile(n) /\ n \in detached
  BY <1>4, <1>7 DEF CloseFile
<1> QED
  BY <1>5, <1>6, <1>7

(* Whoever closes a file is where it was, or was killed and leaves it to the  *)
(* kernel.                                                                    *)
LEMMA ExitAwaits ==
  ASSUME TopicInv, NEW h \in Proc, Exit(h), UNCHANGED subVars
  PROVE  FilesAttached' /\ AwaitsAll'
<1>1. AwaitsAll /\ FilesAttached
  BY DEF TopicInv
<1>2. UNCHANGED <<files, detached, queue, missed, watching, file_fd, buffer_fd>>
  BY DEF Exit, dirVars
<1>3. \A s \in Sub : Told(s)
  BY <1>2, QuietTold
<1>4. \A n \in files : Closing(n) => Closing(n)'
  <2> SUFFICES ASSUME NEW n \in files, Closing(n) PROVE Closing(n)'
    OBVIOUS
  <2>1. PICK p \in Pub : InfoName(p) = n /\ pc[p] \in {"close_file", "exiting"} /\ file_fd[p] # -1
    BY DEF Closing
  <2>2. pc'[p] \in {"close_file", "exiting"}
    BY <2>1 DEF Exit
  <2> QED
    BY <1>2, <2>1, <2>2 DEF Closing, InfoName
<1> QED
  BY <1>1, <1>2, <1>3, <1>4, KeepAwaits DEF FilesAttached

(* The removal of a file by its publisher or by the cleaner, or of the        *)
(* directory, which only an empty one undergoes.                              *)
LEMMA RemovalAwaits ==
  ASSUME TopicInv, UNCHANGED subVars, watching' \subseteq watching, files' \subseteq files,
         detached' = detached \/ files' = {},
         \/ UNCHANGED <<queue, missed, watching>>
         \/ \E e \in Event : Emit(e),
         \A n \in files : Closing(n) => Closing(n)'
  PROVE  FilesAttached' /\ AwaitsAll'
<1>1. SubTypeOK /\ AwaitsAll /\ FilesAttached
  BY DEF TopicInv
<1>2. \A s \in Sub : Told(s)
  BY <1>1, QuietTold, EmitTold
<1>3. AwaitsAll'
  BY <1>1, <1>2, KeepAwaits
<1> QED
  BY <1>1, <1>3 DEF FilesAttached

(* A publisher's step.                                                        *)
LEMMA PublisherAwaits ==
  ASSUME TopicInv, NEW p \in Pub, Publisher(p), UNCHANGED subVars
  PROVE  FilesAttached' /\ AwaitsAll'
<1>1. OwnershipInv /\ TypeOK /\ Ordered(p) /\ files \subseteq Name
  BY DEF TopicInv, OwnershipInv, TypeOK, DirTypeOK
<1>2. CASE \/ InitTopicPath(p) \/ OpenHeap(p) \/ Allocate(p) \/ UpdateBufferInfo(p)
           \/ CreateEvent(p) \/ FillInfo(p)
           \/ ResetInfoBuffer(p) \/ ResetDmaBuffer(p) \/ ResetEvent(p)
  <2>1. /\ Others(p) /\ pc[p] \notin {"close_file", "running", "exiting", "killed"}
        /\ UNCHANGED <<files, watching, queue, missed, detached>>
    BY <1>1, <1>2, SilentStep
  <2> QED
    BY <1>1, <2>1, OthersClose, RemovalAwaits
<1>3. CASE AllocationRaises(p)
  BY <1>3, ExitAwaits, HostAssumption DEF AllocationRaises, HostAssumption
<1>4. CASE OpenInfoFile(p)
  BY <1>4, OpenInfoFileAwaits
<1>5. ASSUME pc[p] \in {"close_file", "exiting"} PROVE InfoName(p) \in Name
  <2>1. QueueSize \in Slot
    BY SizeAssumption DEF Slot, SizeAssumption
  <2>2. buffer_fd[p][QueueSize] \in Fd
    BY <1>1, <1>5, <2>1 DEF Ordered, TypeOK, FdOrNone
  <2> QED
    BY <2>2, HostAssumption, NameAssumption DEF InfoName, Fd, HostAssumption, NameAssumption
<1>6. CASE CloseInfoFile(p)
  <2>1. pc[p] = "close_file" /\ Others(p) /\ UNCHANGED <<buffer_fd, file_fd>>
    BY <1>1, <1>6 DEF CloseInfoFile, At, GoTo, Others, TypeOK
  <2>2. \/ CloseFile(InfoName(p))
        \/ file_fd[p] = -1 /\ UNCHANGED dirVars
    BY <1>6 DEF CloseInfoFile, dirVars
  <2> QED
    BY <1>5, <2>1, <2>2, CloseFileAwaits
<1>7. CASE KernelClosesFile(p)
  <2>1. /\ pc[p] = "exiting" /\ Others(p) /\ UNCHANGED <<buffer_fd, file_fd>>
        /\ CloseFile(InfoName(p))
    BY <1>1, <1>7 DEF KernelClosesFile, GoTo, Others, TypeOK
  <2> QED
    BY <1>5, <2>1, CloseFileAwaits
<1>8. CASE RemoveInfoFile(p)
  <2>1. Others(p) /\ pc[p] = "running" /\ Unlink(InfoName(p))
    BY <1>1, <1>8 DEF RemoveInfoFile, At, GoTo, Others, TypeOK
  <2>2. \A n \in files : Closing(n) => Closing(n)'
    BY <1>1, <2>1, OthersClose
  <2>3. InfoName(p) \in files => Delete(InfoName(p)) \in Event
    BY <1>1 DEF Delete, Event
  <2>4. /\ files' \subseteq files /\ watching' = watching /\ detached' = detached
        /\ UNCHANGED <<queue, missed, watching>> \/ \E e \in Event : Emit(e)
    BY <2>1, <2>3 DEF Unlink
  <2> QED
    BY <2>2, <2>4, RemovalAwaits
<1> QED
  BY <1>2, <1>3, <1>4, <1>6, <1>7, <1>8 DEF Publisher, Construct, Destruct

(* A step of a process or of the cleaner.                                     *)
LEMMA EnvironmentAwaits ==
  ASSUME TopicInv, Environment, UNCHANGED subVars
  PROVE  FilesAttached' /\ AwaitsAll'
<1>1. DirTypeOK
  BY DEF TopicInv, OwnershipInv, TypeOK
<1>2. ASSUME NEW h \in Proc, Process(h) PROVE FilesAttached' /\ AwaitsAll'
  <2>1. CASE Exit(h)
    BY <2>1, ExitAwaits
  <2>2. CASE Boot(h)
    <3>1. \A n \in files : Closing(n) => Closing(n)'
      BY <2>2 DEF Boot, pubVars, Closing, InfoName
    <3> QED
      BY <2>2, <3>1, RemovalAwaits DEF Boot, dirVars
  <2> QED
    BY <1>2, <2>1, <2>2 DEF Process, ProcessExits
<1>3. CASE Cleaner /\ UNCHANGED <<procVars, pubVars>>
  <2>1. \A n \in files : Closing(n) => Closing(n)'
    BY <1>3 DEF pubVars, Closing, InfoName
  <2>2. CASE CleanerStarts
    BY <2>1, <2>2, RemovalAwaits DEF CleanerStarts
  <2>3. CASE CleanerUnlinks
    <3>1. \A n \in files : Delete(n) \in Event
      BY <1>1 DEF Delete, Event, DirTypeOK
    <3>2. /\ files' \subseteq files /\ watching' = watching /\ detached' = detached
          /\ UNCHANGED <<queue, missed, watching>> \/ \E e \in Event : Emit(e)
      BY <2>3, <3>1 DEF CleanerUnlinks
    <3> QED
      BY <2>1, <3>2, RemovalAwaits
  <2>4. CASE CleanerRemovesDirectory
    <3>1. DeleteSelf \in Event
      BY DEF DeleteSelf, Event
    <3> QED
      BY <2>1, <2>4, <3>1, RemovalAwaits DEF CleanerRemovesDirectory
  <2> QED
    BY <1>3, <2>2, <2>3, <2>4 DEF Cleaner
<1> QED
  BY <1>2, <1>3 DEF Environment

(* A subscriber that still awaits after its own step had nobody before, and   *)
(* has only read, or skipped, what it had been told; or the directory it has  *)
(* scanned is empty.                                                          *)
LEMMA OwnAwaits ==
  ASSUME SubTypeOK, BatchHandled, NEW t \in Sub, Subscriber(t), Awaits(t)'
  PROVE  \/ files = {}
         \/ /\ Awaits(t)
            /\ \A n : CloseWrite(n) \in Pending(t) => CloseWrite(n) \in Pending(t)'
<1>1. /\ spc'[t] \in {"loop", "events"} /\ attached'[t] = NoBuffer
      /\ t \in watching' /\ t \notin missed' /\ ~PendingReset(t)'
  BY DEF Awaits, Settled, Blind
<1>2. queue[t] \in Seq(Event) /\ batch[t] \in Seq(Event)
  BY DEF SubTypeOK, TypeOK, DirTypeOK
<1>3. ~Dies(t)
  BY <1>1 DEF Dies, Proceed, SubTypeOK
<1>4. ~(SStart(t) \/ SStat(t) \/ SAddWatch(t) \/ SPidfdOpen(t) \/ SDeleted(t) \/ SCreated(t))
  BY <1>1, <1>3 DEF SStart, SStat, SAddWatch, SPidfdOpen, SDeleted, SCreated, Proceed, SubTypeOK
<1>5. ~(SScanFails(t) \/ SDisplayFails(t))
  BY <1>3 DEF SScanFails, SDisplayFails
<1>6. ~SGetFd(t)
  <2> HIDE DEF Borrowed
  <2> QED
    BY <1>1, <1>3 DEF SGetFd, SubTypeOK
<1>7. CASE SScan(t)
  <2>1. files = {}
    BY <1>1, <1>7 DEF SScan, Proceed, SubTypeOK
  <2> QED
    BY <2>1
<1>8. CASE SRead(t)
  <2>1. /\ spc[t] = "loop" /\ batch[t] = <<>> /\ batch'[t] = queue[t] /\ queue'[t] = <<>>
        /\ UNCHANGED <<watching, missed, attached>>
    BY <1>8 DEF SRead, TakeEvents, BatchHandled, SubTypeOK, TypeOK, DirTypeOK
  <2>2. DOMAIN batch[t] = {} /\ DOMAIN queue'[t] = {}
    BY <2>1
  <2>3. Pending(t)' = Pending(t)
    BY <2>1, <2>2 DEF Pending
  <2> QED
    BY <1>1, <2>1, <2>3 DEF Awaits, Settled, Blind, PendingReset
<1>9. CASE SBatchDone(t)
  <2>1. spc[t] = "events" /\ UNCHANGED <<batch, queue, watching, missed, attached>>
    BY <1>9 DEF SBatchDone, vars, dirVars
  <2>2. Pending(t)' = Pending(t)
    BY <2>1 DEF Pending
  <2> QED
    BY <1>1, <2>1, <2>2 DEF Awaits, Settled, Blind, PendingReset
<1>10. CASE SIgnored(t)
  <2>1. /\ spc[t] = "events" /\ batch[t] # <<>> /\ Head(batch[t]).mask = "OVERFLOW"
        /\ batch'[t] = Tail(batch[t])
        /\ UNCHANGED <<queue, watching, missed, attached>>
    BY <1>1, <1>10 DEF SIgnored, Handling, SubTypeOK, vars, dirVars
  <2>2. \A i \in DOMAIN batch[t] :
          batch[t][i] = Head(batch[t]) \/ \E j \in DOMAIN batch'[t] : batch'[t][j] = batch[t][i]
    BY <1>2, <2>1, TailKeeps
  <2>3. \A e \in Pending(t) : e.mask = "OVERFLOW" \/ e \in Pending(t)'
    BY <2>1, <2>2 DEF Pending
  <2>4. \A n : CloseWrite(n).mask # "OVERFLOW"
    BY DEF CloseWrite
  <2>5. ~PendingReset(t)
    BY <1>1, <2>3 DEF PendingReset
  <2> QED
    BY <1>1, <2>1, <2>3, <2>4, <2>5 DEF Awaits, Settled, Blind
<1> QED
  BY <1>4, <1>5, <1>6, <1>7, <1>8, <1>9, <1>10 DEF Subscriber

(* A subscriber reads again when it has handled what it read.                 *)
LEMMA SubscriberBatch ==
  ASSUME SubTypeOK, BatchHandled, NEW t \in Sub, Subscriber(t)
  PROVE  BatchHandled'
<1>1. \A s \in Sub \ {t} : spc'[s] = spc[s] /\ batch'[s] = batch[s]
  BY SubscriberEffect
<1>2. ASSUME spc'[t] \in {"start", "stat", "add_watch", "scan", "loop"} PROVE batch'[t] = <<>>
  <2> HIDE DEF Borrowed
  <2>1. CASE SStart(t) \/ SStat(t) \/ SAddWatch(t) \/ SScan(t) \/ SBatchDone(t)
    BY <2>1 DEF SStart, SStat, SAddWatch, SScan, SBatchDone, BatchHandled
  <2>2. ASSUME Dies(t) PROVE FALSE
    BY <1>2, <2>2 DEF Dies, Proceed, SubTypeOK
  <2>3. CASE SScanFails(t) \/ SPidfdOpen(t) \/ SDisplayFails(t)
    BY <1>2, <2>2, <2>3 DEF SScanFails, SPidfdOpen, SDisplayFails, Proceed, SubTypeOK
  <2>4. CASE SGetFd(t)
    BY <1>2, <2>2, <2>4 DEF SGetFd, Proceed, SubTypeOK
  <2>5. CASE SRead(t)
    BY <1>2, <2>5 DEF SRead, TakeEvents, Proceed, SubTypeOK
  <2>6. CASE SDeleted(t)
    BY <2>6 DEF SDeleted, SubTypeOK
  <2>7. CASE SCreated(t) \/ SIgnored(t)
    BY <1>2, <2>7 DEF SCreated, SIgnored, Handling, Proceed, SubTypeOK
  <2> QED
    BY <2>1, <2>3, <2>4, <2>5, <2>6, <2>7 DEF Subscriber
<1> QED
  BY <1>1, <1>2 DEF BatchHandled

(* A subscriber's step.                                                       *)
LEMMA SubscriberAwaits ==
  ASSUME TopicInv, NEW t \in Sub, Subscriber(t)
  PROVE  FilesAttached' /\ BatchHandled' /\ AwaitsAll'
<1>1. SubTypeOK /\ BatchHandled /\ FilesAttached /\ AwaitsAll
  BY DEF TopicInv
<1>2. UNCHANGED <<pubVars, files, detached>>
  BY <1>1, SubscriberEffect
<1>3. BatchHandled'
  BY <1>1, SubscriberBatch
<1>4. AwaitsAll'
  <2> SUFFICES ASSUME NEW s \in Sub, Awaits(s)', NEW n \in files
               PROVE  CloseWrite(n) \in Pending(s)' \/ Closing(n)'
    BY <1>2 DEF AwaitsAll, CloseWrite
  <2>1. Closing(n) => Closing(n)'
    BY <1>2 DEF pubVars, Closing, InfoName
  <2>2. CASE s = t
    <3>1. Awaits(t) /\ (CloseWrite(n) \in Pending(t) => CloseWrite(n) \in Pending(t)')
      BY <1>1, <2>2, OwnAwaits
    <3> QED
      BY <1>1, <2>1, <2>2, <3>1 DEF AwaitsAll
  <2>3. CASE s # t
    <3>1. /\ spc'[s] = spc[s] /\ attached'[s] = attached[s]
          /\ batch'[s] = batch[s] /\ queue'[s] = queue[s]
          /\ s \in watching' <=> s \in watching
          /\ s \in missed' <=> s \in missed
      BY <1>1, <2>3, SubscriberEffect
    <3>2. Pending(s)' = Pending(s)
      BY <3>1 DEF Pending
    <3>3. Awaits(s)
      BY <3>1, <3>2 DEF Awaits, Settled, Blind, PendingReset
    <3> QED
      BY <1>1, <2>1, <3>2, <3>3 DEF AwaitsAll
  <2> QED
    BY <2>2, <2>3
<1> QED
  BY <1>1, <1>2, <1>3, <1>4 DEF FilesAttached

(* Publishers, processes, the cleaner and subscribers keep the invariant: it  *)
(* watches before it scans, and skips nothing while it has no publisher       *)
(* (inotify_topic.cpp:88-103, 176-196).                                       *)
THEOREM TopicInvariant == TopicSpec => []TopicInv
<1>1. SubInit => FilesAttached /\ BatchHandled /\ AwaitsAll
  BY DEF SubInit, Init, DirInit, FilesAttached, BatchHandled, AwaitsAll
<1>2. /\ TopicInv /\ [TopicNext]_allVars
      => FilesAttached' /\ BatchHandled' /\ AwaitsAll'
  <2> SUFFICES ASSUME TopicInv, [TopicNext]_allVars
               PROVE  FilesAttached' /\ BatchHandled' /\ AwaitsAll'
    OBVIOUS
  <2>1. ASSUME UNCHANGED subVars PROVE BatchHandled'
    BY <2>1 DEF TopicInv, BatchHandled, subVars
  <2>2. CASE Next /\ UNCHANGED subVars
    BY <2>1, <2>2, PublisherAwaits, EnvironmentAwaits DEF Next
  <2>3. CASE \E s \in Sub : Subscriber(s)
    BY <2>3, SubscriberAwaits
  <2>4. CASE UNCHANGED allVars
    <3>1. UNCHANGED subVars /\ UNCHANGED <<pubVars, files, detached, queue, missed, watching>>
      BY <2>4 DEF allVars, vars, dirVars
    <3>2. \A n \in files : Closing(n) => Closing(n)'
      BY <3>1 DEF pubVars, Closing, InfoName
    <3> QED
      BY <2>1, <3>1, <3>2, RemovalAwaits
  <2> QED
    BY <2>2, <2>3, <2>4 DEF TopicNext
<1> QED
  BY <1>1, <1>2, OwnedTyped, PTL DEF TopicSpec, TopicInv

(* One that did not see an info file in its scan has its announcement, or     *)
(* will have it, unless it is blind or about to start over.                   *)
THEOREM PendingTheorem == TopicSpec => []RegistrationPending
<1>1. TopicInv => RegistrationPending
  <2> SUFFICES ASSUME TopicInv PROVE RegistrationPending
    OBVIOUS
  <2>1. \A n : Closing(n) => \E p \in Pub : InfoName(p) = n /\ pc[p] \in {"close_file", "exiting"}
    BY DEF Closing
  <2> QED
    BY <2>1 DEF TopicInv, AwaitsAll, Awaits, RegistrationPending
<1> QED
  BY <1>1, TopicInvariant, PTL
-----------------------------------------------------------------------------
(* A subscriber with a publisher. *)

(* Nothing but the pushed event, or the mark of a lost one, gets into a queue.*)
LEMMA PushAdds ==
  ASSUME NEW q \in Seq(Event), NEW e \in Event
  PROVE  \A i \in DOMAIN Push(q, e) :
           Push(q, e)[i] \in {e, Overflow} \/ \E j \in DOMAIN q : Push(q, e)[i] = q[j]
<1>1. CASE Push(q, e) = q
  BY <1>1
<1>2. CASE Push(q, e) = Append(q, e) \/ Push(q, e) = Append(q, Overflow)
  <2>1. PICK new \in {e, Overflow} : Push(q, e) = Append(q, new)
    BY <1>2
  <2>2. Overflow \in Event
    BY DEF Overflow, Event
  <2>3. /\ DOMAIN q = 1 .. Len(q) /\ DOMAIN Append(q, new) = 1 .. Len(q) + 1 /\ Len(q) \in Nat
        /\ \A i \in 1 .. Len(q) : Append(q, new)[i] = q[i]
        /\ Append(q, new)[Len(q) + 1] = new
    BY <2>2
  <2> QED
    BY <2>1, <2>3
<1> QED
  BY <1>1, <1>2 DEF Push, Overflowed

(* What is told is what happened, or that something was not told.             *)
LEMMA EmitAdds ==
  ASSUME SubTypeOK, NEW e \in Event, Emit(e), UNCHANGED subVars, NEW s \in Sub,
         NEW x \in Pending(s)'
  PROVE  x \in Pending(s) \/ x = e \/ x.mask = "OVERFLOW"
<1>1. queue[s] \in Seq(Event)
  BY DEF SubTypeOK, TypeOK, DirTypeOK
<1>2. queue'[s] = IF s \in watching THEN Push(queue[s], e) ELSE queue[s]
  BY DEF Emit
<1>3. Overflow.mask = "OVERFLOW"
  BY DEF Overflow
<1>4. CASE \E i \in DOMAIN batch[s] : x = batch[s][i]
  BY <1>4 DEF Pending
<1>5. CASE \E i \in DOMAIN queue'[s] : x = queue'[s][i]
  <2>1. PICK i \in DOMAIN queue'[s] : x = queue'[s][i]
    BY <1>5
  <2>2. x \in {e, Overflow} \/ \E j \in DOMAIN queue[s] : x = queue[s][j]
    BY <1>1, <1>2, <2>1, PushAdds
  <2> QED
    BY <1>3, <2>2 DEF Pending
<1> QED
  BY <1>4, <1>5 DEF Pending, subVars

(* Publishers that own what they record have different names.                 *)
LEMMA OneName ==
  ASSUME OwnershipInv, NEW p \in Pub, NEW q \in Pub, InfoName(p) = InfoName(q),
         pc[p] \in {"close_file", "running"}, pc[q] \in {"close_file", "running"}
  PROVE  p = q
<1>1. Usable(p) /\ Usable(q)
  BY ActiveUsable
<1>2. BufferOf(p, QueueSize) = BufferOf(q, QueueSize)
  BY <1>1 DEF Usable, InfoName
<1> QED
  BY <1>2 DEF BufferOf

\* Publisher p is as usable as before, or a publisher of its name was killed.
Kept(p) ==
  \/ pc'[p] \in {"close_file", "running"} /\ InfoName(p)' = InfoName(p)
  \/ \E q \in Pub : Orphaned(q)' /\ InfoName(q)' = InfoName(p)

\* The process that file n names stays, or leaves the file behind.
Stays(n) ==
  n[1] \in alive =>
    \/ n[1] \in alive' /\ boot'[n[1]] = boot[n[1]]
    \/ \E p \in Pub : Orphaned(p)' /\ InfoName(p)' = n

(* A step of others after which the watchers have been told the truth, and of *)
(* every file that is gone, leaves a subscriber with the buffer it has.       *)
LEMMA OthersKeepAttached ==
  ASSUME EventsTrue, TargetThere, TargetLives, AttachmentSound, NothingAttached,
         \A n \in files : Stays(n), NeverCleaned, NeverCleaned', OwnershipInv', UNCHANGED subVars, \A s \in Sub : Told(s),
         \A s \in Sub : \A e \in Pending(s)' :
           e \in Pending(s) \/ e.mask # "CLOSE_WRITE" \/ e.name \in files',
         \A s \in Sub, n \in files \ files' : Excused(s)',
         \A p \in Pub : pc[p] \in {"close_file", "running"} /\ InfoName(p) \in files' => Kept(p),
         \A p \in Pub : Orphaned(p) => Orphaned(p)' /\ InfoName(p)' = InfoName(p)
  PROVE  EventsTrue' /\ TargetThere' /\ TargetLives' /\ AttachmentSound' /\ NothingAttached'
<1>1. \A s \in Sub : Excused(s) => Excused(s)'
  BY DEF Told, Excused, PendingReset
<1>2. EventsTrue'
  BY <1>1 DEF EventsTrue, subVars
<1>3. TargetThere' /\ NothingAttached'
  BY <1>1 DEF TargetThere, NothingAttached, subVars
<1>4. AttachmentSound'
  <2> SUFFICES ASSUME NEW s \in Sub, Settled(s), attached[s] # NoBuffer, ~Excused(s)'
               PROVE  \/ Designates(target[s], attached[s])'
                      \/ \E p \in Pub : Orphaned(p)' /\ InfoName(p)' = target[s]
    BY DEF AttachmentSound, Excused, Settled, subVars
  <2>1. CASE \E p \in Pub : Orphaned(p) /\ InfoName(p) = target[s]
    BY <2>1
  <2>2. CASE Designates(target[s], attached[s])
    <3>1. PICK p \in Pub : /\ InfoName(p) = target[s] /\ Usable(p)
                           /\ attached[s] = BufferOf(p, QueueSize)
      BY <2>2 DEF Designates
    <3>2. target[s] \in files'
      BY <2>2 DEF Designates
    <3>3. Kept(p)
      BY <3>1, <3>2 DEF Usable
    <3>4. CASE pc'[p] \in {"close_file", "running"} /\ InfoName(p)' = InfoName(p)
      <4>1. (OwnershipInv /\ pc[p] \in {"close_file", "running"} => Usable(p))'
        BY ActiveUsable, PTL
      <4> QED
        BY <3>1, <3>2, <3>4, <4>1 DEF Designates, BufferOf, subVars
    <3> QED
      BY <3>1, <3>3, <3>4 DEF Kept
  <2>3. Designates(target[s], attached[s]) \/ \E p \in Pub : Orphaned(p) /\ InfoName(p) = target[s]
    <3>1. ~Excused(s) /\ ~(cleanings < Cleanings)
      BY <1>1, CleaningsAssumption DEF NeverCleaned, CleaningsAssumption
    <3> QED
      BY <3>1 DEF AttachmentSound, Excused
  <2> QED
    BY <2>1, <2>2, <2>3
<1>5. TargetLives'
  <2> SUFFICES ASSUME NEW s \in Sub, spc[s] = "getfd", ~Excused(s)'
               PROVE  \/ \E p \in Pub : Orphaned(p)' /\ InfoName(p)' = target[s]
                      \/ target[s][1] \in alive' /\ pid_fd[s] = boot'[target[s][1]]
    BY DEF TargetLives, subVars
  <2>1. target[s] \in files /\ ~Excused(s)
    BY <1>1 DEF TargetThere
  <2>2. CASE \E p \in Pub : Orphaned(p) /\ InfoName(p) = target[s]
    BY <2>2
  <2>3. CASE target[s][1] \in alive /\ pid_fd[s] = boot[target[s][1]]
    BY <2>1, <2>3 DEF Stays
  <2> QED
    BY <2>1, <2>2, <2>3 DEF TargetLives
<1> QED
  BY <1>2, <1>3, <1>4, <1>5

\* What is to show of a step.
AttachStep == ExitingGone' /\ NothingAttached' /\ (NeverCleaned' => Undisturbed')

(* A step of a publisher that ends no process, makes no event and removes no  *)
(* file: building, closing descriptors, and creating the file.                *)
LEMMA BuildAttach ==
  ASSUME AttachInv, OwnershipInv', UNCHANGED subVars, NEW p \in Pub,
         \/ InitTopicPath(p) \/ OpenHeap(p) \/ Allocate(p) \/ UpdateBufferInfo(p)
         \/ CreateEvent(p) \/ FillInfo(p) \/ OpenInfoFile(p)
         \/ ResetInfoBuffer(p) \/ ResetDmaBuffer(p) \/ ResetEvent(p)
  PROVE  AttachStep
<1>1. TypeOK /\ OwnershipInv /\ ExitingGone /\ NothingAttached
  BY DEF AttachInv, TopicInv, OwnershipInv
<1>2. /\ Others(p) /\ UNCHANGED <<alive, boot, watching, queue, missed, cleaning, cleanings>>
      /\ files \subseteq files'
      /\ pc[p] \notin {"close_file", "running", "exiting", "killed"}
      /\ \/ pc'[p] \notin {"close_file", "running", "exiting", "killed"}
         \/ pc'[p] = "close_file" /\ (file_fd'[p] # -1 => InfoName(p)' \in files')
  <2>1. CASE OpenInfoFile(p)
    <3>1. /\ Others(p)
          /\ UNCHANGED <<alive, boot, watching, queue, missed, cleaning, cleanings, buffer_fd>>
          /\ pc[p] = "open_file" /\ pc'[p] = "close_file"
      BY <1>1, <2>1 DEF OpenInfoFile, CreateFile, dirVars, At, GoTo, Others, TypeOK
    <3>2. file_fd[p] = -1
      BY <1>1, <3>1 DEF OwnershipInv, Ordered
    <3>3. \/ files' = files \union {InfoName(p)}
          \/ files' = files /\ file_fd'[p] = -1
      BY <2>1, <3>2 DEF OpenInfoFile, CreateFile, dirVars
    <3>4. InfoName(p)' = InfoName(p)
      BY <3>1 DEF InfoName
    <3> QED
      BY <3>1, <3>3, <3>4
  <2> QED
    BY <1>1, <2>1, SilentStep
<1>3. \A q \in Pub \ {p} : InfoName(q)' = InfoName(q) /\ pc'[q] = pc[q] /\ file_fd'[q] = file_fd[q]
  BY <1>2 DEF Others, InfoName
<1>4. ExitingGone'
  BY <1>1, <1>2, <1>3 DEF ExitingGone
<1>5. NothingAttached'
  BY <1>1 DEF NothingAttached, subVars
<1>6. ASSUME NeverCleaned' PROVE Undisturbed'
  <2>1. NeverCleaned /\ Undisturbed
    BY <1>2, <1>6 DEF NeverCleaned, AttachInv
  <2>2. RegisteredThere'
    BY <1>2, <1>3, <2>1 DEF Undisturbed, RegisteredThere
  <2>3. \A s \in Sub : Told(s)
    BY <1>2, QuietTold
  <2>4. \A s \in Sub : Pending(s)' = Pending(s)
    BY <1>2 DEF Pending, subVars
  <2>5. \A q \in Pub : pc[q] \in {"close_file", "running"} => Kept(q)
    BY <1>2, <1>3 DEF Kept
  <2>6. \A q \in Pub : Orphaned(q) => Orphaned(q)' /\ InfoName(q)' = InfoName(q)
    BY <1>2, <1>3 DEF Orphaned
  <2>7. EventsTrue' /\ TargetThere' /\ TargetLives' /\ AttachmentSound'
    BY <1>1, <1>2, <1>6, <2>1, <2>3, <2>4, <2>5, <2>6, OthersKeepAttached DEF Undisturbed, Stays
  <2> QED
    BY <1>2, <2>1, <2>2, <2>7 DEF Undisturbed
<1> QED
  BY <1>4, <1>5, <1>6 DEF AttachStep

(* Closing the file announces a file that is there.                           *)
LEMMA CloseFileAttach ==
  ASSUME AttachInv, OwnershipInv', UNCHANGED subVars, NEW p \in Pub,
         CloseInfoFile(p) \/ KernelClosesFile(p)
  PROVE  AttachStep
<1>1. TypeOK /\ SubTypeOK /\ OwnershipInv /\ ExitingGone /\ NothingAttached
  BY DEF AttachInv, TopicInv, OwnershipInv
<1>2. /\ Others(p) /\ UNCHANGED <<alive, boot, buffer_fd, file_fd>>
      /\ \/ pc[p] = "close_file" /\ pc'[p] = "running"
         \/ pc[p] = "exiting" /\ pc'[p] = "killed" /\ file_fd[p] # -1
  BY <1>1 DEF CloseInfoFile, KernelClosesFile, At, GoTo, Others, procVars, TypeOK, ExitingGone
<1>3. \/ file_fd[p] # -1 /\ CloseFile(InfoName(p))
      \/ UNCHANGED dirVars
  BY <1>1, <1>2 DEF CloseInfoFile, KernelClosesFile, dirVars
<1>4. UNCHANGED <<files, watching, cleaning, cleanings>>
  BY <1>3 DEF CloseFile, dirVars
<1>5. \A q \in Pub : InfoName(q)' = InfoName(q)
  BY <1>2 DEF InfoName
<1>6. \A q \in Pub \ {p} : pc'[q] = pc[q]
  BY <1>2 DEF Others
<1>7. ExitingGone'
  BY <1>1, <1>2, <1>6 DEF ExitingGone
<1>8. NothingAttached'
  BY <1>1 DEF NothingAttached, subVars
<1>9. ASSUME NeverCleaned' PROVE Undisturbed'
  <2>1. NeverCleaned /\ Undisturbed
    BY <1>4, <1>9 DEF NeverCleaned, AttachInv
  <2>2. RegisteredThere'
    BY <1>2, <1>4, <1>5, <1>6, <2>1 DEF Undisturbed, RegisteredThere
  <2>3. \A s \in Sub : /\ Told(s)
                       /\ \A e \in Pending(s)' :
                            e \in Pending(s) \/ e.mask # "CLOSE_WRITE" \/ e.name \in files'
    <3>1. CASE UNCHANGED <<queue, missed>>
      <4>1. \A s \in Sub : Pending(s)' = Pending(s)
        BY <3>1 DEF Pending, subVars
      <4> QED
        BY <1>4, <3>1, <4>1, QuietTold
    <3>2. CASE file_fd[p] # -1 /\ Emit(CloseWrite(InfoName(p)))
      <4>1. InfoName(p) \in files
        BY <1>2, <2>1, <3>2 DEF Undisturbed, RegisteredThere
      <4> DEFINE n == InfoName(p)
      <4>2. CloseWrite(n) \in Event /\ CloseWrite(n).name = n
        BY <1>1, <4>1 DEF CloseWrite, Event, TypeOK, DirTypeOK
      <4>3. n \in files' /\ Emit(CloseWrite(n))
        BY <1>4, <3>2, <4>1
      <4> HIDE DEF n
      <4>4. \A s \in Sub : \A e \in Pending(s)' : e \in Pending(s) \/ e = CloseWrite(n) \/ e.mask = "OVERFLOW"
        BY <1>1, <4>2, <4>3, EmitAdds
      <4>5. \A s \in Sub : Told(s)
        BY <1>1, <1>4, <4>2, <4>3, EmitTold
      <4> QED
        BY <4>2, <4>3, <4>4, <4>5
    <3> QED
      BY <1>3, <3>1, <3>2 DEF CloseFile, dirVars
  <2>4. \A q \in Pub : pc[q] \in {"close_file", "running"} => Kept(q)
    BY <1>2, <1>5, <1>6 DEF Kept
  <2>5. \A q \in Pub : Orphaned(q) => Orphaned(q)' /\ InfoName(q)' = InfoName(q)
    BY <1>2, <1>5, <1>6 DEF Orphaned
  <2>6. EventsTrue' /\ TargetThere' /\ TargetLives' /\ AttachmentSound'
    BY <1>1, <1>2, <1>4, <1>9, <2>1, <2>3, <2>4, <2>5, OthersKeepAttached DEF Undisturbed, Stays
  <2> QED
    BY <1>4, <2>1, <2>2, <2>6 DEF Undisturbed
<1> QED
  BY <1>7, <1>8, <1>9 DEF AttachStep

(* Removing the file takes it from nobody else, and is announced.             *)
LEMMA RemoveAttach ==
  ASSUME AttachInv, OwnershipInv', UNCHANGED subVars, NEW p \in Pub, RemoveInfoFile(p)
  PROVE  AttachStep
<1> DEFINE n == InfoName(p)
<1>1. TypeOK /\ SubTypeOK /\ OwnershipInv /\ ExitingGone /\ NothingAttached
  BY DEF AttachInv, TopicInv, OwnershipInv
<1>2. /\ Others(p) /\ UNCHANGED <<alive, boot, buffer_fd, file_fd>>
      /\ pc[p] = "running" /\ pc'[p] = "reset_info" /\ Host[p] \in alive
  BY <1>1 DEF RemoveInfoFile, At, GoTo, Others, procVars, TypeOK
<1>3. /\ files' = files \ {n} /\ UNCHANGED <<watching, cleaning, cleanings>>
      /\ IF n \in files THEN Emit(Delete(n)) ELSE UNCHANGED <<queue, missed>>
  BY DEF RemoveInfoFile, Unlink
<1>4. \A q \in Pub : InfoName(q)' = InfoName(q)
  BY <1>2 DEF InfoName
<1>5. \A q \in Pub \ {p} : pc'[q] = pc[q]
  BY <1>2 DEF Others
<1>6. ExitingGone'
  BY <1>1, <1>2, <1>5 DEF ExitingGone
<1>7. NothingAttached'
  BY <1>1 DEF NothingAttached, subVars
<1>8. ASSUME NEW q \in Pub \ {p}, pc[q] \in {"close_file", "running", "exiting"}
      PROVE  InfoName(q) # n
  <2>1. CASE pc[q] \in {"close_file", "running"}
    BY <1>1, <1>2, <1>8, <2>1, OneName
  <2>2. CASE pc[q] = "exiting"
    <3>1. Host[q] # Host[p]
      BY <1>1, <1>2, <2>2 DEF ExitingGone
    <3> QED
      BY <3>1 DEF InfoName
  <2> QED
    BY <1>8, <2>1, <2>2
<1> HIDE DEF n
<1>9. ASSUME NeverCleaned' PROVE Undisturbed'
  <2>1. NeverCleaned /\ Undisturbed
    BY <1>3, <1>9 DEF NeverCleaned, AttachInv
  <2>2. RegisteredThere'
    BY <1>2, <1>3, <1>4, <1>5, <1>8, <2>1 DEF Undisturbed, RegisteredThere
  <2>3. \A s \in Sub : /\ Told(s)
                       /\ \A e \in Pending(s)' : e \in Pending(s) \/ e.mask # "CLOSE_WRITE"
                       /\ n \in files => Excused(s)'
    <3>1. CASE n \notin files
      <4>1. \A s \in Sub : Pending(s)' = Pending(s)
        BY <1>3, <3>1 DEF Pending, subVars
      <4> QED
        BY <1>3, <3>1, <4>1, QuietTold
    <3>2. CASE n \in files
      <4>1. Delete(n) \in Event /\ Delete(n).mask = "DELETE" /\ Emit(Delete(n))
        BY <1>1, <1>3, <3>2 DEF Delete, Event, TypeOK, DirTypeOK
      <4>2. \A s \in Sub : \A e \in Pending(s)' : e \in Pending(s) \/ e = Delete(n) \/ e.mask = "OVERFLOW"
        BY <1>1, <4>1, EmitAdds
      <4>3. \A s \in Sub : Told(s) /\ (~Blind(s)' => Delete(n) \in Pending(s)')
        BY <1>1, <1>3, <4>1, EmitTold
      <4>4. \A s \in Sub : Excused(s)'
        BY <4>1, <4>3 DEF Excused, PendingReset
      <4> QED
        BY <4>1, <4>2, <4>3, <4>4
    <3> QED
      BY <3>1, <3>2
  <2>4. \A q \in Pub : pc[q] \in {"close_file", "running"} /\ InfoName(q) \in files' => Kept(q)
    BY <1>3, <1>4, <1>5 DEF Kept, n
  <2>5. \A q \in Pub : Orphaned(q) => Orphaned(q)' /\ InfoName(q)' = InfoName(q)
    BY <1>2, <1>4, <1>5 DEF Orphaned
  <2>6. EventsTrue' /\ TargetThere' /\ TargetLives' /\ AttachmentSound'
    BY <1>1, <1>2, <1>3, <1>9, <2>1, <2>3, <2>4, <2>5, OthersKeepAttached DEF Undisturbed, Stays
  <2> QED
    BY <1>3, <2>1, <2>2, <2>6 DEF Undisturbed
<1> QED
  BY <1>6, <1>7, <1>9 DEF AttachStep

(* A process ends: a file of its publishers is left over.                     *)
LEMMA ExitAttach ==
  ASSUME AttachInv, OwnershipInv', UNCHANGED subVars, NEW h \in Proc, Exit(h)
  PROVE  AttachStep
<1>1. OwnershipInv /\ ExitingGone /\ NothingAttached
  BY DEF AttachInv, TopicInv
<1>2. /\ UNCHANGED <<files, watching, queue, missed, cleaning, cleanings, file_fd, buffer_fd, boot>>
      /\ alive' = alive \ {h}
  BY DEF Exit, dirVars
<1>3. \A q \in Pub : InfoName(q)' = InfoName(q)
  BY <1>2 DEF InfoName
<1>4. \A q \in Pub : pc'[q] = IF Host[q] # h \/ pc[q] \in {"idle", "destroyed", "exiting", "killed"}
                              THEN pc[q]
                              ELSE IF pc[q] = "close_file" /\ file_fd[q] # -1 THEN "exiting"
                              ELSE "killed"
  BY DEF Exit
<1>5. ExitingGone'
  BY <1>1, <1>2, <1>4 DEF ExitingGone
<1>6. NothingAttached'
  BY <1>1 DEF NothingAttached, subVars
<1>7. \A q \in Pub : Orphaned(q) => Orphaned(q)' /\ InfoName(q)' = InfoName(q)
  BY <1>2, <1>3, <1>4 DEF Orphaned
<1>8. ASSUME NEW q \in Pub, pc[q] \in {"close_file", "running"}, InfoName(q) \in files
      PROVE  Kept(q)
  <2>1. PICK r \in Pub : InfoName(r) = InfoName(q) /\ Registrant(r)
    BY <1>1, <1>8 DEF OwnershipInv, FilesRegistered
  <2>2. CASE Orphaned(r)
    BY <1>7, <2>1, <2>2 DEF Kept
  <2>3. CASE pc[r] \in {"close_file", "running"}
    <3>1. r = q
      BY <1>1, <1>8, <2>1, <2>3, OneName
    <3>2. file_fd[q] # -1
      BY <2>1, <3>1 DEF Registrant
    <3>3. pc'[q] = pc[q] \/ Orphaned(q)'
      BY <1>2, <1>4, <3>2 DEF Orphaned
    <3> QED
      BY <1>3, <1>8, <3>3 DEF Kept
  <2> QED
    BY <2>1, <2>2, <2>3 DEF Registrant, Orphaned
<1>9. ASSUME NEW n \in files PROVE Stays(n)
  <2>1. PICK r \in Pub : InfoName(r) = n /\ Registrant(r)
    BY <1>1 DEF OwnershipInv, FilesRegistered
  <2>2. CASE Host[r] = h
    <3>1. Orphaned(r)'
      BY <1>2, <1>4, <2>1, <2>2 DEF Registrant, Orphaned
    <3> QED
      BY <1>3, <2>1, <3>1 DEF Stays
  <2>3. CASE Host[r] # h
    BY <1>2, <2>1, <2>3 DEF Stays, InfoName
  <2> QED
    BY <2>2, <2>3
<1>10. ASSUME NeverCleaned' PROVE Undisturbed'
  <2>1. NeverCleaned /\ Undisturbed
    BY <1>2, <1>10 DEF NeverCleaned, AttachInv
  <2>2. RegisteredThere'
    BY <1>2, <1>3, <1>4, <2>1 DEF Undisturbed, RegisteredThere
  <2>3. \A s \in Sub : Told(s)
    BY <1>2, QuietTold
  <2>4. \A s \in Sub : Pending(s)' = Pending(s)
    BY <1>2 DEF Pending, subVars
  <2>5. EventsTrue' /\ TargetThere' /\ TargetLives' /\ AttachmentSound'
    BY <1>1, <1>2, <1>7, <1>8, <1>9, <1>10, <2>1, <2>3, <2>4, OthersKeepAttached DEF Undisturbed
  <2> QED
    BY <1>2, <2>1, <2>2, <2>5 DEF Undisturbed
<1> QED
  BY <1>5, <1>6, <1>10 DEF AttachStep

(* A new process, which waits until the old one's files are closed, and       *)
(* whoever does nothing.                                                      *)
LEMMA IdleAttach ==
  ASSUME AttachInv, OwnershipInv', UNCHANGED <<dirVars, pubVars, subVars>>,
         UNCHANGED <<alive, boot>> \/ \E h \in Proc : Boot(h)
  PROVE  AttachStep
<1>1. ExitingGone /\ NothingAttached
  BY DEF AttachInv
<1>2. UNCHANGED <<files, watching, queue, missed, cleaning, cleanings, pc, file_fd, buffer_fd>>
  BY DEF dirVars, pubVars
<1>3. \A q \in Pub : InfoName(q)' = InfoName(q)
  BY <1>2 DEF InfoName
<1>4. ExitingGone'
  BY <1>1, <1>2 DEF ExitingGone, Boot
<1>5. NothingAttached'
  BY <1>1 DEF NothingAttached, subVars
<1>6. \A n : Stays(n)
  BY DEF Stays, Boot, AttachInv, TopicInv, OwnershipInv, TypeOK
<1>7. ASSUME NeverCleaned' PROVE Undisturbed'
  <2>1. NeverCleaned /\ Undisturbed
    BY <1>2, <1>7 DEF NeverCleaned, AttachInv
  <2>2. RegisteredThere'
    BY <1>2, <1>3, <2>1 DEF Undisturbed, RegisteredThere
  <2>3. \A s \in Sub : Told(s)
    BY <1>2, QuietTold
  <2>4. \A s \in Sub : Pending(s)' = Pending(s)
    BY <1>2 DEF Pending, subVars
  <2>5. \A q \in Pub : /\ pc[q] \in {"close_file", "running"} => Kept(q)
                       /\ Orphaned(q) => Orphaned(q)' /\ InfoName(q)' = InfoName(q)
    BY <1>2, <1>3 DEF Kept, Orphaned
  <2>6. EventsTrue' /\ TargetThere' /\ TargetLives' /\ AttachmentSound'
    BY <1>1, <1>2, <1>6, <1>7, <2>1, <2>3, <2>4, <2>5, OthersKeepAttached DEF Undisturbed
  <2> QED
    BY <1>2, <2>1, <2>2, <2>6 DEF Undisturbed
<1> QED
  BY <1>4, <1>5, <1>7 DEF AttachStep

(* The cleaner begins with a step after which nothing is promised.            *)
LEMMA CleanerAttach ==
  ASSUME AttachInv, UNCHANGED <<procVars, pubVars, subVars>>, Cleaner
  PROVE  AttachStep
<1>1. ExitingGone /\ NothingAttached /\ cleanings \in 0 .. Cleanings
  BY DEF AttachInv, TopicInv, OwnershipInv, TypeOK, DirTypeOK
<1>2. ExitingGone' /\ NothingAttached'
  BY <1>1 DEF ExitingGone, NothingAttached, procVars, pubVars, subVars
<1>3. ~NeverCleaned'
  <2>1. CASE CleanerStarts
    BY <1>1, <2>1, CleaningsAssumption DEF CleanerStarts, NeverCleaned, CleaningsAssumption
  <2>2. CASE CleanerUnlinks \/ CleanerRemovesDirectory
    <3>1. cleaning /\ cleanings' = cleanings
      BY <2>2 DEF CleanerUnlinks, CleanerRemovesDirectory
    <3> QED
      BY <3>1 DEF AttachInv, Undisturbed, NeverCleaned
  <2> QED
    BY <2>1, <2>2 DEF Cleaner
<1> QED
  BY <1>2, <1>3 DEF AttachStep

(* What a subscriber does to what it has been told: it drops everything and   *)
(* starts over, ends, or goes on with what is left.                           *)
LEMMA OwnPending ==
  ASSUME SubTypeOK, BatchHandled, NEW t \in Sub, Subscriber(t)
  PROVE  \/ spc'[t] = "start"
         \/ spc'[t] \in {"stat", "scan"} /\ Pending(t)' = {}
         \/ Blind(t)'
         \/ /\ spc[t] # "start"
            /\ Pending(t)' \subseteq Pending(t)
            /\ Excused(t) => Excused(t)'
<1>1. queue[t] \in Seq(Event) /\ batch[t] \in Seq(Event)
  BY DEF SubTypeOK, TypeOK, DirTypeOK
<1>2. ASSUME Dies(t) PROVE Blind(t)'
  BY <1>2 DEF Dies, CloseWatch, Blind
<1>3. CASE SScanFails(t) \/ SDisplayFails(t)
  BY <1>2, <1>3 DEF SScanFails, SDisplayFails
<1>4. CASE SStart(t) \/ SAddWatch(t)
  <2>1. batch'[t] = <<>> /\ queue'[t] = <<>>
    BY <1>4 DEF SStart, SAddWatch, CloseWatch, AddWatch, BatchHandled, SubTypeOK, TypeOK, DirTypeOK
  <2>2. DOMAIN batch'[t] = {} /\ DOMAIN queue'[t] = {}
    BY <2>1
  <2>3. spc'[t] \in {"stat", "scan"}
    BY <1>4 DEF SStart, SAddWatch, Proceed, SubTypeOK
  <2> QED
    BY <2>2, <2>3 DEF Pending
<1>5. ASSUME UNCHANGED <<queue, batch, watching, missed>>
      PROVE  Pending(t)' = Pending(t) /\ (Excused(t) => Excused(t)')
  BY <1>5 DEF Pending, Excused, PendingReset, Blind
<1>6. CASE SStat(t) \/ SScan(t) \/ SBatchDone(t)
  BY <1>5, <1>6 DEF SStat, SScan, SBatchDone, vars, dirVars
<1>7. CASE SPidfdOpen(t)
  BY <1>2, <1>5, <1>7 DEF SPidfdOpen, vars, dirVars
<1>8. CASE SGetFd(t)
  <2> HIDE DEF Borrowed
  <2> QED
    BY <1>2, <1>5, <1>8 DEF SGetFd, vars, dirVars
<1>9. CASE SRead(t)
  <2>1. /\ spc[t] = "loop" /\ batch[t] = <<>> /\ batch'[t] = queue[t] /\ queue'[t] = <<>>
        /\ UNCHANGED <<watching, missed>>
    BY <1>9 DEF SRead, TakeEvents, BatchHandled, SubTypeOK, TypeOK, DirTypeOK
  <2>2. DOMAIN batch[t] = {} /\ DOMAIN queue'[t] = {}
    BY <2>1
  <2>3. Pending(t)' = Pending(t)
    BY <2>1, <2>2 DEF Pending
  <2> QED
    BY <2>1, <2>3 DEF Excused, PendingReset, Blind
<1>10. CASE SDeleted(t)
  BY <1>10 DEF SDeleted, Proceed, SubTypeOK
<1>11. CASE SCreated(t) \/ SIgnored(t)
  <2>1. /\ spc[t] = "events" /\ batch[t] # <<>>
        /\ Head(batch[t]).mask \notin {"DELETE", "DELETE_SELF"}
        /\ batch'[t] = Tail(batch[t])
        /\ UNCHANGED <<queue, watching, missed>>
    BY <1>11 DEF SCreated, SIgnored, Handling, SubTypeOK, vars, dirVars
  <2>2. \A i \in DOMAIN batch[t] :
          batch[t][i] = Head(batch[t]) \/ \E j \in DOMAIN batch'[t] : batch'[t][j] = batch[t][i]
    BY <1>1, <2>1, TailKeeps
  <2>3. \A j \in DOMAIN batch'[t] : \E i \in DOMAIN batch[t] : batch'[t][j] = batch[t][i]
    BY <1>1, <2>1, TailKeeps
  <2>4. Pending(t)' \subseteq Pending(t)
    BY <2>1, <2>3 DEF Pending
  <2>5. \A e \in Pending(t) : e = Head(batch[t]) \/ e \in Pending(t)'
    BY <2>1, <2>2 DEF Pending
  <2> QED
    BY <2>1, <2>4, <2>5 DEF Excused, PendingReset, Blind
<1> QED
  BY <1>3, <1>4, <1>6, <1>7, <1>8, <1>9, <1>10, <1>11 DEF Subscriber

(* What a subscriber that nothing is displayed for goes on with.              *)
LEMMA OwnTarget ==
  ASSUME SubTypeOK, EventsTrue, TargetThere, NEW t \in Sub, Subscriber(t),
         spc'[t] \in {"connect", "getfd"}
  PROVE  target'[t] \in files \/ Excused(t)'
<1>1. ~Dies(t)
  BY DEF Dies, Proceed, SubTypeOK
<1>2. ASSUME UNCHANGED vars, batch' = batch PROVE Excused(t)' = Excused(t)
  BY <1>2 DEF vars, dirVars, Excused, PendingReset, Pending, Blind
<1> HIDE DEF Borrowed
<1>3. ~(SStart(t) \/ SStat(t) \/ SAddWatch(t) \/ SGetFd(t) \/ SRead(t) \/ SBatchDone(t) \/ SDeleted(t))
  BY <1>1 DEF SStart, SStat, SAddWatch, SGetFd, SRead, TakeEvents, SBatchDone, SDeleted, Proceed, SubTypeOK
<1>4. ~(SScanFails(t) \/ SDisplayFails(t) \/ SIgnored(t))
  BY <1>1 DEF SScanFails, SDisplayFails, SIgnored, Handling
<1>5. CASE SScan(t)
  BY <1>5 DEF SScan, Proceed, SubTypeOK
<1>6. CASE SPidfdOpen(t)
  BY <1>1, <1>2, <1>6 DEF SPidfdOpen, TargetThere, Proceed, SubTypeOK
<1>7. CASE SCreated(t)
  <2>1. /\ spc[t] = "events" /\ batch[t] # <<>> /\ Head(batch[t]).mask = "CLOSE_WRITE"
        /\ target'[t] = Head(batch[t]).name /\ batch'[t] = Tail(batch[t])
        /\ UNCHANGED <<queue, watching, missed>>
    BY <1>7 DEF SCreated, Handling, SubTypeOK, vars, dirVars
  <2>2. batch[t] \in Seq(Event)
    BY DEF SubTypeOK
  <2>3. \A i \in DOMAIN batch[t] :
          batch[t][i] = Head(batch[t]) \/ \E j \in DOMAIN batch'[t] : batch'[t][j] = batch[t][i]
    BY <2>1, <2>2, TailKeeps
  <2>4. Head(batch[t]) \in Pending(t)
    <3>1. \E i \in DOMAIN batch[t] : batch[t][i] = Head(batch[t])
      BY <2>1, <2>2, TailKeeps
    <3> QED
      BY <3>1 DEF Pending
  <2>5. Head(batch[t]).name \in files \/ Excused(t)
    BY <2>1, <2>4 DEF EventsTrue
  <2>6. Excused(t) => Excused(t)'
    <3>1. \A e \in Pending(t) : e = Head(batch[t]) \/ e \in Pending(t)'
      BY <2>1, <2>3 DEF Pending
    <3> QED
      BY <2>1, <3>1 DEF Excused, PendingReset, Blind
  <2> QED
    BY <2>1, <2>5, <2>6
<1> QED
  BY <1>3, <1>4, <1>5, <1>6, <1>7 DEF Subscriber

(* A pidfd is opened for a process that is there.                             *)
LEMMA OwnPidfd ==
  ASSUME SubTypeOK, NEW t \in Sub, Subscriber(t), spc'[t] = "getfd"
  PROVE  /\ SPidfdOpen(t) /\ spc[t] = "connect" /\ target' = target /\ vars' = vars
         /\ target[t][1] \in alive /\ pid_fd'[t] = boot[target[t][1]]
<1>1. ~Dies(t)
  BY DEF Dies, Proceed, SubTypeOK
<1> HIDE DEF Borrowed
<1>2. ~(SStart(t) \/ SStat(t) \/ SAddWatch(t) \/ SScan(t) \/ SGetFd(t) \/ SRead(t) \/ SBatchDone(t)
        \/ SDeleted(t) \/ SCreated(t))
  BY <1>1 DEF SStart, SStat, SAddWatch, SScan, SGetFd, SRead, TakeEvents, SBatchDone, SDeleted, SCreated,
              Proceed, SubTypeOK
<1>3. ~(SScanFails(t) \/ SDisplayFails(t) \/ SIgnored(t))
  BY <1>1 DEF SScanFails, SDisplayFails, SIgnored, Handling
<1>4. SPidfdOpen(t)
  BY <1>2, <1>3 DEF Subscriber
<1> QED
  BY <1>1, <1>4 DEF SPidfdOpen, SubTypeOK

(* What a subscriber displays after its own step: what it displayed, or what  *)
(* it has just borrowed from the process its target names.                    *)
LEMMA OwnDisplay ==
  ASSUME AttachInv, NeverCleaned, NEW t \in Sub, Subscriber(t),
         spc'[t] \in {"loop", "events"}, attached'[t] # NoBuffer, ~Excused(t)'
  PROVE  \/ Designates(target'[t], attached'[t])
         \/ \E p \in Pub : Orphaned(p) /\ InfoName(p) = target'[t]
<1>1. SubTypeOK /\ OwnershipInv /\ BatchHandled /\ NothingAttached /\ TargetThere /\ AttachmentSound
  BY DEF AttachInv, TopicInv, Undisturbed
<1>2. ~Dies(t)
  BY <1>1 DEF Dies, Proceed, SubTypeOK
<1>3. ~Excused(t) /\ ~(cleanings < Cleanings)
  <2>1. ~Excused(t)
    BY <1>1, OwnPending DEF Excused
  <2> QED
    BY <2>1, CleaningsAssumption DEF NeverCleaned, CleaningsAssumption
<1> HIDE DEF Borrowed
<1>4. ~(SStart(t) \/ SStat(t) \/ SAddWatch(t) \/ SPidfdOpen(t) \/ SDeleted(t) \/ SCreated(t))
  BY <1>1, <1>2 DEF SStart, SStat, SAddWatch, SPidfdOpen, SDeleted, SCreated, Proceed, SubTypeOK
<1>5. ~(SScanFails(t) \/ SDisplayFails(t))
  BY <1>2 DEF SScanFails, SDisplayFails
<1>6. ~SScan(t)
  BY <1>1 DEF SScan, NothingAttached
<1>7. CASE SGetFd(t)
  <2>1. /\ spc[t] = "getfd" /\ target'[t] = target[t]
        /\ attached'[t] = Borrowed(t) /\ Borrowed(t) # NoBuffer
    BY <1>1, <1>2, <1>7 DEF SGetFd, SubTypeOK
  <2>2. target[t] \in files
    BY <1>1, <1>3, <2>1 DEF TargetThere
  <2>3. PICK r \in Pub : InfoName(r) = target[t] /\ Registrant(r)
    BY <1>1, <2>2 DEF OwnershipInv, FilesRegistered
  <2>4. CASE pc[r] \in {"exiting", "killed"}
    BY <2>1, <2>3, <2>4 DEF Registrant, Orphaned
  <2>5. CASE pc[r] \in {"close_file", "running"}
    <3>1. Usable(r)
      BY <1>1, <2>5, ActiveUsable
    <3>2. target[t][1] = Host[r] /\ target[t][2] = buffer_fd[r][QueueSize]
      BY <2>3 DEF InfoName
    <3>3. fds[target[t][1]][target[t][2]] = BufferOf(r, QueueSize)
      BY <3>1, <3>2 DEF Usable
    <3>4. Borrowed(t) = BufferOf(r, QueueSize)
      BY <2>1, <3>3 DEF Borrowed
    <3> QED
      BY <2>1, <2>2, <2>3, <3>1, <3>4 DEF Designates
  <2> QED
    BY <2>3, <2>4, <2>5 DEF Registrant
<1>8. CASE SRead(t) \/ SBatchDone(t) \/ SIgnored(t)
  <2>1. Settled(t) /\ target'[t] = target[t] /\ attached'[t] = attached[t]
    BY <1>8 DEF SRead, TakeEvents, SBatchDone, SIgnored, Handling, Settled
  <2> QED
    BY <1>1, <1>3, <2>1 DEF AttachmentSound, Excused
<1> QED
  BY <1>4, <1>5, <1>6, <1>7, <1>8 DEF Subscriber

(* A subscriber begins a round, and connects, with nothing on display.        *)
LEMMA OwnRound ==
  ASSUME SubTypeOK, NothingAttached, NEW t \in Sub, Subscriber(t),
         spc'[t] \in {"stat", "add_watch", "scan", "connect", "getfd"}
  PROVE  attached'[t] = NoBuffer
<1>1. ~Dies(t)
  BY DEF Dies, Proceed, SubTypeOK
<1> HIDE DEF Borrowed
<1>2. CASE SStart(t) \/ SStat(t) \/ SAddWatch(t) \/ SScan(t)
  BY <1>2 DEF SStart, SStat, SAddWatch, SScan, NothingAttached, SubTypeOK
<1>3. CASE SPidfdOpen(t) \/ SCreated(t)
  BY <1>1, <1>3 DEF SPidfdOpen, SCreated, NothingAttached
<1>4. ~(SScanFails(t) \/ SDisplayFails(t) \/ SIgnored(t))
  BY <1>1 DEF SScanFails, SDisplayFails, SIgnored, Handling
<1>5. ~(SGetFd(t) \/ SRead(t) \/ SBatchDone(t) \/ SDeleted(t))
  BY <1>1 DEF SGetFd, SRead, TakeEvents, SBatchDone, SDeleted, Proceed, SubTypeOK
<1> QED
  BY <1>2, <1>3, <1>4, <1>5 DEF Subscriber

(* A subscriber's step changes nothing of the publishers and of the other     *)
(* subscribers.                                                               *)
LEMMA SubscriberAttach ==
  ASSUME AttachInv, NEW t \in Sub, Subscriber(t)
  PROVE  AttachStep
<1>1. SubTypeOK /\ BatchHandled /\ ExitingGone /\ NothingAttached
  BY DEF AttachInv, TopicInv
<1>2. UNCHANGED <<alive, boot, fds, pubVars, files, cleaning, cleanings>>
  BY <1>1, SubscriberEffect DEF procVars
<1>3. \A p \in Pub : /\ InfoName(p)' = InfoName(p) /\ Orphaned(p)' = Orphaned(p)
                     /\ Usable(p)' = Usable(p)
  BY <1>2 DEF pubVars, InfoName, Orphaned, Usable, BufferOf, EventOf
<1>4. \A s \in Sub \ {t} :
        /\ spc'[s] = spc[s] /\ attached'[s] = attached[s]
        /\ target'[s] = target[s] /\ pid_fd'[s] = pid_fd[s]
        /\ Pending(s)' = Pending(s) /\ Excused(s)' = Excused(s)
  <2> SUFFICES ASSUME NEW s \in Sub \ {t}
               PROVE  /\ spc'[s] = spc[s] /\ attached'[s] = attached[s]
                      /\ target'[s] = target[s] /\ pid_fd'[s] = pid_fd[s]
                      /\ Pending(s)' = Pending(s) /\ Excused(s)' = Excused(s)
    OBVIOUS
  <2>1. /\ spc'[s] = spc[s] /\ attached'[s] = attached[s]
        /\ target'[s] = target[s] /\ pid_fd'[s] = pid_fd[s]
        /\ batch'[s] = batch[s] /\ queue'[s] = queue[s]
        /\ s \in watching' <=> s \in watching
        /\ s \in missed' <=> s \in missed
    BY <1>1, SubscriberEffect
  <2>2. Pending(s)' = Pending(s)
    BY <2>1 DEF Pending
  <2> QED
    BY <2>1, <2>2 DEF Excused, PendingReset, Blind
<1>5. ExitingGone'
  BY <1>1, <1>2 DEF ExitingGone, pubVars
<1>6. NothingAttached'
  BY <1>1, <1>4, OwnRound DEF NothingAttached
<1>7. ASSUME NeverCleaned' PROVE Undisturbed'
  <2>1. NeverCleaned /\ Undisturbed
    BY <1>2, <1>7 DEF NeverCleaned, AttachInv
  <2>2. /\ EventsTrue /\ TargetThere /\ TargetLives /\ AttachmentSound /\ RegisteredThere
        /\ ~cleaning'
    BY <1>2, <2>1 DEF Undisturbed
  <2>3. RegisteredThere'
    BY <1>2, <1>3, <2>2 DEF RegisteredThere, pubVars
  <2>4. EventsTrue'
    <3>1. spc'[t] # "start" =>
            \A e \in Pending(t)' : e.mask = "CLOSE_WRITE" => e.name \in files \/ Excused(t)'
      BY <1>1, <2>2, OwnPending DEF EventsTrue, Excused
    <3> QED
      BY <1>2, <1>4, <2>2, <3>1 DEF EventsTrue
  <2>5. TargetThere'
    BY <1>1, <1>2, <1>4, <2>2, OwnTarget DEF TargetThere
  <2>6. AttachmentSound'
    <3> SUFFICES ASSUME NEW s \in Sub, Settled(s)', attached'[s] # NoBuffer, ~Excused(s)'
                 PROVE  \/ Designates(target[s], attached[s])'
                        \/ \E p \in Pub : Orphaned(p)' /\ InfoName(p)' = target'[s]
      BY DEF AttachmentSound, Excused
    <3>1. \/ Designates(target'[s], attached'[s])
          \/ \E p \in Pub : Orphaned(p) /\ InfoName(p) = target'[s]
      <4>1. CASE s = t
        BY <2>1, <4>1, OwnDisplay DEF Settled
      <4>2. CASE s # t
        <5>1. Settled(s) /\ attached[s] # NoBuffer /\ ~Excused(s) /\ ~(cleanings < Cleanings)
          BY <1>4, <2>1, <4>2, CleaningsAssumption DEF Settled, NeverCleaned, CleaningsAssumption
        <5> QED
          BY <1>4, <2>2, <4>2, <5>1 DEF AttachmentSound, Excused
      <4> QED
        BY <4>1, <4>2
    <3>2. CASE Designates(target'[s], attached'[s])
      BY <1>2, <1>3, <3>2 DEF Designates, BufferOf
    <3>3. CASE \E p \in Pub : Orphaned(p) /\ InfoName(p) = target'[s]
      BY <1>3, <3>3
    <3> QED
      BY <3>1, <3>2, <3>3
  <2>7. TargetLives'
    <3> SUFFICES ASSUME NEW s \in Sub, spc'[s] = "getfd", ~Excused(s)'
                 PROVE  \/ \E p \in Pub : Orphaned(p)' /\ InfoName(p)' = target'[s]
                        \/ target'[s][1] \in alive' /\ pid_fd'[s] = boot'[target'[s][1]]
      BY DEF TargetLives
    <3>1. CASE s = t
      BY <1>1, <1>2, <3>1, OwnPidfd
    <3>2. CASE s # t
      BY <1>2, <1>3, <1>4, <2>2, <3>2 DEF TargetLives
    <3> QED
      BY <3>1, <3>2
  <2> QED
    BY <2>2, <2>3, <2>4, <2>5, <2>6, <2>7 DEF Undisturbed
<1> QED
  BY <1>5, <1>6, <1>7 DEF AttachStep

(* While nobody runs rm -rf, names, files, events and attachments agree.      *)
THEOREM AttachInvariant == TopicSpec => []AttachInv
<1>1. SubInit /\ TopicInv => AttachInv
  <2> SUFFICES ASSUME SubInit PROVE ExitingGone /\ NothingAttached /\ Undisturbed
    BY DEF AttachInv
  <2>1. ExitingGone /\ NothingAttached /\ ~cleaning /\ RegisteredThere /\ TargetThere /\ TargetLives
    BY DEF SubInit, Init, DirInit, ExitingGone, NothingAttached, RegisteredThere, TargetThere, TargetLives
  <2>2. EventsTrue /\ AttachmentSound
    BY DEF SubInit, EventsTrue, AttachmentSound, Settled
  <2> QED
    BY <2>1, <2>2 DEF Undisturbed
<1>2. AttachInv /\ TopicInv' /\ [TopicNext]_allVars => AttachInv'
  <2> SUFFICES ASSUME AttachInv, TopicInv', [TopicNext]_allVars PROVE AttachStep
    BY DEF AttachInv, AttachStep
  <2>1. OwnershipInv'
    BY DEF TopicInv
  <2>2. ASSUME NEW p \in Pub, Publisher(p), UNCHANGED subVars PROVE AttachStep
    <3>1. CASE AllocationRaises(p)
      BY <2>1, <2>2, <3>1, ExitAttach, HostAssumption DEF AllocationRaises, HostAssumption
    <3>2. CASE RemoveInfoFile(p)
      BY <2>1, <2>2, <3>2, RemoveAttach
    <3>3. CASE CloseInfoFile(p) \/ KernelClosesFile(p)
      BY <2>1, <2>2, <3>3, CloseFileAttach
    <3> QED
      BY <2>1, <2>2, <3>1, <3>2, <3>3, BuildAttach DEF Publisher, Construct, Destruct
  <2>3. ASSUME NEW h \in Proc, Process(h), UNCHANGED subVars PROVE AttachStep
    <3>1. CASE Boot(h)
      BY <2>1, <2>3, <3>1, IdleAttach DEF Boot
    <3> QED
      BY <2>1, <2>3, <3>1, ExitAttach DEF Process, ProcessExits
  <2>4. CASE Cleaner /\ UNCHANGED <<procVars, pubVars, subVars>>
    BY <2>4, CleanerAttach
  <2>5. CASE \E s \in Sub : Subscriber(s)
    BY <2>5, SubscriberAttach
  <2>6. CASE UNCHANGED allVars
    BY <2>1, <2>6, IdleAttach DEF allVars, vars, procVars
  <2> QED
    BY <2>2, <2>3, <2>4, <2>5, <2>6 DEF TopicNext, Next, Environment
<1> QED
  BY <1>1, <1>2, TopicInvariant, PTL DEF TopicSpec

(* A subscriber shows the buffer its file designates, or is about to start    *)
(* over, with the exceptions AttachmentSound names.                           *)
THEOREM AttachmentTheorem == TopicSpec => []AttachmentSound
<1>1. AttachInv => AttachmentSound
  <2> SUFFICES ASSUME AttachInv PROVE AttachmentSound
    OBVIOUS
  <2>1. CASE NeverCleaned
    BY <2>1 DEF AttachInv, Undisturbed
  <2>2. CASE ~NeverCleaned
    <3>1. cleanings < Cleanings
      BY <2>2, CleaningsAssumption
      DEF AttachInv, TopicInv, OwnershipInv, TypeOK, DirTypeOK, NeverCleaned, CleaningsAssumption
    <3> QED
      BY <3>1 DEF AttachmentSound
  <2> QED
    BY <2>1, <2>2
<1> QED
  BY <1>1, AttachInvariant, PTL

(* Whoever ends while it connects was warned, refused or misled: otherwise    *)
(* its target is the file of a publisher that lives, and whose pidfd it has.  *)
LEMMA ConnectDeath ==
  ASSUME AttachInv, NEW t \in Sub, Subscriber(t), spc[t] \in {"connect", "getfd"}, spc'[t] = "dead"
  PROVE  \/ Excused(t) \/ Refused(t) \/ ~NeverCleaned
         \/ \E p \in Pub : Orphaned(p) /\ InfoName(p) = target[t]
<1> SUFFICES ASSUME ~Excused(t), ~Refused(t), NeverCleaned,
                    ~\E p \in Pub : Orphaned(p) /\ InfoName(p) = target[t]
             PROVE  FALSE
  OBVIOUS
<1>1. SubTypeOK /\ OwnershipInv /\ TargetThere /\ TargetLives
  BY DEF AttachInv, TopicInv, Undisturbed
<1>2. SPidfdOpen(t) \/ SGetFd(t)
  BY DEF Subscriber, SStart, SStat, SAddWatch, SScan, SScanFails, SDisplayFails, SRead,
         SBatchDone, SDeleted, SCreated, SIgnored, Handling
<1>3. target[t] \in files
  BY <1>1 DEF TargetThere
<1>4. PICK r \in Pub : InfoName(r) = target[t] /\ Registrant(r)
  BY <1>1, <1>3 DEF OwnershipInv, FilesRegistered
<1>5. pc[r] \in {"close_file", "running"}
  BY <1>4 DEF Registrant, Orphaned
<1>6. Usable(r)
  BY <1>1, <1>5, ActiveUsable
<1>7. target[t][1] = Host[r] /\ target[t][2] = buffer_fd[r][QueueSize]
  BY <1>4 DEF InfoName
<1>8. /\ Host[r] \in alive
      /\ fds[target[t][1]][target[t][2]] = BufferOf(r, QueueSize)
  BY <1>6, <1>7 DEF Usable
<1>9. BufferOf(r, QueueSize) \in Object /\ BufferOf(r, QueueSize)[1] = "buffer"
  BY SizeAssumption DEF BufferOf, Object, Slot
<1>10. CASE SPidfdOpen(t)
  BY <1>1, <1>7, <1>8, <1>10 DEF SPidfdOpen, Proceed, SubTypeOK
<1>11. CASE SGetFd(t)
  <2>1. spc[t] = "getfd"
    BY <1>11 DEF SGetFd
  <2>2. pid_fd[t] = boot[target[t][1]]
    BY <1>1, <2>1 DEF TargetLives
  <2>3. Borrowed(t) # NoBuffer
    BY <1>7, <1>8, <1>9, <2>2 DEF Borrowed
  <2> HIDE DEF Borrowed
  <2> QED
    BY <1>1, <1>11, <2>3 DEF SGetFd, Proceed, SubTypeOK
<1> QED
  BY <1>2, <1>10, <1>11

(* A publisher that leaves kills no subscriber it did not warn before: from   *)
(* the scan or the event to pidfd_getfd the name a subscriber read is that of *)
(* its publisher, or the DELETE is there to be read (publisher_base.cpp:29-46,*)
(* dma_buffer.cpp:94-110).                                                    *)
THEOREM ConnectTheorem == TopicSpec => ConnectFailsOnlyIfWarned
<1>1. AttachInv /\ [TopicNext]_allVars =>
        [\A s \in Sub :
           spc[s] \in {"connect", "getfd"} /\ spc'[s] = "dead"
             => \/ PendingReset(s) \/ Blind(s) \/ Refused(s)
                \/ \E p \in Pub : Orphaned(p) /\ InfoName(p) = target[s]
                \/ cleanings < Cleanings]_allVars
  <2> SUFFICES ASSUME AttachInv, TopicNext, NEW s \in Sub,
                      spc[s] \in {"connect", "getfd"}, spc'[s] = "dead"
               PROVE  \/ PendingReset(s) \/ Blind(s) \/ Refused(s)
                      \/ \E p \in Pub : Orphaned(p) /\ InfoName(p) = target[s]
                      \/ cleanings < Cleanings
    OBVIOUS
  <2>1. SubTypeOK
    BY DEF AttachInv, TopicInv
  <2>2. Subscriber(s)
    BY <2>1, SubscriberEffect DEF TopicNext, subVars
  <2>3. \/ Excused(s) \/ Refused(s) \/ ~NeverCleaned
        \/ \E p \in Pub : Orphaned(p) /\ InfoName(p) = target[s]
    BY <2>2, ConnectDeath
  <2>4. ~NeverCleaned => cleanings < Cleanings
    BY <2>1, CleaningsAssumption DEF SubTypeOK, TypeOK, DirTypeOK, NeverCleaned, CleaningsAssumption
  <2> QED
    BY <2>3, <2>4 DEF Excused
<1> QED
  BY <1>1, AttachInvariant, PTL DEF TopicSpec, ConnectFailsOnlyIfWarned
-----------------------------------------------------------------------------
(* Publishers and subscribers implement Discovery. *)

(* The publishers do not touch the watches, and only make the directory.      *)
LEMMA WatchesKept ==
  ASSUME TypeOK, (\E p \in Pub : Publisher(p)) \/ \E h \in Proc : Process(h)
  PROVE  watching' = watching /\ (dir => dir')
<1>1. ASSUME UNCHANGED dirVars PROVE watching' = watching /\ (dir => dir')
  BY <1>1 DEF dirVars
<1>2. ASSUME NEW h, Exit(h) \/ Boot(h) PROVE UNCHANGED dirVars
  BY <1>2 DEF Exit, Boot
<1>3. ASSUME NEW p \in Pub, Construct(p) PROVE watching' = watching /\ (dir => dir')
  <2>1. CASE AllocationRaises(p)
    BY <1>1, <1>2, <2>1 DEF AllocationRaises
  <2>2. CASE InitTopicPath(p)
    BY <2>2 DEF InitTopicPath, MakeDirectories
  <2>3. CASE OpenInfoFile(p)
    BY <1>1, <2>3 DEF OpenInfoFile, CreateFile
  <2>4. CASE CloseInfoFile(p)
    BY <1>1, <2>4 DEF CloseInfoFile, CloseFile
  <2>5. CASE OpenHeap(p) \/ Allocate(p) \/ UpdateBufferInfo(p) \/ CreateEvent(p) \/ FillInfo(p)
    BY <1>1, <2>5 DEF OpenHeap, Allocate, UpdateBufferInfo, CreateEvent, FillInfo
  <2> QED
    BY <1>3, <2>1, <2>2, <2>3, <2>4, <2>5 DEF Construct
<1>4. ASSUME NEW p \in Pub, Destruct(p) \/ KernelClosesFile(p) PROVE watching' = watching /\ (dir => dir')
  <2>1. CASE RemoveInfoFile(p) \/ KernelClosesFile(p)
    BY <2>1 DEF RemoveInfoFile, Unlink, KernelClosesFile, CloseFile
  <2>2. CASE ResetInfoBuffer(p) \/ ResetDmaBuffer(p) \/ ResetEvent(p)
    BY <1>1, <2>2 DEF ResetInfoBuffer, ResetDmaBuffer, ResetEvent
  <2> QED
    BY <1>4, <2>1, <2>2 DEF Destruct
<1> QED
  BY <1>1, <1>2, <1>3, <1>4 DEF Publisher, Process, ProcessExits

(* A subscriber begins to watch a directory that is there.                    *)
LEMMA OwnWatch ==
  ASSUME NEW t \in Sub, Subscriber(t), ~dir, t \notin watching
  PROVE  t \notin watching'
<1>1. Dies(t) => t \notin watching'
  BY DEF Dies, CloseWatch
<1> HIDE DEF Borrowed
<1>2. CASE SStart(t) \/ SAddWatch(t)
  BY <1>2 DEF SStart, CloseWatch, SAddWatch, AddWatch
<1>3. CASE SScanFails(t) \/ SDisplayFails(t) \/ SPidfdOpen(t) \/ SGetFd(t)
  BY <1>1, <1>3 DEF SScanFails, SDisplayFails, SPidfdOpen, SGetFd, vars, dirVars
<1>4. CASE SStat(t) \/ SScan(t) \/ SRead(t) \/ SBatchDone(t) \/ SDeleted(t) \/ SCreated(t) \/ SIgnored(t)
  BY <1>4 DEF SStat, SScan, SRead, TakeEvents, SBatchDone, SDeleted, SCreated, SIgnored, vars, dirVars
<1> QED
  BY <1>2, <1>3, <1>4 DEF Subscriber

(* Whoever finds no directory watches none.                                   *)
LEMMA NoWatch == TopicSpec => []NoWatchWithoutDir
<1>1. SubInit => NoWatchWithoutDir
  BY DEF SubInit, Init, DirInit, NoWatchWithoutDir
<1>2. NoWatchWithoutDir /\ SubTypeOK /\ [TopicNext]_allVars => NoWatchWithoutDir'
  <2> SUFFICES ASSUME NoWatchWithoutDir, SubTypeOK, [TopicNext]_allVars, ~dir' PROVE watching' = {}
    BY DEF NoWatchWithoutDir
  <2>1. CASE UNCHANGED allVars
    BY <2>1 DEF allVars, vars, dirVars, NoWatchWithoutDir
  <2>2. CASE (\E p \in Pub : Publisher(p)) \/ \E h \in Proc : Process(h)
    BY <2>2, WatchesKept DEF SubTypeOK, NoWatchWithoutDir
  <2>3. CASE Cleaner
    BY <2>3 DEF Cleaner, CleanerStarts, CleanerUnlinks, CleanerRemovesDirectory, NoWatchWithoutDir
  <2>4. ASSUME NEW s \in Sub, Subscriber(s) PROVE watching' = {}
    <3>1. dir' = dir /\ \A q \in Sub \ {s} : q \in watching' <=> q \in watching
      BY <2>4, SubscriberEffect
    <3>2. watching = {}
      BY <3>1 DEF NoWatchWithoutDir
    <3>3. s \notin watching'
      BY <2>4, <3>1, <3>2, OwnWatch
    <3>4. watching' \subseteq Sub
      BY <2>4, SubscriberType DEF SubTypeOK, TypeOK, DirTypeOK
    <3> QED
      BY <3>1, <3>2, <3>3, <3>4
  <2> QED
    BY <2>1, <2>2, <2>3, <2>4 DEF TopicNext, Next, Environment
<1> QED
  BY <1>1, <1>2, OwnedTyped, PTL DEF TopicSpec

\* The publishers that can be found are those between creating and removing
\* the file, as far as it is there,
ListedActive ==
  Listed = {p \in Pub : InfoName(p) \in files /\ pc[p] \in {"close_file", "running"}}

\* and they have different names.
NamesDiffer ==
  \A p, q \in Pub :
    /\ pc[p] \in {"close_file", "running"} /\ pc[q] \in {"close_file", "running"}
    /\ InfoName(p) = InfoName(q)
    => p = q

(* Both follow from what the publishers own.                                  *)
LEMMA Found == OwnershipInv => ListedActive /\ NamesDiffer
<1>1. OwnershipInv => ListedActive
  BY ActiveUsable DEF ListedActive, Listed, Usable
<1>2. OwnershipInv => NamesDiffer
  BY OneName DEF NamesDiffer
<1> QED
  BY <1>1, <1>2

(* A step of one publisher is one of its life.                                *)
LEMMA OwnLife ==
  ASSUME NEW p \in Pub, Others(p)
  PROVE  Lives' = [Lives EXCEPT ![p] = Life(p)']
<1>1. \A q \in Pub \ {p} : Life(q)' = Life(q)
  BY DEF Others, Life
<1> HIDE DEF Life
<1> QED
  BY <1>1 DEF Lives

(* Whoever is told something, or nothing, still knows of the warnings he had. *)
LEMMA StillWarned ==
  ASSUME \A s \in Sub : Told(s)
  PROVE  Warned \subseteq Warned' /\ Showing' = Showing
<1>1. \A s \in Sub : Excused(s) => Excused(s)'
  BY DEF Told, Excused, PendingReset
<1> QED
  BY <1>1 DEF Told, Warned, Showing, Shown

(* What others do refuses nobody anything.                                    *)
LEMMA StillRefused ==
  ASSUME UNCHANGED subVars
  PROVE  RefusedNow' = RefusedNow
  BY DEF subVars, RefusedNow, Refused

(* Without an event nobody is warned.                                         *)
LEMMA NotWarned ==
  ASSUME UNCHANGED <<queue, missed, watching, subVars>>
  PROVE  Warned' = Warned /\ Showing' = Showing /\ RefusedNow' = RefusedNow
<1>1. \A s \in Sub : Excused(s)' = Excused(s)
  BY DEF Excused, PendingReset, Pending, Blind, subVars
<1> QED
  BY <1>1, StillRefused DEF Warned, Showing, Shown, subVars

(* Building and closing descriptors: only the end of the destructor shows.    *)
LEMMA BuildDiscovers ==
  ASSUME AttachInv, OwnershipInv', UNCHANGED subVars, NEW p \in Pub,
         \/ InitTopicPath(p) \/ OpenHeap(p) \/ Allocate(p) \/ UpdateBufferInfo(p)
         \/ CreateEvent(p) \/ FillInfo(p)
         \/ ResetInfoBuffer(p) \/ ResetDmaBuffer(p) \/ ResetEvent(p)
  PROVE  [D!Next]_D!discovery
<1>1. OwnershipInv /\ TypeOK
  BY DEF AttachInv, TopicInv, OwnershipInv
<1>2. /\ Others(p) /\ {pc[p], pc'[p]} \cap {"close_file", "running", "exiting", "killed"} = {}
      /\ UNCHANGED <<files, watching, queue, missed, detached, cleaning, cleanings, alive>>
  BY <1>1, SilentStep
<1>3. Listed' = Listed
  <2>1. ListedActive /\ ListedActive'
    BY <1>1, Found, PTL
  <2> QED
    BY <1>1, <1>2, <2>1 DEF ListedActive, Others, InfoName
<1>4. Warned' = Warned /\ Showing' = Showing /\ RefusedNow' = RefusedNow /\ NeverCleaned' = NeverCleaned
  BY <1>2, NotWarned DEF NeverCleaned
<1>5. Lives' = [Lives EXCEPT ![p] = Life(p)']
  BY <1>2, OwnLife
<1>6. CASE ResetEvent(p)
  <2>1. pc[p] = "reset_event" /\ pc'[p] = "destroyed"
    BY <1>1, <1>6 DEF ResetEvent, At, GoTo, TypeOK
  <2>2. Lives[p] = "leaving" /\ Life(p)' = "gone"
    BY <2>1 DEF Lives, Life
  <2>3. D!Gone(p)
    BY <1>3, <1>4, <1>5, <2>2 DEF D!Gone
  <2> QED
    BY <2>3 DEF D!Next
<1>7. CASE ~ResetEvent(p)
  <2>1. \/ /\ pc[p] \in {"idle", "open_heap", "allocate", "update_buffer_info", "create_event", "fill_info"}
           /\ pc'[p] \in {"open_heap", "allocate", "update_buffer_info", "create_event",
                          "fill_info", "open_file"}
        \/ /\ pc[p] \in {"reset_info", "reset_buffers"}
           /\ pc'[p] \in {"reset_buffers", "reset_event"}
    BY <1>1, <1>7 DEF InitTopicPath, OpenHeap, Allocate, UpdateBufferInfo, CreateEvent, FillInfo,
                      ResetInfoBuffer, ResetDmaBuffer, At, GoTo, TypeOK
  <2>2. Life(p)' = Life(p)
    BY <2>1 DEF Life
  <2>3. Lives' = Lives
    BY <1>5, <2>2 DEF Lives
  <2> QED
    BY <1>3, <1>4, <2>3 DEF D!discovery
<1> QED
  BY <1>6, <1>7

(* The end of the constructor lists a publisher if its file could be created. *)
LEMMA OpenInfoFileDiscovers ==
  ASSUME AttachInv, OwnershipInv', UNCHANGED subVars, NEW p \in Pub, OpenInfoFile(p)
  PROVE  [D!Next]_D!discovery
<1>1. OwnershipInv /\ TypeOK
  BY DEF AttachInv, TopicInv, OwnershipInv
<1>2. /\ Others(p) /\ UNCHANGED <<watching, queue, missed, cleanings, buffer_fd>>
      /\ pc[p] = "open_file" /\ pc'[p] = "close_file"
      /\ files' = files \/ files' = files \union {InfoName(p)}
  BY <1>1 DEF OpenInfoFile, CreateFile, dirVars, At, GoTo, Others, TypeOK
<1>3. \A q \in Pub : InfoName(q)' = InfoName(q)
  BY <1>2 DEF InfoName
<1>4. \A q \in Pub \ {p} : pc[q] \in {"close_file", "running"} => InfoName(q) # InfoName(p)
  <2>1. NamesDiffer'
    BY <1>1, Found, PTL
  <2> QED
    BY <1>2, <1>3, <2>1 DEF NamesDiffer, Others
<1>5. Listed' \in {Listed, Listed \union {p}}
  <2>1. ListedActive /\ ListedActive'
    BY <1>1, Found, PTL
  <2>2. \A q \in Pub \ {p} : q \in Listed' <=> q \in Listed
    BY <1>1, <1>2, <1>3, <1>4, <2>1 DEF ListedActive, Others
  <2>3. Listed' \subseteq Pub /\ Listed \subseteq Pub /\ p \notin Listed
    BY <1>1, <1>2, <2>1 DEF ListedActive
  <2> QED
    BY <2>2, <2>3
<1>6. Warned' = Warned /\ Showing' = Showing /\ RefusedNow' = RefusedNow /\ NeverCleaned' = NeverCleaned
  BY <1>2, NotWarned DEF NeverCleaned
<1>7. Lives' = [Lives EXCEPT ![p] = "ready"] /\ Lives[p] = "new"
  <2>1. Life(p) = "new" /\ Life(p)' = "ready"
    BY <1>2 DEF Life
  <2> QED
    BY <1>2, <2>1, OwnLife DEF Lives
<1>8. D!Ready(p)
  BY <1>5, <1>6, <1>7 DEF D!Ready
<1> QED
  BY <1>8 DEF D!Next

(* Closing the file tells the watchers what can be found, as far as their     *)
(* queues take it.                                                            *)
LEMMA CloseFileDiscovers ==
  ASSUME AttachInv, OwnershipInv', UNCHANGED subVars, NEW p \in Pub,
         CloseInfoFile(p) \/ KernelClosesFile(p)
  PROVE  [D!Next]_D!discovery
<1>1. TypeOK /\ SubTypeOK /\ OwnershipInv /\ ExitingGone
  BY DEF AttachInv, TopicInv, OwnershipInv
<1>2. /\ Others(p) /\ UNCHANGED <<buffer_fd, file_fd>>
      /\ \/ pc[p] = "close_file" /\ pc'[p] = "running"
         \/ pc[p] = "exiting" /\ pc'[p] = "killed" /\ file_fd[p] # -1
  BY <1>1 DEF CloseInfoFile, KernelClosesFile, At, GoTo, Others, TypeOK, ExitingGone
<1>3. \/ file_fd[p] # -1 /\ CloseFile(InfoName(p))
      \/ UNCHANGED dirVars
  BY <1>1, <1>2 DEF CloseInfoFile, KernelClosesFile, dirVars
<1>4. UNCHANGED <<files, watching, cleanings>>
  BY <1>3 DEF CloseFile, dirVars
<1>5. \A q \in Pub : InfoName(q)' = InfoName(q)
  BY <1>2 DEF InfoName
<1>6. Listed' = Listed
  <2>1. ListedActive /\ ListedActive'
    BY <1>1, Found, PTL
  <2> QED
    BY <1>1, <1>2, <1>4, <1>5, <2>1 DEF ListedActive, Others
<1>7. Lives' = Lives
  <2>1. Life(p)' = Life(p)
    BY <1>2 DEF Life
  <2> QED
    BY <1>2, <2>1, OwnLife DEF Lives
<1>8. \A s \in Sub : Told(s)
  <2>1. CASE UNCHANGED <<queue, missed>>
    BY <1>4, <2>1, QuietTold
  <2>2. CASE Emit(CloseWrite(InfoName(p))) /\ pc[p] \in {"close_file", "exiting"}
    <3>1. QueueSize \in Slot
      BY SizeAssumption DEF Slot, SizeAssumption
    <3>2. buffer_fd[p][QueueSize] \in Fd
      BY <1>1, <2>2, <3>1 DEF OwnershipInv, Ordered, TypeOK, FdOrNone
    <3>3. InfoName(p) \in Name
      BY <3>2, HostAssumption, NameAssumption DEF InfoName, Fd, HostAssumption, NameAssumption
    <3>4. CloseWrite(InfoName(p)) \in Event
      BY <3>3 DEF CloseWrite, Event
    <3> QED
      BY <1>1, <1>4, <2>2, <3>4, EmitTold
  <2> QED
    BY <1>2, <1>3, <2>1, <2>2 DEF CloseFile, dirVars
<1>9. Warned \subseteq Warned' /\ Showing' = Showing /\ RefusedNow' = RefusedNow /\ NeverCleaned' = NeverCleaned
  BY <1>4, <1>8, StillWarned, StillRefused DEF NeverCleaned
<1>10. Warned' \in SUBSET Sub
  BY DEF Warned
<1>11. D!Miss(Warned')
  BY <1>6, <1>7, <1>9 DEF D!Miss
<1> QED
  BY <1>10, <1>11 DEF D!Next

(* Removing the file withdraws one publisher and warns everybody.             *)
LEMMA RemoveDiscovers ==
  ASSUME AttachInv, OwnershipInv', UNCHANGED subVars, NEW p \in Pub, RemoveInfoFile(p)
  PROVE  [D!Next]_D!discovery
<1>1. TypeOK /\ SubTypeOK /\ OwnershipInv
  BY DEF AttachInv, TopicInv, OwnershipInv
<1>2. /\ Others(p) /\ UNCHANGED <<buffer_fd, file_fd>>
      /\ pc[p] = "running" /\ pc'[p] = "reset_info"
  BY <1>1 DEF RemoveInfoFile, At, GoTo, Others, TypeOK
<1>3. /\ files' = files \ {InfoName(p)} /\ UNCHANGED <<watching, cleanings>>
      /\ IF InfoName(p) \in files THEN Emit(Delete(InfoName(p))) ELSE UNCHANGED <<queue, missed>>
  BY DEF RemoveInfoFile, Unlink
<1>4. \A q \in Pub : InfoName(q)' = InfoName(q)
  BY <1>2 DEF InfoName
<1>5. \A q \in Pub \ {p} : pc[q] \in {"close_file", "running"} => InfoName(q) # InfoName(p)
  BY <1>1, <1>2, OneName
<1>6. Listed' = Listed \ {p}
  <2>1. ListedActive /\ ListedActive'
    BY <1>1, Found, PTL
  <2> QED
    BY <1>1, <1>2, <1>3, <1>4, <1>5, <2>1 DEF ListedActive, Others
<1>7. p \in Listed <=> InfoName(p) \in files
  BY <1>1, <1>2, Found DEF ListedActive
<1>8. Lives' = [Lives EXCEPT ![p] = "leaving"] /\ Lives[p] = "ready"
  <2>1. Life(p) = "ready" /\ Life(p)' = "leaving"
    BY <1>2 DEF Life
  <2> QED
    BY <1>2, <2>1, OwnLife DEF Lives
<1>9. Showing' = Showing /\ Warned' = IF p \in Listed THEN Sub ELSE Warned
  <2>1. CASE InfoName(p) \in files
    <3>1. Delete(InfoName(p)) \in Event /\ Delete(InfoName(p)).mask = "DELETE"
      BY <1>1, <2>1 DEF Delete, Event, TypeOK, DirTypeOK
    <3>2. \A s \in Sub : Told(s) /\ (~Blind(s)' => Delete(InfoName(p)) \in Pending(s)')
      BY <1>1, <1>3, <2>1, <3>1, EmitTold
    <3>3. \A s \in Sub : Excused(s)'
      BY <3>1, <3>2 DEF Excused, PendingReset
    <3> QED
      BY <1>7, <2>1, <3>2, <3>3, StillWarned DEF Warned
  <2>2. CASE InfoName(p) \notin files
    BY <1>3, <1>7, <2>2, NotWarned
  <2> QED
    BY <2>1, <2>2
<1>10. D!Leave(p)
  BY <1>3, <1>6, <1>8, <1>9, StillRefused DEF D!Leave, NeverCleaned
<1> QED
  BY <1>10 DEF D!Next

(* Whoever is killed is found no more, and nobody is told.                    *)
LEMMA ExitDiscovers ==
  ASSUME AttachInv, OwnershipInv', UNCHANGED subVars, NEW h \in Proc, Exit(h)
  PROVE  [D!Next]_D!discovery
<1> DEFINE killed == {q \in Pub : Host[q] = h /\ pc[q] \notin {"idle", "destroyed", "exiting", "killed"}}
<1>1. TypeOK /\ OwnershipInv
  BY DEF AttachInv, TopicInv, OwnershipInv
<1>2. UNCHANGED <<files, watching, queue, missed, cleanings, buffer_fd>>
  BY DEF Exit, dirVars
<1>3. \A q \in Pub : /\ InfoName(q)' = InfoName(q)
                     /\ q \notin killed => pc'[q] = pc[q]
                     /\ q \in killed => pc'[q] \in {"exiting", "killed"}
  BY <1>2 DEF Exit, InfoName
<1>4. Listed' = Listed \ killed
  <2>1. ListedActive /\ ListedActive'
    BY <1>1, Found, PTL
  <2> HIDE DEF killed
  <2> QED
    BY <1>1, <1>2, <1>3, <2>1 DEF ListedActive
<1>5. \A q \in killed : Host[q] = h /\ Lives[q] \in {"new", "ready", "leaving"}
  BY DEF Lives, Life
<1> HIDE DEF killed
<1>6. Lives' = [q \in Pub |-> IF q \in killed THEN "killed" ELSE Lives[q]]
  <2>1. \A q \in Pub : Life(q)' = IF q \in killed THEN "killed" ELSE Life(q)
    BY <1>3 DEF Life
  <2> HIDE DEF Life
  <2> QED
    BY <2>1 DEF Lives
<1>7. Warned' = Warned /\ Showing' = Showing /\ RefusedNow' = RefusedNow /\ NeverCleaned' = NeverCleaned
  BY <1>2, NotWarned DEF NeverCleaned
<1>8. D!Kill(killed)
  BY <1>4, <1>5, <1>6, <1>7 DEF D!Kill
<1>9. killed \in SUBSET Pub
  BY DEF killed
<1> QED
  BY <1>8, <1>9 DEF D!Next

(* A step of the publishers, or the end or the beginning of a process.        *)
LEMMA PublisherDiscovers ==
  ASSUME AttachInv, OwnershipInv', UNCHANGED subVars,
         (\E p \in Pub : Publisher(p)) \/ \E h \in Proc : Process(h)
  PROVE  [D!Next]_D!discovery
<1>1. ASSUME NEW p \in Pub, Publisher(p) PROVE [D!Next]_D!discovery
  <2>1. CASE AllocationRaises(p)
    BY <2>1, ExitDiscovers, HostAssumption DEF AllocationRaises, HostAssumption
  <2>2. CASE OpenInfoFile(p)
    BY <2>2, OpenInfoFileDiscovers
  <2>3. CASE CloseInfoFile(p) \/ KernelClosesFile(p)
    BY <2>3, CloseFileDiscovers
  <2>4. CASE RemoveInfoFile(p)
    BY <2>4, RemoveDiscovers
  <2> QED
    BY <1>1, <2>1, <2>2, <2>3, <2>4, BuildDiscovers DEF Publisher, Construct, Destruct
<1>2. ASSUME NEW h \in Proc, Exit(h) PROVE [D!Next]_D!discovery
  BY <1>2, ExitDiscovers
<1>3. ASSUME NEW h \in Proc, Boot(h) PROVE [D!Next]_D!discovery
  <2>1. UNCHANGED <<pc, buffer_fd, files, queue, missed, watching, cleanings>>
    BY <1>3 DEF Boot, dirVars, pubVars
  <2>2. ListedActive /\ ListedActive'
    BY Found, PTL DEF AttachInv, TopicInv
  <2>3. Listed' = Listed /\ Lives' = Lives
    BY <2>1, <2>2 DEF ListedActive, InfoName, Lives, Life
  <2>4. Warned' = Warned /\ Showing' = Showing /\ RefusedNow' = RefusedNow /\ NeverCleaned' = NeverCleaned
    BY <2>1, NotWarned DEF NeverCleaned
  <2> QED
    BY <2>3, <2>4 DEF D!discovery
<1> QED
  BY <1>1, <1>2, <1>3 DEF Process, ProcessExits

(* rm -rf takes publishers off the list, and everybody is warned of it.       *)
LEMMA CleanerDiscovers ==
  ASSUME AttachInv, OwnershipInv', UNCHANGED <<procVars, pubVars, subVars>>, Cleaner
  PROVE  [D!Next]_D!discovery
<1>1. TypeOK /\ SubTypeOK /\ OwnershipInv /\ cleanings \in 0 .. Cleanings /\ files \subseteq Name
  BY DEF AttachInv, TopicInv, OwnershipInv, TypeOK, DirTypeOK
<1>2. Lives' = Lives /\ \A q \in Pub : InfoName(q)' = InfoName(q) /\ pc'[q] = pc[q]
  BY DEF pubVars, Lives, Life, InfoName
<1>3. ListedActive /\ ListedActive'
  BY <1>1, Found, PTL
<1>4. ASSUME UNCHANGED <<files, queue, missed, watching>>
      PROVE  Listed' = Listed /\ Warned' = Warned /\ Showing' = Showing /\ RefusedNow' = RefusedNow
  <2>1. Listed' = Listed
    BY <1>2, <1>3, <1>4 DEF ListedActive
  <2> QED
    BY <1>4, <2>1, NotWarned
<1>5. CASE CleanerStarts
  <2>1. ~NeverCleaned'
    BY <1>1, <1>5, CleaningsAssumption DEF CleanerStarts, NeverCleaned, CleaningsAssumption
  <2>2. D!Sweep
    BY <1>2, <1>4, <1>5, <2>1 DEF D!Sweep, CleanerStarts
  <2> QED
    BY <2>2 DEF D!Next
<1>6. ASSUME cleaning PROVE ~NeverCleaned
  BY <1>6 DEF AttachInv, Undisturbed
<1>7. ASSUME cleaning, cleanings' = cleanings, files' \subseteq files, \A s \in Sub : Excused(s)',
             UNCHANGED subVars
      PROVE  [D!Next]_D!discovery
  <2> DEFINE removed == {q \in Pub : InfoName(q) \notin files'}
  <2>1. ~NeverCleaned /\ ~NeverCleaned'
    BY <1>6, <1>7 DEF NeverCleaned
  <2>2. Listed' = Listed \ removed
    BY <1>2, <1>3, <1>7 DEF ListedActive
  <2>3. Warned' = Sub
    BY <1>7 DEF Warned
  <2>4. Showing' = Showing /\ RefusedNow' = RefusedNow
    BY <1>7, StillRefused DEF Showing, Shown, subVars
  <2>5. removed \in SUBSET Pub
    OBVIOUS
  <2> HIDE DEF removed
  <2>6. D!Unlist(removed)
    BY <1>2, <2>1, <2>2, <2>3, <2>4 DEF D!Unlist
  <2> QED
    BY <2>5, <2>6 DEF D!Next
<1>8. CASE CleanerUnlinks
  <2>1. PICK n \in doomed :
          /\ cleaning /\ files' = files \ {n} /\ UNCHANGED <<watching, cleaning, cleanings>>
          /\ IF n \in files THEN Emit(Delete(n)) ELSE UNCHANGED <<queue, missed>>
    BY <1>8 DEF CleanerUnlinks
  <2>2. CASE n \in files
    <3>1. Delete(n) \in Event /\ Delete(n).mask = "DELETE" /\ Emit(Delete(n))
      BY <1>1, <2>1, <2>2 DEF Delete, Event
    <3>2. \A s \in Sub : ~Blind(s)' => Delete(n) \in Pending(s)'
      BY <1>1, <2>1, <3>1, EmitTold
    <3>3. \A s \in Sub : Excused(s)'
      BY <3>1, <3>2 DEF Excused, PendingReset
    <3> QED
      BY <1>7, <2>1, <3>3
  <2>3. CASE n \notin files
    <3>1. UNCHANGED <<files, queue, missed, watching, cleanings>>
      BY <2>1, <2>3
    <3> QED
      BY <1>2, <1>4, <3>1 DEF D!discovery, NeverCleaned
  <2> QED
    BY <2>2, <2>3
<1>9. CASE CleanerRemovesDirectory
  <2>1. CASE files = {}
    <3>1. watching' = {} /\ cleaning /\ UNCHANGED <<files, cleanings>>
      BY <1>9, <2>1 DEF CleanerRemovesDirectory
    <3>2. \A s \in Sub : Excused(s)'
      BY <3>1 DEF Excused, Blind
    <3> QED
      BY <1>7, <3>1, <3>2
  <2>2. CASE files # {}
    <3>1. UNCHANGED <<files, queue, missed, watching, cleanings>>
      BY <1>9, <2>2 DEF CleanerRemovesDirectory
    <3> QED
      BY <1>2, <1>4, <3>1 DEF D!discovery, NeverCleaned
  <2> QED
    BY <2>1, <2>2
<1> QED
  BY <1>5, <1>8, <1>9 DEF Cleaner

(* A borrowed descriptor is an open one of the process its target names, and  *)
(* that process is its publisher's.                                           *)
LEMMA BorrowedFrom ==
  ASSUME SubTypeOK, OnlyZeroLeaks, NEW t \in Sub, Borrowed(t) # NoBuffer
  PROVE  \E p \in Pub, i \in Slot :
           Borrowed(t) = BufferOf(p, i) /\ (target[t] \in Name => Host[p] = target[t][1])
<1> DEFINE object == fds[target[t][1]][target[t][2]]
<1>1. Borrowed(t) = object /\ object \in Object /\ object[1] = "buffer"
  BY DEF Borrowed
<1>2. PICK p \in Pub, i \in Slot : object = BufferOf(p, i)
  BY <1>1 DEF Object, BufferOf
<1>3. ASSUME target[t] \in Name PROVE Host[p] = target[t][1]
  <2>1. target[t][1] \in Proc /\ target[t][2] \in Fd
    BY <1>3, NameAssumption DEF NameAssumption, Fd
  <2>2. object[2] = p
    BY <1>2 DEF BufferOf
  <2> QED
    BY <1>1, <2>1, <2>2 DEF OnlyZeroLeaks
<1> QED
  BY <1>1, <1>2, <1>3

(* A subscriber's step changes nothing of the publishers and of the others.   *)
LEMMA OwnShowing ==
  ASSUME SubTypeOK, NEW t \in Sub, Subscriber(t)
  PROVE  /\ Lives' = Lives /\ Listed' = Listed /\ NeverCleaned' = NeverCleaned
         /\ Showing' = [Showing EXCEPT ![t] = Shown(t)']
         /\ \A s \in Sub \ {t} : s \in Warned' <=> s \in Warned
         /\ RefusedNow' \ {t} = RefusedNow \ {t}
<1>1. UNCHANGED <<alive, boot, fds, pubVars, files, cleanings>>
  BY SubscriberEffect DEF procVars
<1>2. \A p \in Pub : /\ InfoName(p)' = InfoName(p) /\ Usable(p)' = Usable(p)
                     /\ Life(p)' = Life(p)
  BY <1>1 DEF pubVars, InfoName, Usable, BufferOf, EventOf, Life
<1>3. \A s \in Sub \ {t} : spc'[s] = spc[s] /\ Shown(s)' = Shown(s) /\ Excused(s)' = Excused(s)
  <2> SUFFICES ASSUME NEW s \in Sub \ {t}
               PROVE  spc'[s] = spc[s] /\ Shown(s)' = Shown(s) /\ Excused(s)' = Excused(s)
    OBVIOUS
  <2>1. /\ spc'[s] = spc[s] /\ attached'[s] = attached[s]
        /\ batch'[s] = batch[s] /\ queue'[s] = queue[s]
        /\ s \in watching' <=> s \in watching
        /\ s \in missed' <=> s \in missed
    BY SubscriberEffect
  <2>2. Pending(s)' = Pending(s)
    BY <2>1 DEF Pending
  <2> QED
    BY <2>1, <2>2 DEF Excused, PendingReset, Blind, Shown
<1>4. Lives' = Lives /\ Listed' = Listed /\ NeverCleaned' = NeverCleaned
  <2> HIDE DEF Life
  <2> QED
    BY <1>1, <1>2 DEF Lives, Listed, NeverCleaned
<1>5. Showing' = [Showing EXCEPT ![t] = Shown(t)']
  <2> HIDE DEF Shown
  <2> QED
    BY <1>3 DEF Showing
<1>6. RefusedNow' \ {t} = RefusedNow \ {t}
  <2>1. \A s \in Sub \ {t} : Refused(s)' = Refused(s)
    BY SubscriberEffect DEF Refused
  <2> HIDE DEF Refused
  <2> QED
    BY <2>1 DEF RefusedNow
<1> QED
  BY <1>3, <1>4, <1>5, <1>6 DEF Warned

(* It is refused when it has a pidfd, and not otherwise.                      *)
LEMMA OwnRefused ==
  ASSUME SubTypeOK, NEW t \in Sub, Subscriber(t), ~Refused(t)
  PROVE  RefusedNow' = IF Refused(t)' THEN RefusedNow \union {t} ELSE RefusedNow
<1>1. t \notin RefusedNow /\ (t \in RefusedNow' <=> Refused(t)')
  BY DEF RefusedNow
<1> QED
  BY <1>1, OwnShowing

(* Looking, reading and ignoring show nothing and warn nobody; whoever has    *)
(* looked may be refused.                                                     *)
LEMMA QuietDiscovers ==
  ASSUME AttachInv, NEW t \in Sub, Subscriber(t), ~Dies(t),
         \/ SStat(t) \/ SScan(t) \/ SPidfdOpen(t) \/ SRead(t) \/ SBatchDone(t)
         \/ SDeleted(t) \/ SCreated(t) \/ SIgnored(t)
  PROVE  [D!Refuse(t)]_D!discovery
<1>1. SubTypeOK /\ BatchHandled /\ NothingAttached
  BY DEF AttachInv, TopicInv
<1>2. attached' = attached
  BY DEF SStat, SScan, SPidfdOpen, SRead, TakeEvents, SBatchDone, SDeleted, SCreated, SIgnored
<1>3. Showing' = Showing
  BY <1>1, <1>2, OwnShowing DEF Showing, Shown
<1>4. t \in Warned' <=> t \in Warned
  <2>1. CASE SDeleted(t)
    <3>1. /\ batch[t] # <<>> /\ Head(batch[t]).mask \in {"DELETE", "DELETE_SELF"}
          /\ spc'[t] = "start"
      BY <1>1, <2>1 DEF SDeleted, Handling, Proceed, SubTypeOK
    <3>2. batch[t] \in Seq(Event)
      BY <1>1 DEF SubTypeOK
    <3>3. \E i \in DOMAIN batch[t] : batch[t][i] = Head(batch[t])
      BY <3>1, <3>2, TailKeeps
    <3>4. Excused(t)
      BY <3>1, <3>3 DEF Excused, PendingReset, Pending
    <3> QED
      BY <3>1, <3>4 DEF Warned
  <2>2. CASE ~SDeleted(t)
    <3>1. /\ spc[t] # "start" /\ spc'[t] \notin {"start", "stat", "scan"}
          /\ UNCHANGED <<watching, missed>>
      BY <1>1, <2>2 DEF SStat, SScan, SPidfdOpen, SRead, TakeEvents, SBatchDone, SCreated, SIgnored,
                        Handling, Proceed, SubTypeOK, vars, dirVars
    <3>2. Blind(t)' = Blind(t)
      BY <3>1 DEF Blind
    <3>3. Excused(t)' <=> Excused(t)
      BY <1>1, <3>1, <3>2, OwnPending DEF Excused, PendingReset
    <3> QED
      BY <3>1, <3>3 DEF Warned
  <2> QED
    BY <2>1, <2>2
<1>5. Warned' = Warned
  BY <1>1, <1>4, OwnShowing DEF Warned
<1>6. ~Refused(t)
  BY DEF SStat, SScan, SPidfdOpen, SRead, SBatchDone, SDeleted, SCreated, SIgnored, Handling, Refused
<1>7. CASE Refused(t)'
  <2>1. spc'[t] = "getfd" /\ <<t, target'[t][1], pid_fd'[t]>> \notin MayTrace
    BY <1>7 DEF Refused
  <2>2. /\ spc[t] = "connect" /\ target'[t] = target[t]
        /\ target[t][1] \in alive /\ pid_fd'[t] = boot[target[t][1]]
    BY <1>1, <2>1, OwnPidfd
  <2>3. target[t][1] \in Proc /\ boot[target[t][1]] \in 1 .. MaxBoots
    BY <1>1, <2>2 DEF SubTypeOK, TypeOK
  <2>4. t \in MayBeRefused
    BY <2>1, <2>2, <2>3 DEF MayBeRefused
  <2>5. Showing[t] = NoBuffer
    BY <1>1, <2>2 DEF NothingAttached, Showing, Shown
  <2>6. RefusedNow' = RefusedNow \union {t}
    BY <1>1, <1>6, <1>7, OwnRefused
  <2>7. D!Refuse(t)
    BY <1>1, <1>3, <1>5, <2>4, <2>5, <2>6, OwnShowing DEF D!Refuse
  <2> QED
    BY <2>7
<1>8. CASE ~Refused(t)'
  BY <1>1, <1>3, <1>5, <1>6, <1>8, OwnShowing, OwnRefused DEF D!discovery
<1> QED
  BY <1>7, <1>8

(* Who ends shows nothing, watches nothing and is refused nothing.            *)
LEMMA DyingShows ==
  ASSUME AttachInv, NEW t \in Sub, Subscriber(t), Dies(t)
  PROVE  /\ Showing' = [Showing EXCEPT ![t] = NoBuffer]
         /\ Warned' = Warned \union {t} /\ RefusedNow' = RefusedNow \ {t}
         /\ UNCHANGED <<Lives, Listed, ~NeverCleaned>>
<1>1. SubTypeOK
  BY DEF AttachInv, TopicInv
<1>2. Shown(t)' = NoBuffer /\ Blind(t)' /\ spc'[t] = "dead"
  BY <1>1 DEF Dies, Proceed, CloseWatch, Shown, Blind, SubTypeOK
<1>3. t \notin RefusedNow'
  BY <1>2 DEF RefusedNow, Refused
<1>4. Warned' = Warned \union {t}
  BY <1>1, <1>2, OwnShowing DEF Warned, Excused
<1> QED
  BY <1>1, <1>2, <1>3, <1>4, OwnShowing

(* A subscriber that ends did not show what can be found, and if it showed    *)
(* nothing, it was warned, refused or misled.                                 *)
LEMMA DeathDiscovers ==
  ASSUME AttachInv, NoWatchWithoutDir, NEW t \in Sub, Subscriber(t), Dies(t),
         \/ spc[t] = "scan" /\ ~dir
         \/ spc[t] \in {"connect", "getfd"}
         \/ attached[t] # NoBuffer /\ ~IsInfo(attached[t])
  PROVE  D!Die(t)
<1>1. SubTypeOK /\ OwnershipInv /\ NothingAttached
  BY DEF AttachInv, TopicInv
<1>2. CASE attached[t] = NoBuffer
  <2>1. Showing[t] = NoBuffer
    BY <1>2 DEF Showing, Shown
  <2>2. ASSUME spc[t] = "scan" PROVE D!Fails(t)
    <3>1. Blind(t)
      BY <1>2, <2>2 DEF NoWatchWithoutDir, Blind
    <3> QED
      BY <3>1 DEF D!Fails, Warned, Excused
  <2>3. ASSUME spc[t] \in {"connect", "getfd"} PROVE D!Fails(t)
    <3>1. spc'[t] = "dead"
      BY <1>1 DEF Dies, Proceed, SubTypeOK
    <3>2. \A p \in Pub : Orphaned(p) => Lives[p] = "killed"
      BY DEF Orphaned, Lives, Life
    <3> QED
      BY <2>3, <3>1, <3>2, ConnectDeath DEF D!Fails, Warned, RefusedNow
  <2>4. D!Fails(t)
    BY <1>2, <2>2, <2>3
  <2> QED
    BY <2>1, <2>4, DyingShows DEF D!Die
<1>3. CASE attached[t] # NoBuffer
  <2>1. Shown(t) = <<attached[t][2], attached[t][3]>> /\ ~IsInfo(attached[t])
    BY <1>1, <1>3 DEF Shown, NothingAttached
  <2>2. \A p \in Listed : info[p] # Blank
    BY DEF Listed, Usable
  <2>3. Shown(t) \notin Listed \X {QueueSize}
    BY <1>3, <2>1, <2>2 DEF IsInfo
  <2>4. Showing[t] = Shown(t) /\ Shown(t) # NoBuffer
    <3>1. attached[t] \in Object
      BY <1>1, <1>3 DEF SubTypeOK
    <3>2. Shown(t) \in Pub \X Slot
      BY <2>1, <3>1 DEF Object
    <3> QED
      BY <3>2, NothingAssumption DEF Showing, NothingAssumption
  <2> QED
    BY <2>3, <2>4, DyingShows DEF D!Die, D!InfoOf
<1> QED
  BY <1>2, <1>3

(* What a subscriber borrows is the info buffer of a publisher that can be    *)
(* found, if nothing misleads it.                                             *)
LEMMA ShowDiscovers ==
  ASSUME AttachInv, OnlyZeroLeaks, NEW t \in Sub, Subscriber(t), SGetFd(t), ~Dies(t)
  PROVE  D!Show(t)
<1>1. SubTypeOK /\ OwnershipInv /\ NothingAttached /\ files \subseteq Name
  BY DEF AttachInv, TopicInv, OwnershipInv, TypeOK, DirTypeOK
<1> HIDE DEF Borrowed
<1>2. /\ spc[t] = "getfd" /\ attached[t] = NoBuffer /\ Borrowed(t) # NoBuffer
      /\ attached'[t] = Borrowed(t) /\ spc'[t] = "events" /\ batch' = batch /\ UNCHANGED vars
  BY <1>1 DEF SGetFd, NothingAttached, Proceed, SubTypeOK
<1>3. PICK p \in Pub, i \in Slot :
        Borrowed(t) = BufferOf(p, i) /\ (target[t] \in Name => Host[p] = target[t][1])
  BY <1>1, <1>2, BorrowedFrom
<1>4. Shown(t) = NoBuffer /\ Shown(t)' = <<p, i>>
  BY <1>2, <1>3 DEF Shown, BufferOf
<1>5. Warned' = Warned
  <2>1. Excused(t)' = Excused(t)
    BY <1>2 DEF vars, dirVars, Excused, PendingReset, Pending, Blind
  <2> QED
    BY <1>1, <1>2, <2>1, OwnShowing DEF Warned
<1>6. <<p, i>> \in Listed \X {QueueSize} \/ D!Misled(t, p)
  <2> SUFFICES ASSUME NeverCleaned, ~Excused(t)
               PROVE  <<p, i>> \in Listed \X {QueueSize}
                      \/ \E q \in Pub : Lives[q] = "killed" /\ Host[q] = Host[p]
    BY DEF D!Misled, Warned
  <2>1. target[t] \in files
    BY <1>2 DEF AttachInv, Undisturbed, TargetThere
  <2>2. PICK r \in Pub : InfoName(r) = target[t] /\ Registrant(r)
    BY <1>1, <2>1 DEF OwnershipInv, FilesRegistered
  <2>3. target[t][1] = Host[r] /\ target[t][2] = buffer_fd[r][QueueSize]
    BY <2>2 DEF InfoName
  <2>4. CASE pc[r] \in {"exiting", "killed"}
    <3>1. Lives[r] = "killed"
      BY <2>4 DEF Lives, Life
    <3>2. Host[r] = Host[p]
      BY <1>1, <1>3, <2>1, <2>3
    <3> QED
      BY <3>1, <3>2
  <2>5. CASE pc[r] \in {"close_file", "running"}
    <3>1. Usable(r)
      BY <1>1, <2>5, ActiveUsable
    <3>2. fds[target[t][1]][target[t][2]] = BufferOf(r, QueueSize)
      BY <2>3, <3>1 DEF Usable
    <3>3. Borrowed(t) = BufferOf(r, QueueSize)
      BY <1>2, <3>2 DEF Borrowed
    <3>4. p = r /\ i = QueueSize
      BY <1>3, <3>3 DEF BufferOf
    <3> QED
      BY <2>1, <2>2, <3>1, <3>4 DEF Listed
  <2> QED
    BY <2>2, <2>4, <2>5 DEF Registrant
<1>7. Showing[t] = Shown(t)
  BY DEF Showing
<1>8. RefusedNow' = RefusedNow
  <2>1. ~Refused(t) /\ ~Refused(t)'
    BY <1>2 DEF Borrowed, Refused
  <2> QED
    BY <1>1, <2>1, OwnRefused
<1> QED
  BY <1>1, <1>3, <1>4, <1>5, <1>6, <1>7, <1>8, OwnShowing DEF D!Show, D!InfoOf

(* A subscriber's step.                                                       *)
LEMMA SubscriberDiscovers ==
  ASSUME AttachInv, OnlyZeroLeaks, NoWatchWithoutDir, NEW t \in Sub, Subscriber(t)
  PROVE  [D!Next]_D!discovery
<1>1. SubTypeOK /\ BatchHandled /\ NothingAttached
  BY DEF AttachInv, TopicInv
<1>2. Showing[t] = Shown(t) /\ Warned \subseteq Sub
  BY DEF Showing, Warned
<1> HIDE DEF Borrowed
<1>3. CASE SStart(t)
  <2>1. /\ spc[t] = "start" /\ Shown(t)' = NoBuffer /\ Blind(t)'
    BY <1>1, <1>3 DEF SStart, CloseWatch, Shown, Blind, SubTypeOK
  <2>2. t \in Warned /\ t \in Warned'
    BY <2>1 DEF Warned, Excused
  <2>3. Warned' = Warned
    BY <1>1, <2>2, OwnShowing DEF Warned
  <2>4. RefusedNow' = RefusedNow
    <3>1. spc'[t] = "stat"
      BY <1>1, <1>3 DEF SStart, Proceed, SubTypeOK
    <3> QED
      BY <1>1, <2>1, <3>1, OwnRefused DEF Refused
  <2>5. D!StartOver(t)
    BY <1>1, <2>1, <2>2, <2>3, <2>4, OwnShowing DEF D!StartOver
  <2> QED
    BY <2>5 DEF D!Next
<1>4. CASE SAddWatch(t)
  <2>1. attached[t] = NoBuffer /\ attached' = attached
    BY <1>1, <1>4 DEF SAddWatch, NothingAttached
  <2>2. Shown(t) = NoBuffer /\ Shown(t)' = NoBuffer
    BY <2>1 DEF Shown
  <2>3. Showing' = Showing
    BY <1>1, <2>1, OwnShowing DEF Showing, Shown
  <2>4. Warned' \in {Warned \ {t}, Warned \union {t}}
    BY <1>1, OwnShowing DEF Warned
  <2>5. RefusedNow' = RefusedNow
    <3>1. spc[t] = "add_watch" /\ spc'[t] = "scan"
      BY <1>1, <1>4 DEF SAddWatch, Proceed, SubTypeOK
    <3> QED
      BY <1>1, <3>1, OwnRefused DEF Refused
  <2>6. D!Watch(t)
    BY <1>1, <1>2, <2>2, <2>3, <2>4, <2>5, OwnShowing DEF D!Watch
  <2> QED
    BY <2>6 DEF D!Next
<1>5. CASE Dies(t)
  <2>1. \/ spc[t] = "scan" /\ ~dir
        \/ spc[t] \in {"connect", "getfd"}
        \/ attached[t] # NoBuffer /\ ~IsInfo(attached[t])
    <3>1. spc'[t] = "dead"
      BY <1>1, <1>5 DEF Dies, Proceed, SubTypeOK
    <3>2. ~(SStart(t) \/ SStat(t) \/ SAddWatch(t) \/ SRead(t) \/ SBatchDone(t) \/ SDeleted(t) \/ SCreated(t))
      BY <1>1, <3>1 DEF SStart, SStat, SAddWatch, SRead, TakeEvents, SBatchDone, SDeleted, SCreated,
                        Proceed, SubTypeOK
    <3>3. ~SIgnored(t)
      BY <3>1 DEF SIgnored, Handling
    <3>4. ~SScan(t)
      BY <1>1, <3>1 DEF SScan, Proceed, SubTypeOK
    <3> QED
      BY <3>2, <3>3, <3>4 DEF Subscriber, SScanFails, SPidfdOpen, SGetFd, SDisplayFails
  <2>2. D!Die(t)
    BY <1>5, <2>1, DeathDiscovers
  <2> QED
    BY <2>2 DEF D!Next
<1>6. CASE SGetFd(t) /\ ~Dies(t)
  <2>1. D!Show(t)
    BY <1>6, ShowDiscovers
  <2> QED
    BY <2>1 DEF D!Next
<1>7. CASE ~(SStart(t) \/ SAddWatch(t) \/ Dies(t) \/ SGetFd(t))
  <2>1. ~(SScanFails(t) \/ SDisplayFails(t))
    BY <1>7 DEF SScanFails, SDisplayFails
  <2>2. [D!Refuse(t)]_D!discovery
    BY <1>7, <2>1, QuietDiscovers DEF Subscriber
  <2> QED
    BY <2>2 DEF D!Next
<1> QED
  BY <1>3, <1>4, <1>5, <1>6, <1>7

(* The subscribers close none of the publishers' descriptors, and open none.  *)
LEMMA TopicLeaks == TopicSpec => []OnlyZeroLeaks
<1>1. SubInit => LeakInv
  BY LeakInit DEF SubInit
<1>2. LeakInv /\ SubTypeOK /\ OwnershipInv' /\ [TopicNext]_allVars => LeakInv'
  <2> SUFFICES ASSUME LeakInv, SubTypeOK, OwnershipInv', [TopicNext]_allVars PROVE LeakInv'
    OBVIOUS
  <2>1. CASE [Next]_vars
    BY <2>1, LeakNext
  <2>2. ASSUME NEW t \in Sub, Subscriber(t) PROVE LeakInv'
    <3>1. UNCHANGED <<procVars, pubVars>>
      BY <2>2, SubscriberEffect
    <3> QED
      BY <3>1 DEF LeakInv, Accounted, Retained, procVars, pubVars
  <2> QED
    BY <2>1, <2>2 DEF TopicNext, allVars
<1> QED
  BY <1>1, <1>2, OwnedTyped, AccountedFor, PTL DEF TopicSpec

(* The topic as the code keeps it, with any publishers, processes, crashes,   *)
(* cleanings and subscribers, is what Discovery promises.                     *)
THEOREM DiscoveryTheorem == TopicSpec => ImplementsDiscovery
<1>1. SubInit => D!Init
  <2> SUFFICES ASSUME SubInit PROVE D!Init
    OBVIOUS
  <2>1. Lives = [p \in Pub |-> "new"]
    BY DEF SubInit, Init, Lives, Life
  <2>2. Listed = {} /\ NeverCleaned
    BY DEF SubInit, Init, DirInit, Listed, NeverCleaned
  <2>3. Showing = [s \in Sub |-> NoBuffer] /\ Warned = Sub /\ RefusedNow = {}
    BY DEF SubInit, Showing, Shown, Warned, RefusedNow, Refused
  <2> QED
    BY <2>1, <2>2, <2>3 DEF D!Init
<1>2. AttachInv /\ AttachInv' /\ OnlyZeroLeaks /\ NoWatchWithoutDir /\ [TopicNext]_allVars => [D!Next]_D!discovery
  <2> SUFFICES ASSUME AttachInv, AttachInv', OnlyZeroLeaks, NoWatchWithoutDir, [TopicNext]_allVars
               PROVE  [D!Next]_D!discovery
    OBVIOUS
  <2>1. OwnershipInv'
    BY DEF AttachInv, TopicInv
  <2>2. CASE Next /\ UNCHANGED subVars
    BY <2>1, <2>2, PublisherDiscovers, CleanerDiscovers DEF Next, Environment
  <2>3. CASE \E s \in Sub : Subscriber(s)
    BY <2>3, SubscriberDiscovers
  <2>4. CASE UNCHANGED allVars
    <3>1. UNCHANGED <<dirVars, procVars, pubVars, subVars>>
      BY <2>4 DEF allVars, vars
    <3>2. Lives' = Lives /\ Listed' = Listed
      BY <3>1 DEF Lives, Life, Listed, InfoName, Usable, BufferOf, EventOf, dirVars, procVars, pubVars
    <3>3. Warned' = Warned /\ Showing' = Showing /\ RefusedNow' = RefusedNow /\ NeverCleaned' = NeverCleaned
      BY <3>1, NotWarned DEF dirVars, NeverCleaned
    <3> QED
      BY <3>2, <3>3 DEF D!discovery
  <2> QED
    BY <2>2, <2>3, <2>4 DEF TopicNext
<1> QED
  BY <1>1, <1>2, AttachInvariant, TopicLeaks, NoWatch, PTL DEF TopicSpec, ImplementsDiscovery, D!Spec

(* The promise holds at every step of a subscriber, not only when it is       *)
(* settled as in AttachmentSound: it follows from Discovery alone.            *)
LEMMA DiscoveryShows ==
  ASSUME D!ShowsWhatIsListed, [D!Next]_D!discovery
  PROVE  D!ShowsWhatIsListed'
<1> SUFFICES ASSUME NEW s \in Sub, NEW p \in Pub, NEW i \in Slot, Showing'[s] = <<p, i>>
             PROVE  <<p, i>> \in (Listed \X {QueueSize})' \/ D!Misled(s, p)'
  BY DEF D!ShowsWhatIsListed, D!InfoOf
<1>0. DOMAIN Lives = Pub /\ DOMAIN Showing = Sub /\ NoBuffer # <<p, i>>
  BY NothingAssumption DEF Lives, Showing, NothingAssumption
<1>1. Showing[s] = <<p, i>> => <<p, i>> \in Listed \X {QueueSize} \/ D!Misled(s, p)
  BY DEF D!ShowsWhatIsListed, D!InfoOf
<1>2. CASE UNCHANGED D!discovery
  BY <1>1, <1>2 DEF D!discovery, D!Misled
<1>3. ASSUME NEW q \in Pub, D!Ready(q) \/ D!Leave(q) \/ D!Gone(q)
      PROVE  <<p, i>> \in (Listed \X {QueueSize})' \/ D!Misled(s, p)'
  <2>1. \A r \in Pub : Lives[r] = "killed" => Lives'[r] = "killed"
    BY <1>0, <1>3 DEF D!Ready, D!Leave, D!Gone
  <2> QED
    BY <1>1, <1>3, <2>1 DEF D!Ready, D!Leave, D!Gone, D!Misled
<1>4. ASSUME NEW pubs \in SUBSET Pub, D!Kill(pubs)
      PROVE  <<p, i>> \in (Listed \X {QueueSize})' \/ D!Misled(s, p)'
  <2>1. \A r \in Pub : Lives[r] = "killed" \/ r \in pubs => Lives'[r] = "killed"
    BY <1>4 DEF D!Kill
  <2> QED
    BY <1>1, <1>4, <2>1 DEF D!Kill, D!Misled
<1>5. ASSUME D!Sweep \/ (\E pubs \in SUBSET Pub : D!Unlist(pubs)) \/ \E subs \in SUBSET Sub : D!Miss(subs)
      PROVE  <<p, i>> \in (Listed \X {QueueSize})' \/ D!Misled(s, p)'
  BY <1>1, <1>5 DEF D!Sweep, D!Unlist, D!Miss, D!Misled
<1>6. ASSUME NEW t \in Sub, D!Watch(t) \/ D!Show(t) \/ D!StartOver(t) \/ D!Refuse(t) \/ D!Die(t)
      PROVE  <<p, i>> \in (Listed \X {QueueSize})' \/ D!Misled(s, p)'
  <2>1. CASE D!Watch(t)
    BY <1>0, <1>1, <2>1 DEF D!Watch, D!Misled
  <2>2. CASE D!Show(t)
    BY <1>0, <1>1, <2>2 DEF D!Show, D!Misled, D!InfoOf
  <2>3. CASE D!StartOver(t) \/ D!Refuse(t) \/ D!Die(t)
    BY <1>0, <1>1, <2>3 DEF D!StartOver, D!Refuse, D!Die, D!Misled
  <2> QED
    BY <1>6, <2>1, <2>2, <2>3
<1> QED
  BY <1>2, <1>3, <1>4, <1>5, <1>6 DEF D!Next

(* Whoever shows a buffer, at whatever step, shows the info buffer of a       *)
(* publisher that can be found, or was warned, or something is there to       *)
(* mislead him: an rm -rf, or a publisher of that pid that was killed.        *)
THEOREM ShowsTheorem == TopicSpec => []D!ShowsWhatIsListed
<1>1. D!Init => D!ShowsWhatIsListed
  BY NothingAssumption DEF D!Init, D!ShowsWhatIsListed, NothingAssumption
<1>2. D!ShowsWhatIsListed /\ [D!Next]_D!discovery => D!ShowsWhatIsListed'
  BY DiscoveryShows
<1> QED
  BY <1>1, <1>2, DiscoveryTheorem, PTL DEF ImplementsDiscovery, D!Spec
=============================================================================
