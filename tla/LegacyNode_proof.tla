--------------------------- MODULE LegacyNode_proof ---------------------------
(***************************************************************************)
(* Proofs about LegacyNode: its types, and that a signal handler that comes *)
(* to its end has removed everything of its pid.                            *)
(***************************************************************************)
EXTENDS LegacyNode, SequenceTheorems, TLAPS

(* A name that starts with the pid and the separator is found by the handler *)
(* of that pid.                                                              *)
LEMMA OwnRelated ==
  ASSUME NEW h \in Proc, NEW n, n[1] = h
  PROVE  Related(h, n)
<1>1. Spelling[h] \in Seq(Nat)
  BY SpellingAssumption
<1>2. Spelling[h] \o <<Separator>> \in Seq(Nat \union {Separator})
  BY <1>1
<1>3. SubSeq(Spelling[h] \o <<Separator>>, 1, Len(Spelling[h] \o <<Separator>>))
        = Spelling[h] \o <<Separator>>
  BY <1>2
<1>4. Len(Spelling[h] \o <<Separator>>) <= Len(Spelling[h] \o <<Separator>>)
  BY <1>2
<1> QED
  BY <1>3, <1>4 DEF Related

(* The initial state.                                                        *)
LEMMA InitInv == Init => LegacyInv
<1> SUFFICES ASSUME Init PROVE LegacyInv
  OBVIOUS
<1>1. TypeOK
  BY SizeAssumption, BootsAssumption DEF Init, TypeOK, Handling, Dead
<1>2. (\A p \in Pub : InLoop(p)) /\ (\A h \in Proc : HandlerProgress(h))
  BY DEF Init, InLoop, HandlerProgress
<1> QED
  BY <1>1, <1>2 DEF LegacyInv

(* However a process ends, the types are kept.                               *)
LEMMA EndsType ==
  ASSUME TypeOK, NEW h \in Proc, NEW how \in Dead, Ends(h, how),
         files' \in SUBSET File, nodes' \in SUBSET Proc
  PROVE  TypeOK'
<1>1. pc' \in [Pub -> {"idle", "allocate", "create_file", "ready",
                       "close", "remove_file", "destroyed", "dead"}]
  BY DEF TypeOK, Ends
<1>2. fds' \in [Proc -> [Fd -> Buffer \union {Free}]]
  BY DEF TypeOK, Ends
<1> QED
  BY <1>1, <1>2 DEF TypeOK, Ends, NodeGoesTo, Dead, Handling

(* The publishers of a process that ends are in none of their loops.         *)
LEMMA EndsLoop ==
  ASSUME TypeOK, NEW h \in Proc, NEW how, Ends(h, how), NEW p \in Pub, InLoop(p)
  PROVE  InLoop(p)'
  BY DEF TypeOK, Ends, InLoop

(* A step of a process keeps the types and the loops of its publishers.      *)
LEMMA ProcessLoops ==
  ASSUME TypeOK, \A p \in Pub : InLoop(p), NEW h \in Proc, Process(h)
  PROVE  TypeOK' /\ \A p \in Pub : InLoop(p)'
<1>1. CASE Boot(h)
  <2>1. boot[h] + 1 \in 1 .. MaxBoots
    BY <1>1, BootsAssumption DEF Boot, TypeOK
  <2>2. boot' \in [Proc -> 1 .. MaxBoots]
    BY <1>1, <2>1 DEF Boot, TypeOK
  <2> QED
    BY <1>1, <2>2 DEF Boot, TypeOK, NodeGoesTo, pubVars, InLoop
<1>2. CASE Killed(h) BY <1>2, EndsType, EndsLoop DEF Killed, TypeOK, Dead
<1>3. CASE InstallHandlers(h) BY <1>3 DEF InstallHandlers, TypeOK, NodeGoesTo, pubVars, InLoop
<1>4. CASE InitFilesystem(h) BY <1>4 DEF InitFilesystem, TypeOK, NodeGoesTo, pubVars, InLoop
<1>5. CASE Signal(h) BY <1>5 DEF Signal, TypeOK, NodeGoesTo, pubVars, Handling, InLoop
<1>6. CASE RemoveNode(h) BY <1>6 DEF RemoveNode, TypeOK, NodeGoesTo, pubVars, Handling, InLoop
<1>7. CASE ListTopics(h)
  <2>1. {n \in files : Related(h, n)} \in SUBSET File
    BY DEF TypeOK
  <2> QED
    BY <1>7, <2>1 DEF ListTopics, TypeOK, NodeGoesTo, pubVars, Handling, InLoop
<1>8. CASE HandlerThrows(h) BY <1>8, EndsType, EndsLoop DEF HandlerThrows, TypeOK, Dead
<1>9. CASE RemoveTopicFile(h)
  <2>1. PICK n \in todo[h] : files' = files \ {n} /\ todo' = [todo EXCEPT ![h] = @ \ {n}]
    BY <1>9 DEF RemoveTopicFile
  <2> QED
    BY <1>9, <2>1 DEF RemoveTopicFile, TypeOK, pubVars, InLoop
<1>10. CASE HandlerExits(h) BY <1>10, EndsType, EndsLoop DEF HandlerExits, TypeOK, Dead
<1> QED
  BY <1>1, <1>2, <1>3, <1>4, <1>5, <1>6, <1>7, <1>8, <1>9, <1>10 DEF Process, Handler

(* A step of a publisher keeps the types and its loop in bounds.             *)
LEMMA PublisherLoops ==
  ASSUME TypeOK, \A q \in Pub : InLoop(q), NEW p \in Pub, BasePublisher(p)
  PROVE  TypeOK' /\ \A q \in Pub : InLoop(q)'
<1>1. Host[p] \in Proc /\ QueueSize \in Nat /\ InLoop(p)
  BY HostAssumption, SizeAssumption
<1>2. CASE Construct(p)
  BY <1>1, <1>2 DEF Construct, TypeOK, GoTo, InLoop
<1>3. CASE Allocate(p)
  <2>1. PICK heap_fd \in Fd, fd \in Fd :
          /\ fds' = [fds EXCEPT ![Host[p]][fd] = <<p, index[p]>>]
          /\ allocated' = [allocated EXCEPT ![p][index[p]] = fd]
    BY <1>3 DEF Allocate
  <2>2. index[p] \in Number /\ <<p, index[p]>> \in Buffer
    BY <1>1, <1>3 DEF Allocate, At, TypeOK, InLoop, Number, Buffer
  <2>3. fds' \in [Proc -> [Fd -> Buffer \union {Free}]]
    BY <1>1, <2>1, <2>2 DEF TypeOK
  <2>4. allocated' \in [Pub -> [Number -> Fd \union {-1}]]
    BY <2>1, <2>2 DEF TypeOK
  <2>5. TypeOK'
    BY <1>3, <2>3, <2>4 DEF Allocate, TypeOK, GoTo
  <2>6. allocated'[p][index[p]] # -1
    BY <2>1, <2>2 DEF TypeOK, Fd
  <2>7. \A q \in Pub \ {p} : pc'[q] = pc[q] /\ allocated'[q] = allocated[q]
    BY <1>3, <2>1 DEF Allocate, GoTo, TypeOK
  <2>8. pc'[p] = "create_file" /\ pc[p] = "allocate" /\ index' = index
    BY <1>3 DEF Allocate, GoTo, TypeOK, At
  <2> QED
    BY <1>1, <2>5, <2>6, <2>7, <2>8 DEF InLoop
<1>4. CASE AllocateRaises(p)
  BY <1>1, <1>4 DEF AllocateRaises, TypeOK, NodeGoesTo, pubVars, Handling, InLoop
<1>5. CASE CreateFile(p)
  <2>1. index[p] \in Number /\ FileOf(p, index[p]) \in File
    BY <1>1, <1>5 DEF CreateFile, At, InLoop, TypeOK, Number, FileOf, File
  <2>2. TypeOK'
    BY <1>1, <1>5, <2>1 DEF CreateFile, TypeOK, GoTo, Number
  <2>3. InLoop(p)'
    BY <1>1, <1>5, <2>1 DEF CreateFile, TypeOK, GoTo, Number, InLoop
  <2>4. \A q \in Pub \ {p} : InLoop(q)'
    BY <1>5 DEF CreateFile, TypeOK, GoTo, InLoop
  <2> QED
    BY <2>2, <2>3, <2>4
<1>6. CASE Destruct(p)
  BY <1>1, <1>6 DEF Destruct, TypeOK, GoTo, InLoop
<1>7. CASE CloseBuffer(p)
  BY <1>1, <1>7 DEF CloseBuffer, TypeOK, GoTo, At, InLoop
<1>8. CASE RemoveFile(p)
  <2>1. index[p] \in Number
    BY <1>1, <1>8 DEF RemoveFile, At, InLoop, TypeOK, Number
  <2>2. TypeOK'
    BY <1>1, <1>8, <2>1 DEF RemoveFile, TypeOK, GoTo, Number
  <2>3. InLoop(p)'
    BY <1>1, <1>8, <2>1 DEF RemoveFile, TypeOK, GoTo, Number, InLoop
  <2>4. \A q \in Pub \ {p} : InLoop(q)'
    BY <1>8 DEF RemoveFile, TypeOK, GoTo, InLoop
  <2> QED
    BY <2>2, <2>3, <2>4
<1> QED
  BY <1>2, <1>3, <1>4, <1>5, <1>6, <1>7, <1>8 DEF BasePublisher

(* A process that keeps its place, its directory and creates no file keeps   *)
(* the progress of its handler.                                              *)
LEMMA SameProgress ==
  ASSUME NEW h \in Proc, HandlerProgress(h), hpc'[h] = hpc[h], todo'[h] = todo[h],
         h \in nodes' => h \in nodes, Own(h)' \subseteq Own(h)
  PROVE  HandlerProgress(h)'
  BY DEF HandlerProgress

(* Every step of a process keeps the progress of all handlers.               *)
LEMMA ProcessProgress ==
  ASSUME TypeOK, \A g \in Proc : HandlerProgress(g), NEW h \in Proc, Process(h), NEW g \in Proc
  PROVE  HandlerProgress(g)'
<1> HandlerProgress(g) /\ HandlerProgress(h)
  OBVIOUS
<1>1. ASSUME Own(g)' \subseteq Own(g), hpc' = [hpc EXCEPT ![h] = hpc'[h]],
             g # h => todo'[g] = todo[g] /\ (g \in nodes' => g \in nodes)
      PROVE  g # h => HandlerProgress(g)'
  BY <1>1, SameProgress DEF TypeOK
<1>2. CASE Boot(h)
  BY <1>1, <1>2 DEF Boot, NodeGoesTo, TypeOK, HandlerProgress, Own
<1>3. ASSUME Killed(h) \/ HandlerThrows(h) PROVE HandlerProgress(g)'
  BY <1>1, <1>3 DEF Killed, HandlerThrows, Ends, NodeGoesTo, TypeOK, HandlerProgress, Own
<1>4. CASE InstallHandlers(h)
  BY <1>1, <1>4 DEF InstallHandlers, NodeGoesTo, TypeOK, HandlerProgress, Own
<1>5. CASE InitFilesystem(h)
  BY <1>1, <1>5 DEF InitFilesystem, NodeGoesTo, TypeOK, HandlerProgress, Own
<1>6. CASE Signal(h)
  BY <1>1, <1>6 DEF Signal, NodeGoesTo, TypeOK, HandlerProgress, Own
<1>7. CASE RemoveNode(h)
  BY <1>1, <1>7 DEF RemoveNode, NodeGoesTo, TypeOK, HandlerProgress, Own
<1>8. CASE ListTopics(h)
  <2>1. Own(h)' \subseteq todo'[h]
    BY <1>8, OwnRelated DEF ListTopics, Own, TypeOK
  <2> QED
    BY <1>1, <1>8, <2>1 DEF ListTopics, NodeGoesTo, TypeOK, HandlerProgress, Own
<1>9. CASE RemoveTopicFile(h)
  <2>1. PICK n \in todo[h] : files' = files \ {n} /\ todo' = [todo EXCEPT ![h] = @ \ {n}]
    BY <1>9 DEF RemoveTopicFile
  <2>2. hpc' = hpc /\ nodes' = nodes /\ Own(g)' = Own(g) \ {n}
    BY <1>9, <2>1 DEF RemoveTopicFile, Own
  <2>3. g # h => todo'[g] = todo[g]
    BY <2>1 DEF TypeOK
  <2>4. g = h => todo'[g] = todo[g] \ {n} /\ hpc[g] = "remove_topics"
    BY <1>9, <2>1 DEF TypeOK, RemoveTopicFile
  <2> QED
    BY <2>2, <2>3, <2>4 DEF HandlerProgress
<1>10. CASE HandlerExits(h)
  BY <1>1, <1>10 DEF HandlerExits, Ends, NodeGoesTo, TypeOK, HandlerProgress, Own
<1> QED
  BY <1>2, <1>3, <1>4, <1>5, <1>6, <1>7, <1>8, <1>9, <1>10 DEF Process, Handler

(* A publisher creates files only while no handler of its process runs.      *)
LEMMA PublisherProgress ==
  ASSUME TypeOK, NEW p \in Pub, BasePublisher(p), NEW g \in Proc, HandlerProgress(g)
  PROVE  HandlerProgress(g)'
<1>1. Host[p] \in Proc
  BY HostAssumption
<1>2. CASE AllocateRaises(p)
  BY <1>1, <1>2 DEF AllocateRaises, At, NodeGoesTo, TypeOK, HandlerProgress, Own
<1>3. CASE CreateFile(p)
  <2>1. hpc[Host[p]] = "running" /\ UNCHANGED <<hpc, todo, nodes>>
    BY <1>3 DEF CreateFile, At
  <2>2. g # Host[p] => Own(g)' = Own(g)
    BY <1>3 DEF CreateFile, Own, FileOf
  <2> QED
    BY <2>1, <2>2 DEF HandlerProgress
<1>4. CASE RemoveFile(p)
  BY <1>4, SameProgress DEF RemoveFile, Own
<1>5. ASSUME Construct(p) \/ Allocate(p) \/ Destruct(p) \/ CloseBuffer(p)
      PROVE  HandlerProgress(g)'
  <2>1. UNCHANGED <<hpc, todo, nodes, files>>
    BY <1>5 DEF Construct, Allocate, Destruct, CloseBuffer
  <2> QED
    BY <2>1, SameProgress DEF Own
<1> QED
  BY <1>2, <1>3, <1>4, <1>5 DEF BasePublisher

(* Every step of the program keeps the invariant.                            *)
LEMMA NextInv == LegacyInv /\ [Next]_vars => LegacyInv'
<1> SUFFICES ASSUME LegacyInv, [Next]_vars PROVE LegacyInv'
  OBVIOUS
<1> USE DEF LegacyInv
<1>1. ASSUME NEW h \in Proc, Process(h) PROVE LegacyInv'
  BY <1>1, ProcessLoops, ProcessProgress
<1>2. ASSUME NEW p \in Pub, BasePublisher(p) PROVE LegacyInv'
  BY <1>2, PublisherLoops, PublisherProgress
<1>3. CASE UNCHANGED vars
  BY <1>3 DEF vars, TypeOK, InLoop, HandlerProgress, Own
<1> QED
  BY <1>1, <1>2, <1>3 DEF Next

(* The invariant holds for any processes, publishers and sizes, wherever     *)
(* signals come (_node.cpp, _base_publisher.cpp).                            *)
THEOREM HandlerInvariant == Spec => []LegacyInv
  BY InitInv, NextInv, PTL DEF Spec

(* Loop counters, descriptors and files keep their types.                    *)
THEOREM TypeCorrect == Spec => []TypeOK
<1>1. LegacyInv => TypeOK
  BY DEF LegacyInv
<1> QED
  BY <1>1, HandlerInvariant, PTL

(* A process that a handler or the destructor of its Node has ended has left *)
(* no file and no directory of its pid (_node.cpp:76-103).                   *)
THEOREM NothingLeft == Spec => []ExitLeavesNothing
<1>1. LegacyInv => ExitLeavesNothing
  BY DEF LegacyInv, HandlerProgress, ExitLeavesNothing
<1> QED
  BY <1>1, HandlerInvariant, PTL

(* A separator put behind a spelling leaves the spelling as it is.           *)
LEMMA WithSeparator ==
  ASSUME NEW s \in Seq(Nat), NEW c
  PROVE  /\ s \o <<c>> \in Seq(Nat \union {c}) /\ Len(s) \in Nat
         /\ Len(s \o <<c>>) = Len(s) + 1
         /\ \A i \in 1 .. Len(s) : (s \o <<c>>)[i] = s[i]
         /\ (s \o <<c>>)[Len(s) + 1] = c
<1>1. s \in Seq(Nat \union {c}) /\ <<c>> \in Seq(Nat \union {c}) /\ Len(s) \in Nat
  <2>1. \A i \in 1 .. Len(s) : s[i] \in Nat \union {c}
    BY ElementOfSeq
  <2> QED
    BY <2>1, SeqDef
<1> QED
  BY <1>1, ConcatProperties

(* A name that another one with the separator begins with is its own: the    *)
(* separator comes first where it does in the other.                         *)
LEMMA RelatedOwn ==
  ASSUME NEW h \in Proc, NEW g \in Proc, NEW n, n[1] = g, Related(h, n)
  PROVE  g = h
<1> DEFINE a == Spelling[h]
           b == Spelling[g]
           as == a \o <<Separator>>
           bs == b \o <<Separator>>
<1>1. a \in Seq(Nat) /\ b \in Seq(Nat)
  BY SpellingAssumption
<1>2. /\ as \in Seq(Nat \union {Separator}) /\ Len(as) = Len(a) + 1
      /\ bs \in Seq(Nat \union {Separator}) /\ Len(bs) = Len(b) + 1
      /\ Len(a) \in Nat /\ Len(b) \in Nat
  <2> HIDE DEF a, b
  <2> QED
    BY <1>1, WithSeparator
<1>3. /\ \A i \in 1 .. Len(a) : as[i] = a[i]
      /\ as[Len(a) + 1] = Separator
      /\ \A i \in 1 .. Len(b) : bs[i] = b[i]
  <2> HIDE DEF a, b
  <2> QED
    BY <1>1, WithSeparator
<1>4. Len(as) <= Len(bs) /\ SubSeq(bs, 1, Len(as)) = as
  BY DEF Related
<1>5. \A i \in 1 .. Len(as) : bs[i] = as[i]
  <2>1. \A i \in 1 .. Len(as) : SubSeq(bs, 1, Len(as))[i] = bs[i]
    BY <1>2, <1>4
  <2> HIDE DEF as, bs
  <2> QED
    BY <1>4, <2>1
<1>6. Len(a) = Len(b)
  <2>1. SUFFICES ASSUME Len(a) < Len(b) PROVE FALSE
    BY <1>2, <1>4
  <2>2. Len(a) + 1 \in 1 .. Len(as) /\ Len(a) + 1 \in 1 .. Len(b)
    BY <1>2, <2>1
  <2>3. b[Len(a) + 1] = Separator
    BY <1>3, <1>5, <2>2
  <2> QED
    BY <2>2, <2>3, SpellingAssumption
<1>7. \A i \in 1 .. Len(a) : a[i] = b[i]
  <2>1. \A i \in 1 .. Len(a) : i \in 1 .. Len(as) /\ i \in 1 .. Len(b)
    BY <1>2, <1>6
  <2> HIDE DEF a, b, as, bs
  <2> QED
    BY <1>3, <1>5, <2>1
<1>8. a = b
  BY <1>1, <1>6, <1>7, SeqEqual
<1> QED
  BY <1>8, SpellingAssumption

(* The list of a handler holds files of its pid.                             *)
LEMMA ListInvariant == Spec => []ListInv
<1>1. Init => ListInv
  BY DEF Init, ListInv
<1>2. LegacyInv /\ ListInv /\ [Next]_vars => ListInv'
  <2> SUFFICES ASSUME TypeOK, ListInv, [Next]_vars, NEW g \in Proc, NEW n \in todo'[g]
               PROVE  n[1] = g
    BY DEF LegacyInv, ListInv
  <2>1. ASSUME NEW h \in Proc, ListTopics(h) PROVE n[1] = g
    <3>1. g # h => todo'[g] = todo[g]
      BY <2>1 DEF ListTopics, TypeOK
    <3>2. g = h => n \in files /\ Related(h, n)
      BY <2>1 DEF ListTopics, TypeOK
    <3>3. n \in files => n[1] \in Proc
      BY DEF TypeOK, File
    <3> QED
      BY <3>1, <3>2, <3>3, RelatedOwn DEF ListInv
  <2>2. ASSUME todo'[g] \subseteq todo[g] PROVE n[1] = g
    BY <2>2 DEF ListInv
  <2>3. ASSUME NEW h \in Proc, Process(h), ~ListTopics(h) PROVE todo'[g] \subseteq todo[g]
    BY <2>3 DEF Process, Handler, Boot, Killed, InstallHandlers, InitFilesystem, Signal, RemoveNode,
                HandlerThrows, RemoveTopicFile, HandlerExits, Ends, TypeOK
  <2>4. ASSUME NEW p \in Pub, BasePublisher(p) PROVE todo' = todo
    BY <2>4 DEF BasePublisher, Construct, Allocate, AllocateRaises, CreateFile, Destruct,
                CloseBuffer, RemoveFile
  <2> QED
    BY <2>1, <2>2, <2>3, <2>4 DEF Next, vars
<1> QED
  BY <1>1, <1>2, HandlerInvariant, PTL DEF Spec

(* A file is removed by its publisher or by the handler of its own pid, for  *)
(* any pids, of which one may begin with another (_node.cpp:84-101).         *)
THEOREM OwnerTheorem == Spec => OnlyOwnerRemoves
<1>1. LegacyInv /\ ListInv /\ [Next]_vars =>
        [\A n \in files \ files' :
           \/ hpc[n[1]] = "remove_topics" /\ n \in todo[n[1]] \ todo'[n[1]]
           \/ \E p \in Pub : At(p, "remove_file") /\ n = FileOf(p, index[p])]_vars
  <2> SUFFICES ASSUME TypeOK, ListInv, Next, NEW n \in files \ files'
               PROVE  \/ hpc[n[1]] = "remove_topics" /\ n \in todo[n[1]] \ todo'[n[1]]
                      \/ \E p \in Pub : At(p, "remove_file") /\ n = FileOf(p, index[p])
    BY DEF LegacyInv
  <2>1. ASSUME NEW h \in Proc, Process(h) PROVE RemoveTopicFile(h)
    BY <2>1 DEF Process, Handler, Boot, Killed, InstallHandlers, InitFilesystem, Signal, RemoveNode,
                ListTopics, HandlerThrows, HandlerExits, Ends
  <2>2. ASSUME NEW h \in Proc, RemoveTopicFile(h)
        PROVE  hpc[n[1]] = "remove_topics" /\ n \in todo[n[1]] \ todo'[n[1]]
    <3>1. PICK m \in todo[h] : files' = files \ {m} /\ todo' = [todo EXCEPT ![h] = @ \ {m}]
      BY <2>2 DEF RemoveTopicFile
    <3>2. m = n /\ n[1] = h
      BY <3>1 DEF ListInv
    <3> QED
      BY <2>2, <3>1, <3>2 DEF RemoveTopicFile, TypeOK
  <2>3. ASSUME NEW p \in Pub, BasePublisher(p)
        PROVE  At(p, "remove_file") /\ n = FileOf(p, index[p])
    BY <2>3 DEF BasePublisher, Construct, Allocate, AllocateRaises, CreateFile, Destruct,
                CloseBuffer, RemoveFile
  <2> QED
    BY <2>1, <2>2, <2>3 DEF Next
<1> QED
  BY <1>1, HandlerInvariant, ListInvariant, PTL DEF Spec, OnlyOwnerRemoves

(* What BufferInv says of one publisher, and of one file.                    *)
BufferOf(p) ==
  \A i \in Open(p) : allocated[p][i] \in Fd /\ fds[Host[p]][allocated[p][i]] = <<p, i>>
OwnerOf(n) == \E p \in Pub : n[3] \in Listed(p) /\ n = FileOf(p, n[3])

(* A step that leaves the publishers and the table of their processes alone, *)
(* and creates no file.                                                      *)
LEMMA SameBuffers ==
  ASSUME BufferInv, UNCHANGED <<fds, pubVars>>, files' \subseteq files
  PROVE  BufferInv'
  BY DEF BufferInv, Open, Listed, FileOf, pubVars

(* A process ends: its publishers are dead, and the others keep their table. *)
LEMMA EndsBuffers ==
  ASSUME TypeOK, BufferInv, NEW h \in Proc, NEW how, Ends(h, how), files' = files
  PROVE  BufferInv'
<1>1. ASSUME NEW p \in Pub, Host[p] # h PROVE pc'[p] = pc[p] /\ fds'[Host[p]] = fds[Host[p]]
  BY <1>1, HostAssumption DEF Ends, TypeOK
<1>2. ASSUME NEW p \in Pub, Host[p] = h PROVE pc'[p] = "dead" \/ (pc'[p] = pc[p] /\ pc[p] \in {"idle", "destroyed"})
  <2>1. pc'[p] = IF Host[p] = h /\ pc[p] \notin {"idle", "destroyed"} THEN "dead" ELSE pc[p]
    BY DEF Ends
  <2> QED
    BY <1>2, <2>1
<1>3. UNCHANGED <<index, allocated>>
  BY DEF Ends
<1>4. ASSUME NEW p \in Pub PROVE BufferOf(p)'
  <2>1. CASE Host[p] = h
    <3>1. Open(p)' = {}
      BY <1>2, <2>1 DEF Open
    <3> QED
      BY <3>1 DEF BufferOf
  <2>2. CASE Host[p] # h
    <3>1. Open(p)' = Open(p)
      BY <1>1, <1>3, <2>2 DEF Open
    <3> QED
      BY <1>1, <1>3, <2>2, <3>1 DEF BufferInv, BufferOf
  <2> QED
    BY <2>1, <2>2
<1>5. ASSUME NEW p \in Pub PROVE Listed(p) \subseteq Listed(p)'
  BY <1>1, <1>2, <1>3 DEF Listed
<1> QED
  BY <1>3, <1>4, <1>5 DEF BufferInv, BufferOf, FileOf

(* A step of publisher p changes only its own place, and the descriptors of  *)
(* the other publishers' buffers are not the one it opens or closes.         *)
LEMMA PublisherBuffers ==
  ASSUME TypeOK, \A q \in Pub : InLoop(q), BufferInv, NEW p \in Pub, BasePublisher(p)
  PROVE  BufferInv'
<1>1. Host \in [Pub -> Proc] /\ QueueSize \in Nat /\ InLoop(p) /\ index[p] \in 0 .. QueueSize
  BY HostAssumption, SizeAssumption DEF TypeOK
<1>2. ASSUME NEW q \in Pub, q # p
      PROVE  pc'[q] = pc[q] /\ index'[q] = index[q] /\ allocated'[q] = allocated[q]
  BY <1>2 DEF BasePublisher, Construct, Allocate, AllocateRaises, CreateFile, Destruct, CloseBuffer,
              RemoveFile, GoTo, TypeOK, pubVars
<1>3. ASSUME NEW q \in Pub, q # p PROVE Open(q)' = Open(q) /\ Listed(q)' = Listed(q)
  BY <1>2, <1>3 DEF Open, Listed
<1>4. ASSUME NEW q \in Pub, q # p, fds' = fds PROVE BufferOf(q)'
  BY <1>2, <1>3, <1>4 DEF BufferInv, BufferOf
<1>5. ASSUME fds' = fds, allocated' = allocated, Open(p)' \subseteq Open(p), Listed(p) \subseteq Listed(p)',
             files' \subseteq files
      PROVE  BufferInv'
  <2>1. BufferOf(p)'
    BY <1>5 DEF BufferInv, BufferOf
  <2>2. ASSUME NEW n \in files' PROVE OwnerOf(n)'
    BY <1>3, <1>5 DEF BufferInv, OwnerOf, FileOf
  <2> QED
    BY <1>4, <1>5, <2>1, <2>2 DEF BufferInv, BufferOf, OwnerOf
<1>6. CASE Construct(p)
  <2>1. Open(p)' \subseteq Open(p) /\ Listed(p) \subseteq Listed(p)'
    BY <1>1, <1>6 DEF Construct, GoTo, TypeOK, Open, Listed, InLoop, Number
  <2> QED
    BY <1>5, <1>6, <2>1 DEF Construct
<1>7. CASE AllocateRaises(p)
  BY <1>7, SameBuffers DEF AllocateRaises
<1>8. CASE Destruct(p)
  <2>1. Open(p)' \subseteq Open(p) /\ Listed(p) \subseteq Listed(p)'
    BY <1>1, <1>8 DEF Destruct, GoTo, TypeOK, Open, Listed, Number
  <2> QED
    BY <1>5, <1>8, <2>1 DEF Destruct
<1>9. CASE Allocate(p)
  <2>1. PICK fd \in Fd : /\ fds' = [fds EXCEPT ![Host[p]][fd] = <<p, index[p]>>]
                        /\ allocated' = [allocated EXCEPT ![p][index[p]] = fd]
                        /\ fds[Host[p]][fd] = Free
    BY <1>9 DEF Allocate, Lowest, FreeFds
  <2>2. /\ pc[p] = "allocate" /\ pc'[p] = "create_file" /\ index' = index /\ files' = files
        /\ index[p] \in Number
    BY <1>1, <1>9 DEF Allocate, At, GoTo, TypeOK, InLoop, Number
  <2>3. Listed(p)' = Listed(p) /\ Open(p)' = Open(p) \union {index[p]} /\ index[p] \notin Listed(p)
        /\ index[p] \notin Open(p)
    BY <1>1, <2>2 DEF Listed, Open, Number
  <2>4. ASSUME NEW q \in Pub, NEW i \in Open(q)
        PROVE  allocated[q][i] \in Fd /\ fds'[Host[q]][allocated[q][i]] = <<q, i>>
    <3>1. <<q, i>> \in Buffer /\ Host[q] \in Proc
      BY <1>1 DEF Open, Buffer
    <3>2. allocated[q][i] \in Fd /\ fds[Host[q]][allocated[q][i]] = <<q, i>> /\ <<q, i>> # Free
      BY <3>1, FreeAssumption DEF BufferInv
    <3> QED
      BY <1>1, <2>1, <3>1, <3>2 DEF TypeOK
  <2>5. ASSUME NEW q \in Pub, q # p PROVE BufferOf(q)'
    BY <1>2, <1>3, <2>4, <2>5 DEF BufferOf
  <2>6. BufferOf(p)'
    <3>1. allocated'[p][index[p]] = fd /\ fds'[Host[p]][fd] = <<p, index[p]>>
      BY <1>1, <2>1, <2>2 DEF TypeOK
    <3>2. ASSUME NEW i \in Open(p) PROVE allocated'[p][i] = allocated[p][i]
      BY <2>1, <2>3, <3>2 DEF TypeOK, Open
    <3> QED
      BY <2>3, <2>4, <3>1, <3>2 DEF BufferOf
  <2>7. ASSUME NEW n \in files' PROVE OwnerOf(n)'
    <3>1. PICK q \in Pub : n[3] \in Listed(q) /\ n = FileOf(q, n[3])
      BY <2>2, <2>7 DEF BufferInv
    <3>2. n[3] \in Listed(q)' /\ allocated'[q][n[3]] = allocated[q][n[3]]
      BY <1>2, <1>3, <2>1, <2>3, <3>1 DEF TypeOK, Listed
    <3> QED
      BY <3>1, <3>2 DEF OwnerOf, FileOf
  <2> QED
    BY <2>5, <2>6, <2>7 DEF BufferInv, BufferOf, OwnerOf
<1>10. CASE CreateFile(p)
  <2>1. /\ pc[p] = "create_file" /\ UNCHANGED <<fds, allocated>> /\ index'[p] = index[p] + 1
        /\ pc'[p] = (IF index[p] + 1 = QueueSize THEN "ready" ELSE "allocate")
        /\ files' \subseteq files \union {FileOf(p, index[p])} /\ index[p] \in Number
    BY <1>1, <1>10 DEF CreateFile, At, GoTo, TypeOK, InLoop, Number
  <2>2. Open(p)' \subseteq Open(p) /\ Listed(p) \subseteq Listed(p)' /\ index[p] \in Listed(p)'
    BY <1>1, <2>1 DEF Open, Listed, Number
  <2>3. ASSUME NEW n \in files' PROVE OwnerOf(n)'
    <3>1. CASE n \in files
      <4>1. PICK q \in Pub : n[3] \in Listed(q) /\ n = FileOf(q, n[3])
        BY <3>1 DEF BufferInv
      <4> QED
        BY <1>3, <2>1, <2>2, <4>1 DEF OwnerOf, FileOf
    <3>2. CASE n = FileOf(p, index[p])
      BY <2>1, <2>2, <3>2 DEF OwnerOf, FileOf
    <3> QED
      BY <2>1, <3>1, <3>2
  <2>4. BufferOf(p)'
    BY <2>1, <2>2 DEF BufferInv, BufferOf
  <2> QED
    BY <1>4, <2>1, <2>3, <2>4 DEF BufferInv, BufferOf, OwnerOf
<1>11. CASE CloseBuffer(p)
  <2>1. /\ pc[p] = "close" /\ pc'[p] = "remove_file" /\ UNCHANGED <<files, index, allocated>>
        /\ fds' = [fds EXCEPT ![Host[p]][allocated[p][index[p]]] = Free] /\ index[p] \in Number
    BY <1>1, <1>11 DEF CloseBuffer, At, GoTo, TypeOK, InLoop, Number
  <2>2. Listed(p)' = Listed(p) /\ Open(p)' = Open(p) \ {index[p]} /\ index[p] \in Open(p)
    BY <1>1, <2>1 DEF Listed, Open, Number
  <2>3. allocated[p][index[p]] \in Fd /\ fds[Host[p]][allocated[p][index[p]]] = <<p, index[p]>>
    BY <2>2 DEF BufferInv
  <2>4. ASSUME NEW q \in Pub, NEW i \in Open(q), <<q, i>> # <<p, index[p]>>
        PROVE  allocated[q][i] \in Fd /\ fds'[Host[q]][allocated[q][i]] = <<q, i>>
    <3>1. allocated[q][i] \in Fd /\ fds[Host[q]][allocated[q][i]] = <<q, i>> /\ Host[q] \in Proc
      BY <1>1 DEF BufferInv
    <3> QED
      BY <1>1, <2>1, <2>3, <2>4, <3>1 DEF TypeOK
  <2>5. ASSUME NEW q \in Pub PROVE BufferOf(q)'
    BY <1>3, <2>1, <2>2, <2>4 DEF BufferOf
  <2>6. ASSUME NEW n \in files' PROVE OwnerOf(n)'
    BY <1>3, <2>1, <2>2, <2>6 DEF BufferInv, OwnerOf, FileOf
  <2> QED
    BY <2>5, <2>6 DEF BufferInv, BufferOf, OwnerOf
<1>12. CASE RemoveFile(p)
  <2>1. /\ pc[p] = "remove_file" /\ UNCHANGED <<fds, allocated>> /\ index'[p] = index[p] + 1
        /\ pc'[p] = (IF index[p] + 1 = QueueSize THEN "destroyed" ELSE "close")
        /\ files' = files \ {FileOf(p, index[p])} /\ index[p] \in Number
    BY <1>1, <1>12 DEF RemoveFile, At, GoTo, TypeOK, InLoop, Number
  <2>2. Open(p)' \subseteq Open(p) /\ Listed(p) \ {index[p]} \subseteq Listed(p)'
    BY <1>1, <2>1 DEF Open, Listed, Number
  <2>3. ASSUME NEW n \in files' PROVE OwnerOf(n)'
    <3>1. PICK q \in Pub : n[3] \in Listed(q) /\ n = FileOf(q, n[3])
      BY <2>1, <2>3 DEF BufferInv
    <3>2. n[3] \in Listed(q)'
      BY <1>3, <2>1, <2>2, <2>3, <3>1
    <3> QED
      BY <2>1, <3>1, <3>2 DEF OwnerOf, FileOf
  <2>4. BufferOf(p)'
    BY <2>1, <2>2 DEF BufferInv, BufferOf
  <2> QED
    BY <1>4, <2>1, <2>3, <2>4 DEF BufferInv, BufferOf, OwnerOf
<1> QED
  BY <1>6, <1>7, <1>8, <1>9, <1>10, <1>11, <1>12 DEF BasePublisher

(* The descriptors and the files of every publisher agree with its loops.    *)
LEMMA BufferInvariant == Spec => []BufferInv
<1>1. Init => BufferInv
  BY DEF Init, BufferInv, Open
<1>2. LegacyInv /\ BufferInv /\ [Next]_vars => BufferInv'
  <2> SUFFICES ASSUME TypeOK, \A q \in Pub : InLoop(q), BufferInv, [Next]_vars PROVE BufferInv'
    BY DEF LegacyInv
  <2>1. ASSUME NEW h \in Proc, Process(h) PROVE BufferInv'
    <3>1. CASE Killed(h) \/ HandlerThrows(h) \/ HandlerExits(h)
      BY <3>1, EndsBuffers DEF Killed, HandlerThrows, HandlerExits
    <3>2. CASE ~(Killed(h) \/ HandlerThrows(h) \/ HandlerExits(h))
      BY <2>1, <3>2, SameBuffers DEF Process, Handler, Boot, InstallHandlers, InitFilesystem, Signal,
                                     RemoveNode, ListTopics, RemoveTopicFile
    <3> QED
      BY <3>1, <3>2
  <2>2. ASSUME NEW p \in Pub, BasePublisher(p) PROVE BufferInv'
    BY <2>2, PublisherBuffers
  <2>3. CASE UNCHANGED vars
    BY <2>3, SameBuffers DEF vars, pubVars
  <2> QED
    BY <2>1, <2>2, <2>3 DEF Next
<1> QED
  BY <1>1, <1>2, HandlerInvariant, PTL DEF Spec

(* A file names an open descriptor of its buffer, but in the destructor's    *)
(* gap and where its publisher died (_base_publisher.cpp:55-83).             *)
THEOREM FilesTheorem == Spec => []FilesDesignateBuffers
<1>1. LegacyInv /\ BufferInv => FilesDesignateBuffers
  <2> SUFFICES ASSUME TypeOK, BufferInv, NEW n \in files
               PROVE  \E p \in Pub : /\ n = FileOf(p, n[3])
                                   /\ \/ fds[n[1]][n[2]] = <<p, n[3]>>
                                      \/ pc[p] = "remove_file" /\ index[p] = n[3]
                                      \/ pc[p] = "dead"
    BY DEF LegacyInv, FilesDesignateBuffers
  <2>1. PICK p \in Pub : n[3] \in Listed(p) /\ n = FileOf(p, n[3])
    BY DEF BufferInv
  <2>2. n[1] = Host[p] /\ n[2] = allocated[p][n[3]]
    BY <2>1 DEF FileOf
  <2>3. n[3] \in Open(p) \/ pc[p] = "dead" \/ (pc[p] = "remove_file" /\ index[p] = n[3])
    <3>1. ASSUME NEW i \in Listed(p)
          PROVE  i \in Open(p) \/ pc[p] = "dead" \/ (pc[p] = "remove_file" /\ index[p] = i)
      <4>1. i \in Number /\ i \in Int /\ index[p] \in Int
        BY SizeAssumption DEF Listed, Number, TypeOK
      <4> QED
        BY <4>1 DEF Listed, Open
    <3> QED
      BY <2>1, <3>1
  <2> QED
    BY <2>1, <2>2, <2>3 DEF BufferInv
<1> QED
  BY <1>1, HandlerInvariant, BufferInvariant, PTL
=============================================================================
