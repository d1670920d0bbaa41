--------------------------- MODULE EventNotify_proof ---------------------------
(***************************************************************************)
(* The two descriptors that are waited for.  EventNotify, for any number of *)
(* threads that share an event: its count is the number of notify() calls  *)
(* in progress, so none of them ever waits, and no event is left behind.    *)
(* InotifyProxy, for any files and any number of events: each is printed    *)
(* once and in order, and no read of the directory waits.                   *)
(***************************************************************************)
EXTENDS EventNotify, InotifyProxy, FiniteSetTheorems, SequenceTheorems, TLAPS

USE NotifierAssumption DEF NotifierAssumption

(* The set the count is compared with, before and after a step of thread n.  *)
LEMMA RaisedFinite == IsFiniteSet(Raised)
<1>1. Raised \subseteq Notifier
  BY DEF Raised
<1> QED
  BY <1>1, FS_Subset

(* A write adds its thread to the calls in progress.                         *)
LEMMA WriteRaises ==
  ASSUME TypeOK, NEW n \in Notifier, Write(n)
  PROVE  Raised' = Raised \union {n} /\ n \notin Raised
  BY DEF TypeOK, Write, Raised

(* A read takes its thread out of them.                                      *)
LEMMA ReadLowers ==
  ASSUME TypeOK, NEW n \in Notifier, Read(n)
  PROVE  Raised' = Raised \ {n} /\ n \in Raised
  BY DEF TypeOK, Read, Raised

CountInv == TypeOK /\ CountsRaised

(* The count and its types hold in every reachable state.                    *)
LEMMA CountInvariant == Spec => []CountInv
<1>1. Init => CountInv
  <2> SUFFICES ASSUME Init PROVE CountInv
    OBVIOUS
  <2>1. Raised = {}
    BY DEF Init, Raised
  <2>2. Cardinality(Raised) = 0
    BY <2>1, FS_EmptySet
  <2> QED
    BY <2>2 DEF Init, CountInv, TypeOK, CountsRaised
<1>2. CountInv /\ [Next]_vars => CountInv'
  <2> SUFFICES ASSUME CountInv, [Next]_vars PROVE CountInv'
    OBVIOUS
  <2> USE DEF CountInv
  <2>1. ASSUME NEW n \in Notifier, Write(n) PROVE CountInv'
    <3>1. Cardinality(Raised') = Cardinality(Raised) + 1
      BY <2>1, WriteRaises, RaisedFinite, FS_AddElement
    <3>2. CountsRaised'
      BY <2>1, <3>1 DEF Write, CountsRaised
    <3>3. TypeOK'
      BY <2>1 DEF Write, TypeOK
    <3> QED
      BY <3>2, <3>3
  <2>2. ASSUME NEW n \in Notifier, Read(n) PROVE CountInv'
    <3>1. Cardinality(Raised') = Cardinality(Raised) - 1
      BY <2>2, ReadLowers, RaisedFinite, FS_RemoveElement
    <3>2. CountsRaised'
      BY <2>2, <3>1 DEF Read, CountsRaised
    <3>3. TypeOK'
      BY <2>2 DEF Read, TypeOK
    <3> QED
      BY <3>2, <3>3
  <2>3. ASSUME NEW n \in Notifier, Killed(n) PROVE CountInv'
    <3>1. Raised' = Raised
      BY <2>3 DEF Killed, Raised, TypeOK
    <3> QED
      BY <2>3, <3>1 DEF Killed, TypeOK, CountsRaised
  <2>4. ASSUME NEW w \in Waiter, EpollWait(w) \/ WaitAgain(w) PROVE CountInv'
    BY <2>4 DEF EpollWait, WaitAgain, TypeOK, CountsRaised, Raised
  <2>5. CASE UNCHANGED vars
    BY <2>5 DEF vars, TypeOK, CountsRaised, Raised
  <2> QED
    BY <2>1, <2>2, <2>3, <2>4, <2>5 DEF Next
<1> QED
  BY <1>1, <1>2, PTL DEF Spec

(* The count never falls below 0, whichever thread is killed where.          *)
THEOREM TypeCorrect == Spec => []TypeOK
  BY CountInvariant, PTL DEF CountInv

(* The eventfd's count is the number of calls between write and read, for    *)
(* any finite set of threads (event.cpp:20-25).                              *)
THEOREM CountExact == Spec => []CountsRaised
  BY CountInvariant, PTL DEF CountInv

(* The count is positive while a call is in progress.                        *)
LEMMA RaisedPositive ==
  ASSUME CountInv, opened, Raised # {}
  PROVE  counter > 0
<1>1. Cardinality(Raised) \in Nat /\ Cardinality(Raised) # 0
  BY RaisedFinite, FS_CardinalityType, FS_EmptySet
<1> QED
  BY <1>1 DEF CountInv, TypeOK, CountsRaised

(* The read of notify() never blocks (event.cpp:24), whatever other threads  *)
(* do with the same eventfd through notify().                                *)
THEOREM NotifyNeverBlocks == Spec => []ReadNeverBlocks
<1>1. CountInv => ReadNeverBlocks
  BY RaisedPositive DEF ReadNeverBlocks, Raised
<1> QED
  BY <1>1, CountInvariant, PTL

(* A waiter is woken only while some notify() is between write and read, or  *)
(* was killed there.                                                         *)
THEOREM NoSpuriousWakeup == Spec => WokenOnlyWhileRaised
<1>1. CountInv /\ [Next]_vars
        => [\A w \in Waiter : w \notin woken /\ w \in woken' => Raised # {}]_vars
  <2> SUFFICES ASSUME CountInv, Next, NEW w \in Waiter, w \notin woken, w \in woken'
               PROVE  Raised # {}
    OBVIOUS
  <2>1. counter > 0
    BY DEF Next, Write, Read, Killed, EpollWait, WaitAgain
  <2> QED
    <3> SUFFICES ASSUME Raised = {} PROVE FALSE
      OBVIOUS
    <3>1. Cardinality(Raised) = 0
      BY FS_EmptySet
    <3> QED
      BY <2>1, <3>1 DEF CountInv, TypeOK, CountsRaised
<1> QED
  BY <1>1, CountInvariant, PTL DEF Spec, WokenOnlyWhileRaised

-----------------------------------------------------------------------------
(* The watched directory. *)

(* What read() takes and leaves is what was queued.                          *)
LEMMA TakenAndLeft ==
  ASSUME NEW S, NEW s \in Seq(S), NEW t \in 0 .. Len(s)
  PROVE  /\ SubSeq(s, 1, t) \in Seq(S) /\ SubSeq(s, t + 1, Len(s)) \in Seq(S)
         /\ SubSeq(s, 1, t) \o SubSeq(s, t + 1, Len(s)) = s
<1>1. Len(s) \in Nat /\ 1 \in 1 .. Len(s) + 1 /\ t \in 1 - 1 .. Len(s) /\ Len(s) \in t .. Len(s)
  OBVIOUS
<1>2. SubSeq(s, 1, t) \o SubSeq(s, t + 1, Len(s)) = SubSeq(s, 1, Len(s))
  BY <1>1, ConcatAdjacentSubSeq
<1>3. SubSeq(s, 1, Len(s)) = s
  BY SubSeqFull
<1>4. SubSeq(s, 1, t) \in Seq(S) /\ SubSeq(s, t + 1, Len(s)) \in Seq(S)
  OBVIOUS
<1> QED
  BY <1>2, <1>3, <1>4, Zenon

(* The event that the loop prints comes first of those it has not passed.    *)
LEMMA FirstMoved ==
  ASSUME NEW S, NEW p \in Seq(S), NEW b \in Seq(S), b # <<>>
  PROVE  /\ Append(p, Head(b)) \in Seq(S) /\ Tail(b) \in Seq(S)
         /\ Append(p, Head(b)) \o Tail(b) = p \o b
<1>1. Head(b) \in S /\ Tail(b) \in Seq(S) /\ Len(b) \in Nat \ {0}
  BY EmptySeq, HeadTailProperties
<1>2. <<Head(b)>> \o Tail(b) = b
  <2>1. SubSeq(b, 1, Len(b)) = <<b[1]>> \o SubSeq(b, 2, Len(b))
    <3>1. 1 \in 1 .. Len(b) /\ Len(b) \in 1 .. Len(b) /\ 1 + 1 = 2
      BY <1>1
    <3> QED
      BY <3>1, SubSeqRecursiveFirst
  <2>2. SubSeq(b, 1, Len(b)) = b /\ Tail(b) = SubSeq(b, 2, Len(b)) /\ Head(b) = b[1]
    BY SubSeqFull, TailIsSubSeq
  <2> QED
    BY <2>1, <2>2
<1> DEFINE one == <<Head(b)>>
<1> DEFINE rest == Tail(b)
<1>3. p \in Seq(S) /\ one \in Seq(S) /\ rest \in Seq(S)
  BY <1>1
<1>4. Append(p, Head(b)) = p \o one /\ one \o rest = b
  BY <1>1, <1>2, AppendIsConcat
<1> HIDE DEF one, rest
<1>6. (p \o one) \o rest = p \o (one \o rest)
  BY <1>3, ConcatAssociative
<1>5. Append(p, Head(b)) \in Seq(S)
  BY <1>1, AppendProperties
<1> QED
  BY <1>1, <1>4, <1>5, <1>6, Zenon DEF rest

LEMMA ProxyStart == ProxyInit => ProxyInv
<1> SUFFICES ASSUME ProxyInit PROVE ProxyInv
  OBVIOUS
<1>1. <<>> \in Seq(Event) /\ <<>> \o <<>> \o <<>> = <<>>
  BY EmptySeq, ConcatEmptySeq
<1>2. QueueInv /\ ReadNeverWaits
  BY <1>1 DEF ProxyInit, QueueInv, ReadNeverWaits
<1>3. happened = printed \o buffer \o queue
  BY <1>1, Zenon DEF ProxyInit
<1>4. 1 .. Len(happened) = {}
  BY DEF ProxyInit
<1> QED
  BY <1>2, <1>3, <1>4, Zenon DEF ProxyInv, EachEventOnce

(* A change of a file adds its event at the end, and the file is as the      *)
(* event says.                                                               *)
LEMMA ChangeStep ==
  ASSUME ProxyInv, NEW f \in Files, Change(f)
  PROVE  ProxyInv'
<1> DEFINE event == [mask |-> IF f \in present THEN "IN_DELETE" ELSE "IN_CREATE", name |-> f]
           past == printed \o buffer
<1>1. /\ present' = IF f \in present THEN present \ {f} ELSE present \union {f}
      /\ happened' = IF watched THEN Append(happened, event) ELSE happened
      /\ queue' = IF watched THEN Append(queue, event) ELSE queue
      /\ UNCHANGED <<watched, pc, room, buffer, printed>>
  BY DEF Change
<1>2. event \in Event /\ event.name = f /\ (event.mask = "IN_CREATE" <=> f \notin present)
  BY DEF Event
<1>3. /\ happened \in Seq(Event) /\ queue \in Seq(Event) /\ buffer \in Seq(Event) /\ printed \in Seq(Event)
      /\ room \in Nat /\ past \in Seq(Event) /\ happened = past \o queue
  BY ConcatProperties DEF ProxyInv, QueueInv, EachEventOnce
<1> HIDE DEF event, past
<1>4. /\ Append(happened, event) \in Seq(Event) /\ Append(queue, event) \in Seq(Event)
      /\ Len(Append(queue, event)) = Len(queue) + 1
      /\ Len(Append(happened, event)) = Len(happened) + 1
      /\ \A k \in 1 .. Len(happened) : Append(happened, event)[k] = happened[k]
      /\ Append(happened, event)[Len(happened) + 1] = event
  BY <1>2, <1>3, AppendProperties
<1>5. Append(happened, event) = past \o Append(queue, event)
  <2> DEFINE one == <<event>>
  <2>1. Append(queue, event) = queue \o one /\ Append(happened, event) = happened \o one
    BY <1>2, <1>3, AppendIsConcat
  <2>2. past \in Seq(Event) /\ queue \in Seq(Event) /\ one \in Seq(Event)
    BY <1>2, <1>3
  <2> HIDE DEF one
  <2>3. (past \o queue) \o one = past \o (queue \o one)
    BY <2>2, ConcatAssociative
  <2> QED
    BY <1>3, <2>1, <2>3, Zenon
<1>6. QueueInv'
  BY <1>1, <1>4 DEF ProxyInv, QueueInv
<1>7. happened' = printed' \o buffer' \o queue'
  BY <1>1, <1>3, <1>5 DEF past
<1>8. ASSUME NEW g \in Files, NEW k \in 1 .. Len(happened'), LastOf(g, k)'
      PROVE  g \in present' <=> happened'[k].mask = "IN_CREATE"
  <2>1. watched
    BY <1>1 DEF ProxyInv, QueueInv
  <2>2. happened' = Append(happened, event) /\ k \in 1 .. Len(happened) + 1 /\ Len(happened) \in Nat
    BY <1>1, <1>3, <1>4, <2>1
  <2>3. happened'[k].name = g /\ \A l \in k + 1 .. Len(happened') : happened'[l].name # g
    BY <1>8 DEF LastOf
  <2>4. CASE k = Len(happened) + 1
    BY <1>1, <1>2, <1>4, <2>2, <2>3, <2>4
  <2>5. CASE k \in 1 .. Len(happened)
    <3>1. g # f
      <4>1. Len(happened) + 1 \in k + 1 .. Len(happened')
        BY <1>4, <2>2, <2>5
      <4> QED
        BY <1>2, <1>4, <2>2, <2>3, <4>1
    <3>2. LastOf(g, k)
      <4>1. \A l \in k + 1 .. Len(happened) : l \in k + 1 .. Len(happened') /\ l \in 1 .. Len(happened)
        BY <1>4, <2>2, <2>5
      <4> QED
        BY <1>4, <2>2, <2>3, <2>5, <4>1 DEF LastOf
    <3>3. g \in present <=> happened[k].mask = "IN_CREATE"
      BY <2>5, <3>2 DEF ProxyInv, EachEventOnce
    <3> QED
      BY <1>1, <1>4, <2>2, <2>5, <3>1, <3>3
  <2> QED
    BY <2>2, <2>4, <2>5
<1>9. ReadNeverWaits'
  BY <1>1, <1>3, <1>4 DEF ProxyInv, ReadNeverWaits
<1> QED
  BY <1>6, <1>7, <1>8, <1>9 DEF ProxyInv, EachEventOnce

(* A step of the script leaves the history alone.                            *)
LEMMA ScriptKeeps ==
  ASSUME ProxyInv, happened' = happened, present' = present,
         printed' \o buffer' \o queue' = printed \o buffer \o queue
  PROVE  EachEventOnce'
  BY DEF ProxyInv, EachEventOnce, LastOf

LEMMA ScriptStep ==
  ASSUME ProxyInv, Script
  PROVE  ProxyInv'
<1>1. /\ happened \in Seq(Event) /\ queue \in Seq(Event) /\ buffer \in Seq(Event) /\ printed \in Seq(Event)
      /\ room \in Nat /\ Len(queue) \in Nat /\ (queue # <<>> => Len(queue) > 0)
  BY EmptySeq, LenProperties DEF ProxyInv, QueueInv
<1>2. CASE inotify_add_watch \/ poll \/ Count
  <2>1. /\ UNCHANGED <<present, happened, queue, buffer, printed>>
        /\ watched' = IF pc = "watch" THEN TRUE ELSE watched
        /\ pc # "walk" /\ room' \in Nat
        /\ pc' = "read" => room' = Len(queue) /\ queue # <<>>
    BY <1>1, <1>2 DEF inotify_add_watch, poll, Count
  <2>2. QueueInv'
    BY <1>1, <2>1 DEF ProxyInv, QueueInv
  <2>3. ReadNeverWaits'
    BY <1>1, <2>1 DEF ReadNeverWaits
  <2> QED
    BY <2>1, <2>2, <2>3, ScriptKeeps DEF ProxyInv
<1>3. CASE read
  <2> DEFINE taken == IF room < Len(queue) THEN room ELSE Len(queue)
             got == SubSeq(queue, 1, taken)
             left == SubSeq(queue, taken + 1, Len(queue))
  <2>1. /\ pc = "read" /\ pc' = "walk" /\ buffer' = got /\ queue' = left
        /\ UNCHANGED <<present, watched, happened, room, printed>>
    BY <1>3 DEF read
  <2>2. taken \in 0 .. Len(queue)
    BY <1>1
  <2> HIDE DEF taken
  <2>3. got \in Seq(Event) /\ left \in Seq(Event) /\ got \o left = queue
    BY <1>1, <2>2, TakenAndLeft, Zenon
  <2>4. watched
    BY <2>1, <1>3, EmptySeq DEF read, ProxyInv, QueueInv
  <2>5. buffer = <<>>
    BY <2>1 DEF ProxyInv, QueueInv
  <2> HIDE DEF got, left
  <2>6. (printed \o got) \o left = (printed \o buffer) \o queue
    <3>1. (printed \o got) \o left = printed \o (got \o left)
      <4>1. printed \in Seq(Event) /\ got \in Seq(Event) /\ left \in Seq(Event)
        BY <1>1, <2>3
      <4> QED
        BY <4>1, ConcatAssociative
    <3>2. printed \o buffer = printed
      BY <1>1, <2>5, ConcatEmptySeq
    <3> QED
      BY <2>3, <3>1, <3>2, Zenon
  <2>7. QueueInv' /\ ReadNeverWaits'
    BY <2>1, <2>3, <2>4 DEF ProxyInv, QueueInv, ReadNeverWaits
  <2> QED
    BY <2>1, <2>6, <2>7, ScriptKeeps DEF ProxyInv
<1>4. CASE Walk
  <2>1. /\ pc = "walk" /\ pc' \in {"walk", "poll"} /\ UNCHANGED <<present, watched, happened, queue, room>>
        /\ \/ buffer = <<>> /\ pc' = "poll" /\ UNCHANGED <<buffer, printed>>
           \/ /\ buffer # <<>> /\ pc' = pc
              /\ buffer' = Tail(buffer) /\ printed' = Append(printed, Head(buffer))
    BY <1>4 DEF Walk
  <2>2. buffer' \in Seq(Event) /\ printed' \in Seq(Event) /\ printed' \o buffer' = printed \o buffer
    <3>1. CASE buffer # <<>>
      <4>1. Append(printed, Head(buffer)) \o Tail(buffer) = printed \o buffer
        BY <1>1, <3>1, FirstMoved, Zenon
      <4>2. Append(printed, Head(buffer)) \in Seq(Event) /\ Tail(buffer) \in Seq(Event)
        BY <1>1, <3>1, FirstMoved, Zenon
      <4> QED
        BY <2>1, <3>1, <4>1, <4>2, Zenon
    <3>2. CASE buffer = <<>>
      BY <1>1, <2>1, <3>2, Zenon
    <3> QED
      BY <3>1, <3>2
  <2>3. QueueInv' /\ ReadNeverWaits'
    BY <2>1, <2>2 DEF ProxyInv, QueueInv, ReadNeverWaits
  <2> QED
    BY <2>1, <2>2, <2>3, ScriptKeeps DEF ProxyInv
<1> QED
  BY <1>2, <1>3, <1>4 DEF Script

THEOREM ProxyInvariant == ProxySpec => []ProxyInv
<1>1. ProxyInit => ProxyInv
  BY ProxyStart
<1>2. ProxyInv /\ [ProxyNext]_proxyVars => ProxyInv'
  <2> SUFFICES ASSUME ProxyInv, [ProxyNext]_proxyVars PROVE ProxyInv'
    OBVIOUS
  <2>1. CASE UNCHANGED proxyVars
    <3>1. QueueInv' /\ ReadNeverWaits'
      BY <2>1 DEF proxyVars, ProxyInv, QueueInv, ReadNeverWaits
    <3> QED
      BY <2>1, <3>1, ScriptKeeps DEF proxyVars, ProxyInv
  <2> QED
    BY <2>1, ScriptStep, ChangeStep DEF ProxyNext
<1> QED
  BY <1>1, <1>2, PTL DEF ProxySpec

(* For any files and any number of events: each is printed once and in       *)
(* order, and the files are those the events leave.                          *)
THEOREM EventsTheorem == ProxySpec => []EachEventOnce
<1>1. ProxyInv => EachEventOnce
  BY DEF ProxyInv
<1> QED
  BY <1>1, ProxyInvariant, PTL

(* The script is never stuck in a read() of the directory.                   *)
THEOREM ReadTheorem == ProxySpec => []ReadNeverWaits
<1>1. ProxyInv => ReadNeverWaits
  BY DEF ProxyInv
<1> QED
  BY <1>1, ProxyInvariant, PTL
=============================================================================
