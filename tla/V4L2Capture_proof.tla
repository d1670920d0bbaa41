-------------------------- MODULE V4L2Capture_proof ---------------------------
(***************************************************************************)
(* Proofs about V4L2Capture: no buffer of the capture loop is lost or in    *)
(* two places, the loop implements BufferRing, and on a coherent machine   *)
(* it shows the frame it dequeued.                                         *)
(***************************************************************************)
EXTENDS V4L2Capture, TLAPS

Distinct(s) == \A j, k \in DOMAIN s : s[j] = s[k] => j = k

(* What is left when the oldest buffer is taken from a list without repeats. *)
LEMMA TailSet ==
  ASSUME NEW S, NEW s \in Seq(S), s # <<>>, Distinct(s)
  PROVE  /\ Tail(s) \in Seq(S) /\ Head(s) \in S
         /\ Distinct(Tail(s))
         /\ ToSet(s) = ToSet(Tail(s)) \union {Head(s)}
         /\ Head(s) \notin ToSet(Tail(s))
<1>1. /\ Len(s) \in Nat /\ Len(s) > 0 /\ DOMAIN s = 1 .. Len(s) /\ Head(s) = s[1]
      /\ Tail(s) \in Seq(S) /\ Head(s) \in S /\ Len(Tail(s)) = Len(s) - 1
      /\ DOMAIN Tail(s) = 1 .. Len(s) - 1
      /\ \A k \in 1 .. Len(s) - 1 : Tail(s)[k] = s[k + 1]
  OBVIOUS
<1>2. Distinct(Tail(s))
  BY <1>1, SMT DEF Distinct
<1>3. Head(s) \notin ToSet(Tail(s))
  BY <1>1, SMT DEF Distinct, ToSet
<1>4. ToSet(s) = ToSet(Tail(s)) \union {Head(s)}
  <2>1. ASSUME NEW e \in ToSet(s) PROVE e \in ToSet(Tail(s)) \union {Head(s)}
    <3>1. PICK k \in 1 .. Len(s) : e = s[k]
      BY <1>1, <2>1 DEF ToSet
    <3>2. k = 1 \/ (k - 1 \in 1 .. Len(s) - 1 /\ e = Tail(s)[k - 1])
      BY <1>1, <3>1
    <3> QED
      BY <1>1, <3>1, <3>2 DEF ToSet
  <2>2. ToSet(Tail(s)) \subseteq ToSet(s)
    BY <1>1, SMT DEF ToSet
  <2>3. Head(s) \in ToSet(s)
    BY <1>1, SMT DEF ToSet
  <2> QED
    BY <2>1, <2>2, <2>3
<1> QED
  BY <1>1, <1>2, <1>3, <1>4

(* A buffer that was not in the list is appended to it.                      *)
LEMMA AppendSet ==
  ASSUME NEW S, NEW s \in Seq(S), NEW e \in S
  PROVE  /\ Append(s, e) \in Seq(S)
         /\ ToSet(Append(s, e)) = ToSet(s) \union {e}
         /\ Distinct(s) /\ e \notin ToSet(s) => Distinct(Append(s, e))
<1> DEFINE t == Append(s, e)
<1>1. /\ Len(s) \in Nat /\ DOMAIN s = 1 .. Len(s) /\ t \in Seq(S)
      /\ DOMAIN t = 1 .. Len(s) + 1 /\ t[Len(s) + 1] = e
      /\ \A k \in 1 .. Len(s) : t[k] = s[k]
  OBVIOUS
<1>2. ToSet(t) = ToSet(s) \union {e}
  <2>1. ToSet(s) \subseteq ToSet(t)
    BY <1>1, SMT DEF ToSet
  <2>2. e \in ToSet(t)
    BY <1>1, SMT DEF ToSet
  <2>3. \A k \in 1 .. Len(s) + 1 : t[k] \in ToSet(s) \union {e}
    BY <1>1, SMT DEF ToSet
  <2>4. ToSet(t) \subseteq ToSet(s) \union {e}
    BY <1>1, <2>3 DEF ToSet
  <2> QED
    BY <2>1, <2>2, <2>4
<1>3. ASSUME Distinct(s), e \notin ToSet(s) PROVE Distinct(t)
  BY <1>1, <1>3, SMT DEF Distinct, ToSet
<1> QED
  BY <1>1, <1>2, <1>3

(* The empty list.                                                           *)
LEMMA EmptyList == ToSet(<<>>) = {} /\ Distinct(<<>>)
  BY DEF ToSet, Distinct

(* The program starts with no buffer anywhere.                               *)
LEMMA InitInv == Init => CaptureInv
<1> SUFFICES ASSUME Init PROVE CaptureInv
  OBVIOUS
<1>1. 0 \in Buffers
  BY NumBuffersAssumption DEF Buffers
<1>2. TypeOK
  BY <1>1 DEF Init, TypeOK
<1>3. EachBufferInOnePlace
  BY EmptyList DEF Init, EachBufferInOnePlace, Held
<1>4. SetupInv
  BY DEF Init, SetupInv
<1> QED
  BY <1>2, <1>3, <1>4 DEF CaptureInv

(* A step of the set-up: the camera holds the buffers the loop has reached.  *)
LEMMA SetupStep == CaptureInv /\ Setup => CaptureInv'
<1> SUFFICES ASSUME CaptureInv, Setup PROVE CaptureInv'
  OBVIOUS
<1> USE DEF CaptureInv
<1>1. CASE parse_arguments \/ open_video_device \/ dmabuf_heap_open
  BY <1>1 DEF parse_arguments, open_video_device, dmabuf_heap_open, camera, TypeOK,
     EachBufferInOnePlace, SetupInv, Held
<1>2. CASE AllocateBuffer
  <2>1. i' \in Buffers /\ pc' \in {"alloc", "queue"} /\ (pc' = "queue" => i' = 0)
    BY <1>2, NumBuffersAssumption, SMT DEF AllocateBuffer, TypeOK, Buffers
  <2>2. 0 .. 0 - 1 = {}
    BY SMT
  <2> QED
    BY <1>2, <2>1, <2>2 DEF AllocateBuffer, camera, TypeOK, EachBufferInOnePlace, SetupInv, Held
<1>3. CASE QueueBuffer
  <2>1. /\ pc = "queue" /\ queued = 0 .. i - 1 /\ queued' = queued \union {i}
        /\ dma = {} /\ done = <<>> /\ UNCHANGED <<dma, done, mem, frame, buf_index>>
    BY <1>3 DEF QueueBuffer, Enqueue, SetupInv
  <2>2. /\ i' \in Buffers /\ pc' \in {"queue", "streamon"}
        /\ pc' = "queue" => queued' = 0 .. i' - 1
        /\ pc' = "streamon" => queued' = Buffers
        /\ queued' \subseteq Buffers
    BY <1>3, <2>1, NumBuffersAssumption, SMT DEF QueueBuffer, TypeOK, Buffers
  <2> QED
    BY <2>1, <2>2, EmptyList DEF TypeOK, EachBufferInOnePlace, SetupInv, Held
<1>4. CASE StreamOn
  BY <1>4 DEF StreamOn, camera, TypeOK, EachBufferInOnePlace, SetupInv, Held
<1> QED
  BY <1>1, <1>2, <1>3, <1>4 DEF Setup

(* A step of the loop: a buffer goes from the list to the loop and back.     *)
LEMMA LoopStep == CaptureInv /\ Loop => CaptureInv'
<1> SUFFICES ASSUME CaptureInv, Loop PROVE CaptureInv'
  OBVIOUS
<1> USE DEF CaptureInv
<1>0. Distinct(done) /\ done \in Seq(Buffers)
  BY DEF EachBufferInOnePlace, Distinct, TypeOK
<1>1. CASE Dequeue
  <2>1. /\ pc = "poll" /\ pc' = "show" /\ buf_index' = Head(done) /\ done' = Tail(done)
        /\ UNCHANGED <<i, queued, dma>> /\ done # <<>>
    BY <1>1 DEF Dequeue
  <2>2. /\ done' \in Seq(Buffers) /\ buf_index' \in Buffers /\ Distinct(done')
        /\ ToSet(done) = ToSet(done') \union {buf_index'} /\ buf_index' \notin ToSet(done')
    BY <1>0, <2>1, TailSet
  <2>3. TypeOK'
    BY <2>1, <2>2 DEF TypeOK
  <2>4. EachBufferInOnePlace'
    <3>1. Held = {} /\ Held' = {buf_index'}
      BY <2>1 DEF Held
    <3>2. ToSet(done) \intersect (queued \union dma) = {} /\ queued \union dma \union ToSet(done) = Buffers
      BY <2>1, <3>1 DEF EachBufferInOnePlace
    <3> QED
      BY <2>1, <2>2, <3>1, <3>2 DEF EachBufferInOnePlace, Distinct
  <2> QED
    BY <2>1, <2>3, <2>4 DEF SetupInv
<1>2. CASE Show
  BY <1>2 DEF Show, camera, TypeOK, EachBufferInOnePlace, SetupInv, Held
<1>3. CASE Requeue
  <2>1. /\ pc = "requeue" /\ pc' = "poll" /\ queued' = queued \union {buf_index}
        /\ buf_index' = 0 /\ 0 \in Buffers /\ UNCHANGED <<i, dma, done>>
    BY <1>3, NumBuffersAssumption DEF Requeue, Enqueue, Buffers
  <2>2. TypeOK'
    BY <2>1 DEF TypeOK
  <2>3. EachBufferInOnePlace'
    <3>1. Held = {buf_index} /\ Held' = {}
      BY <2>1 DEF Held
    <3> QED
      BY <2>1, <3>1 DEF EachBufferInOnePlace
  <2> QED
    BY <2>1, <2>2, <2>3 DEF SetupInv
<1> QED
  BY <1>1, <1>2, <1>3 DEF Loop

(* The camera moves a buffer from the driver's to its own and to the list.   *)
LEMMA CameraStep == CaptureInv /\ Camera => CaptureInv'
<1> SUFFICES ASSUME CaptureInv, Camera PROVE CaptureInv'
  OBVIOUS
<1> USE DEF CaptureInv
<1>1. CASE BeginFrame
  <2>1. PICK b \in queued : queued' = queued \ {b} /\ dma' = {b}
    BY <1>1 DEF BeginFrame
  <2>2. pc \in {"poll", "show", "requeue"} /\ dma = {} /\ UNCHANGED <<main, done>>
    BY <1>1 DEF BeginFrame
  <2> QED
    BY <2>1, <2>2 DEF main, TypeOK, EachBufferInOnePlace, SetupInv, Held
<1>2. CASE EndFrame
  <2>1. PICK b \in dma : done' = Append(done, b)
    BY <1>2 DEF EndFrame
  <2>2. dma' = {} /\ dma = {b} /\ UNCHANGED <<main, queued>> /\ b \in Buffers
    BY <1>2, <2>1 DEF EndFrame, SetupInv, TypeOK
  <2>3. b \notin ToSet(done) /\ Distinct(done) /\ done \in Seq(Buffers)
    BY <2>1 DEF EachBufferInOnePlace, Distinct, TypeOK
  <2>4. done' \in Seq(Buffers) /\ Distinct(done') /\ ToSet(done') = ToSet(done) \union {b}
    BY <2>1, <2>2, <2>3, AppendSet
  <2>5. pc = pc' /\ i = i' /\ buf_index = buf_index'
    BY <2>2 DEF main
  <2>6. EachBufferInOnePlace'
    BY <2>2, <2>3, <2>4, <2>5 DEF EachBufferInOnePlace, Held, Distinct
  <2>7. SetupInv'
    BY <2>1, <2>2, <2>5 DEF SetupInv
  <2> QED
    BY <2>2, <2>4, <2>5, <2>6, <2>7 DEF TypeOK
<1> QED
  BY <1>1, <1>2 DEF Camera

(* However the program ends, the camera has nothing any more.                *)
LEMMA StopStep == CaptureInv /\ Stop => CaptureInv'
<1> SUFFICES ASSUME CaptureInv, Stop PROVE CaptureInv'
  OBVIOUS
<1>1. /\ pc' = "stopped" /\ queued' = {} /\ dma' = {} /\ done' = <<>>
      /\ UNCHANGED <<i, buf_index>>
  BY DEF Stop
<1> QED
  BY <1>1, EmptyList DEF CaptureInv, TypeOK, EachBufferInOnePlace, SetupInv, Held

(* The inductive invariant holds in every behaviour of the capture program.  *)
THEOREM CaptureInvariant == Spec => []CaptureInv
<1>1. CaptureInv /\ [Next]_vars => CaptureInv'
  <2>1. CaptureInv /\ UNCHANGED vars => CaptureInv'
    BY DEF vars, main, camera, CaptureInv, TypeOK, EachBufferInOnePlace, SetupInv, Held
  <2> QED
    BY <2>1, SetupStep, LoopStep, CameraStep, StopStep DEF Next
<1> QED
  BY InitInv, <1>1, PTL DEF Spec

(* No loop of main() goes past the buffers there are (dmabuf-v4l2.c:349-394).*)
THEOREM TypeCorrect == Spec => []TypeOK
  BY CaptureInvariant, PTL DEF CaptureInv

(* No buffer is ever in two places and none is lost, for any number of them. *)
THEOREM OnePlaceTheorem == Spec => []EachBufferInOnePlace
<1>1. CaptureInv => EachBufferInOnePlace
  BY DEF CaptureInv
<1> QED
  BY CaptureInvariant, <1>1, PTL

-------------------------------------------------------------------------------
(* A step that leaves every buffer where it is maps to a stuttering step.    *)
LEMMA SamePlaces ==
  ASSUME UNCHANGED <<queued, dma, done>>, pc # "show", pc' # "show"
  PROVE  UNCHANGED <<RingHolder, done>>
  BY DEF RingHolder

(* Set-up hands buffers to the driver and does nothing else to the ring.     *)
LEMMA SetupRefines == CaptureInv /\ Setup => [Ring!Next]_<<RingHolder, done>>
<1> SUFFICES ASSUME CaptureInv, Setup PROVE [Ring!Next]_<<RingHolder, done>>
  OBVIOUS
<1>1. CASE parse_arguments \/ open_video_device \/ dmabuf_heap_open \/ AllocateBuffer \/ StreamOn
  BY <1>1, SamePlaces DEF parse_arguments, open_video_device, dmabuf_heap_open, AllocateBuffer, StreamOn, camera
<1>2. CASE QueueBuffer
  <2>1. /\ pc = "queue" /\ pc' # "show" /\ queued = 0 .. i - 1 /\ queued' = queued \union {i}
        /\ dma = {} /\ done = <<>> /\ dma' = {} /\ done' = <<>> /\ i \in Buffers
    BY <1>2 DEF QueueBuffer, Enqueue, SetupInv, CaptureInv, TypeOK
  <2>2. i \notin queued
    BY <2>1, SMT DEF Buffers
  <2>3. RingHolder[i] = "free"
    BY <2>1, <2>2, EmptyList DEF RingHolder
  <2>4. RingHolder' = [RingHolder EXCEPT ![i] = "producer"]
    BY <2>1, EmptyList DEF RingHolder
  <2>5. Ring!Grant(i)
    BY <2>1, <2>3, <2>4 DEF Ring!Grant
  <2> QED
    BY <2>1, <2>5 DEF Ring!Next
<1> QED
  BY <1>1, <1>2 DEF Setup

(* The loop takes the oldest frame, lets go of it, and hands the buffer back. *)
LEMMA LoopRefines == CaptureInv /\ Loop => [Ring!Next]_<<RingHolder, done>>
<1> SUFFICES ASSUME CaptureInv, Loop PROVE [Ring!Next]_<<RingHolder, done>>
  OBVIOUS
<1>0. /\ Distinct(done) /\ done \in Seq(Buffers) /\ buf_index \in Buffers
      /\ Held \intersect (queued \union dma \union ToSet(done)) = {}
  BY DEF CaptureInv, EachBufferInOnePlace, Distinct, TypeOK
<1>1. CASE Dequeue
  <2>1. /\ pc = "poll" /\ pc' = "show" /\ buf_index' = Head(done) /\ done' = Tail(done)
        /\ UNCHANGED <<queued, dma>> /\ done # <<>>
    BY <1>1 DEF Dequeue
  <2>2. ToSet(done) = ToSet(done') \union {Head(done)} /\ Head(done) \notin ToSet(done')
    BY <1>0, <2>1, TailSet
  <2>3. RingHolder' = [b \in Buffers |-> IF b = Head(done) THEN "consumer"
                                         ELSE IF b \in {} THEN "free" ELSE RingHolder[b]]
    BY <2>1, <2>2 DEF RingHolder
  <2>4. Ring!Take({})
    BY <2>1, <2>3 DEF Ring!Take
  <2> QED
    BY <2>4 DEF Ring!Next
<1>2. CASE Show
  <2>1. /\ pc = "show" /\ pc' # "show" /\ UNCHANGED <<queued, dma, done, buf_index>>
    BY <1>2 DEF Show, camera
  <2>2. RingHolder[buf_index] = "consumer"
    BY <1>0, <2>1 DEF RingHolder
  <2>3. RingHolder' = [RingHolder EXCEPT ![buf_index] = "free"]
    BY <1>0, <2>1 DEF RingHolder, Held
  <2>4. Ring!Release(buf_index)
    BY <2>1, <2>2, <2>3 DEF Ring!Release
  <2> QED
    BY <1>0, <2>4 DEF Ring!Next
<1>3. CASE Requeue
  <2>1. /\ pc = "requeue" /\ pc' = "poll" /\ queued' = queued \union {buf_index}
        /\ UNCHANGED <<dma, done>>
    BY <1>3 DEF Requeue, Enqueue
  <2>2. RingHolder[buf_index] = "free"
    BY <1>0, <2>1 DEF RingHolder, Held
  <2>3. RingHolder' = [RingHolder EXCEPT ![buf_index] = "producer"]
    BY <1>0, <2>1 DEF RingHolder, Held
  <2>4. Ring!Grant(buf_index)
    BY <2>1, <2>2, <2>3 DEF Ring!Grant
  <2> QED
    BY <1>0, <2>4 DEF Ring!Next
<1> QED
  BY <1>1, <1>2, <1>3 DEF Loop

(* Beginning a frame is no step of the ring, completing one is.              *)
LEMMA CameraRefines == CaptureInv /\ Camera => [Ring!Next]_<<RingHolder, done>>
<1> SUFFICES ASSUME CaptureInv, Camera PROVE [Ring!Next]_<<RingHolder, done>>
  OBVIOUS
<1>1. CASE BeginFrame
  <2>1. PICK b \in queued : queued' = queued \ {b} /\ dma' = {b}
    BY <1>1 DEF BeginFrame
  <2>2. dma = {} /\ UNCHANGED <<pc, buf_index, done>>
    BY <1>1 DEF BeginFrame, main
  <2>3. queued' \union dma' = queued \union dma
    BY <2>1, <2>2
  <2> QED
    BY <2>2, <2>3 DEF RingHolder
<1>2. CASE EndFrame
  <2>1. PICK b \in dma : done' = Append(done, b)
    BY <1>2 DEF EndFrame
  <2>2. dma' = {} /\ dma = {b} /\ UNCHANGED <<pc, buf_index, queued>> /\ b \in Buffers
    BY <1>2, <2>1 DEF EndFrame, main, CaptureInv, SetupInv, TypeOK
  <2>3. /\ b \notin ToSet(done) /\ b \notin queued /\ b \notin Held
        /\ Distinct(done) /\ done \in Seq(Buffers)
    BY <2>1 DEF CaptureInv, EachBufferInOnePlace, Distinct, TypeOK
  <2>4. ToSet(done') = ToSet(done) \union {b}
    BY <2>1, <2>2, <2>3, AppendSet
  <2>5. pc = "show" => b # buf_index
    BY <2>3 DEF Held
  <2>6. RingHolder[b] = "producer"
    BY <2>2, <2>3, <2>5 DEF RingHolder
  <2>7. RingHolder' = [RingHolder EXCEPT ![b] = "filled"]
    BY <2>2, <2>3, <2>4, <2>5 DEF RingHolder
  <2>8. Ring!Fill(b)
    BY <2>1, <2>6, <2>7 DEF Ring!Fill
  <2> QED
    BY <2>2, <2>8 DEF Ring!Next
<1> QED
  BY <1>1, <1>2 DEF Camera

(* The end of the program is the end of the ring.                            *)
LEMMA StopRefines == Stop => Ring!Next
<1> SUFFICES ASSUME Stop PROVE Ring!Close
  BY DEF Ring!Next
<1>1. pc' = "stopped" /\ queued' = {} /\ dma' = {} /\ done' = <<>>
  BY DEF Stop
<1> QED
  BY <1>1, EmptyList DEF Ring!Close, RingHolder

(* The capture program implements the buffer ring, for any number of buffers. *)
THEOREM RingTheorem == Spec => ImplementsRing
<1>1. Init => Ring!Init
  BY EmptyList DEF Init, Ring!Init, RingHolder
<1>2. CaptureInv /\ [Next]_vars => [Ring!Next]_<<RingHolder, done>>
  <2>1. UNCHANGED vars => UNCHANGED <<RingHolder, done>>
    BY DEF vars, main, camera, RingHolder
  <2> QED
    BY <2>1, SetupRefines, LoopRefines, CameraRefines, StopRefines DEF Next
<1> QED
  BY <1>1, <1>2, CaptureInvariant, PTL DEF Spec, ImplementsRing, Ring!Spec, Ring!ring

-------------------------------------------------------------------------------
(* The number of a frame.                                                    *)
LEMMA FrameNumber == frame \in Nat => (frame + 1) % Frames \in Nat
  BY FramesAssumption, SMT

(* A buffer keeps its frame while it is in the list or in the hands of the loop. *)
LEMMA FrameStep ==
  ASSUME Coherent, CaptureInv, FrameInv, [Next]_vars
  PROVE  FrameInv'
<1>0. /\ Distinct(done) /\ done \in Seq(Buffers) /\ buf_index \in Buffers
      /\ Held \intersect (queued \union dma \union ToSet(done)) = {}
      /\ ToSet(done) \intersect (queued \union dma) = {}
      /\ queued \subseteq Buffers /\ dma \subseteq Buffers
  BY DEF CaptureInv, EachBufferInOnePlace, Distinct, TypeOK
<1>1. CASE Setup \/ UNCHANGED vars
  <2>1. CASE Setup
    <3>1. UNCHANGED <<mem, frame, done>> /\ pc' \notin {"show", "requeue"}
      BY <2>1 DEF Setup, parse_arguments, open_video_device, dmabuf_heap_open, AllocateBuffer,
         QueueBuffer, Enqueue, StreamOn, camera
    <3> QED
      BY <3>1 DEF FrameInv
  <2> QED
    BY <1>1, <2>1 DEF vars, main, camera, FrameInv
<1>2. CASE Dequeue
  <2>1. /\ pc' = "show" /\ buf_index' = Head(done) /\ done' = Tail(done) /\ due' = mem[Head(done)]
        /\ UNCHANGED <<mem, frame>> /\ done # <<>>
    BY <1>2 DEF Dequeue
  <2>2. ToSet(done) = ToSet(done') \union {Head(done)}
    BY <1>0, <2>1, TailSet
  <2> QED
    BY <2>1, <2>2 DEF FrameInv
<1>3. CASE Show
  <2>1. /\ pc = "show" /\ pc' \in {"requeue", "crashed"} /\ UNCHANGED <<mem, frame, done, due, buf_index>>
        /\ pc' = "requeue" => seen' = mem[buf_index]
    BY <1>3 DEF Show, camera
  <2> QED
    BY <2>1 DEF FrameInv
<1>4. CASE Requeue
  BY <1>4 DEF Requeue, Enqueue, FrameInv
<1>5. CASE Stop
  <2>1. mem' = [b \in Buffers |-> NoFrame] /\ frame' = 0 /\ done' = <<>> /\ pc' = "stopped"
    BY <1>5 DEF Stop
  <2> QED
    BY <2>1, EmptyList DEF FrameInv, NoFrame
<1>6. CASE BeginFrame
  <2>1. PICK b \in queued : mem' = [mem EXCEPT ![b] = NoFrame]
    BY <1>6 DEF BeginFrame
  <2>2. UNCHANGED <<pc, buf_index, due, seen, done, frame>>
    BY <1>6 DEF BeginFrame, main
  <2>3. b \in Buffers /\ b \notin ToSet(done) /\ (pc \in {"show", "requeue"} => b # buf_index)
    BY <1>0, <2>1 DEF Held
  <2> QED
    BY <1>0, <2>1, <2>2, <2>3 DEF FrameInv, NoFrame
<1>7. CASE EndFrame
  <2>1. PICK b \in dma : mem' = [mem EXCEPT ![b] = frame'] /\ done' = Append(done, b)
    BY <1>7 DEF EndFrame
  <2>2. UNCHANGED <<pc, buf_index, due, seen>> /\ frame' \in Nat
    BY <1>7, FrameNumber DEF EndFrame, main, FrameInv
  <2>3. b \in Buffers /\ b \notin ToSet(done) /\ (pc \in {"show", "requeue"} => b # buf_index)
    BY <1>0, <2>1 DEF Held
  <2>4. ToSet(done') = ToSet(done) \union {b}
    BY <1>0, <2>1, <2>3, AppendSet
  <2>5. frame' # NoFrame /\ frame' \in Int
    BY <2>2, SMT DEF NoFrame
  <2> QED
    BY <1>0, <2>1, <2>2, <2>3, <2>4, <2>5 DEF FrameInv
<1> QED
  BY <1>1, <1>2, <1>3, <1>4, <1>5, <1>6, <1>7 DEF Next, Loop, Camera

(* On a coherent machine the picture shown is the frame that was dequeued.   *)
THEOREM FrameTheorem ==
  ASSUME Coherent
  PROVE  Spec => []ShowsTheDequeuedFrame
<1>1. Init => FrameInv
  BY EmptyList DEF Init, FrameInv, NoFrame
<1>2. CaptureInv /\ FrameInv /\ [Next]_vars => FrameInv'
  BY FrameStep
<1>3. FrameInv => ShowsTheDequeuedFrame
  BY DEF FrameInv, ShowsTheDequeuedFrame
<1> QED
  BY <1>1, <1>2, <1>3, CaptureInvariant, PTL DEF Spec
===============================================================================
