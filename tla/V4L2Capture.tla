------------------------------ MODULE V4L2Capture -----------------------------
(***************************************************************************)
(* experiments/video4linux/dmabuf-v4l2.c: a program that has a camera      *)
(* write into dma-bufs it allocated itself, and shows each frame.  The     *)
(* program (pc names the call it is about to make) runs beside the camera, *)
(* which is external: it fills the buffers it was given, in any order, and *)
(* returns them in the order they were completed.                          *)
(***************************************************************************)
EXTENDS Integers, Sequences, SequencesExt

CONSTANTS
  NumBuffers,     \* num_buffers
  CommandLines,   \* what the program may be started with
  DriverFormats,  \* formats a driver may settle on, whatever it was asked for
  Coherent,       \* TRUE: the CPU cache sees what the camera wrote
  Frames          \* frame numbers are counted modulo Frames

ASSUME NumBuffersAssumption == NumBuffers \in Nat \ {0}
ASSUME FramesAssumption == Frames \in Nat \ {0}
ASSUME CoherentAssumption == Coherent \in BOOLEAN

VARIABLES
  pc,         \* the call main() makes next; "stopped", "crashed", or "wild" once an array is overrun
  args,       \* arguments_t: an option letter |-> its value
  pix_fmt,    \* the format the driver reported last
  i,          \* the loop counter of the two set-up loops
  buf_index,  \* the buffer last dequeued
  due, seen,  \* the number of the frame it holds, and of the frame that was shown
  queued,     \* buffers the driver holds
  dma,        \* the buffers being written by the camera (at most one)
  done,       \* completed buffers, oldest first
  mem, cache, \* per buffer: the frame in memory, and the frame the CPU cache has lines of
  frame       \* the number of the last frame

main == <<pc, args, pix_fmt, i, buf_index, due, seen>>
camera == <<queued, dma, done, mem, frame>>
vars == <<main, camera, cache>>

Buffers == 0 .. NumBuffers - 1
NoFrame == -1

\* pix_fmt.sizeimage, the length of every buffer and of its mapping.
Depth(fourcc) == IF fourcc = "GREY" THEN 1 ELSE 2
SizeImage == pix_fmt.w * pix_fmt.h * Depth(pix_fmt.f)

DefaultArgs == [w |-> 4, h |-> 2, f |-> "YUYV"]

\* sscanf or strlen refuses the argument, or getopt does not know the letter.
Refused(option) == option.opt \notin {"w", "h", "f", "other"} \/ ~option.ok

\* The value getopt's loop leaves in a field: that of the last such option.
ArgumentOf(line, letter) ==
  LET given == SelectSeq(line, LAMBDA o : o.opt = letter)
  IN  IF given = <<>> THEN DefaultArgs[letter] ELSE Last(given).val

parse_arguments ==
  /\ pc = "parse"
  /\ \E line \in CommandLines :
       IF \E k \in DOMAIN line : Refused(line[k])
       THEN pc' = "stopped" /\ UNCHANGED args
       ELSE /\ args' = [letter \in DOMAIN DefaultArgs |-> ArgumentOf(line, letter)]
            /\ pc' = "open"
  /\ UNCHANGED <<pix_fmt, i, buf_index, due, seen, camera, cache>>

\* S_FMT: 0 keeps what the driver had; the second G_FMT reports what it granted.
open_video_device ==
  /\ pc = "open"
  /\ \E had \in DriverFormats, granted \in DriverFormats :
       LET asked == [w |-> IF args.w > 0 THEN args.w ELSE had.w,
                     h |-> IF args.h > 0 THEN args.h ELSE had.h,
                     f |-> args.f]
       IN  pix_fmt' \in {asked, granted}
  /\ pc' = "heap"
  /\ UNCHANGED <<args, i, buf_index, due, seen, camera, cache>>

\* The loop tries two names and the array has one: what is read after it is anything.
dmabuf_heap_open ==
  /\ pc = "heap"
  /\ pc' \in {"alloc", "wild"}
  /\ UNCHANGED <<args, pix_fmt, i, buf_index, due, seen, camera, cache>>

\* One pass of the loop that allocates and maps the buffers.
AllocateBuffer ==
  /\ pc = "alloc"
  /\ IF i + 1 < NumBuffers THEN i' = i + 1 /\ UNCHANGED pc ELSE i' = 0 /\ pc' = "queue"
  /\ UNCHANGED <<args, pix_fmt, buf_index, due, seen, camera, cache>>

\* VIDIOC_QBUF: the driver takes the buffer at this index.
Enqueue(b) ==
  /\ queued' = queued \union {b}
  /\ UNCHANGED <<dma, done, mem, frame>>

QueueBuffer ==
  /\ pc = "queue"
  /\ Enqueue(i)
  /\ IF i + 1 < NumBuffers THEN i' = i + 1 /\ UNCHANGED pc ELSE i' = 0 /\ pc' = "streamon"
  /\ UNCHANGED <<args, pix_fmt, buf_index, due, seen, cache>>

StreamOn ==
  /\ pc = "streamon"
  /\ pc' = "poll"
  /\ UNCHANGED <<args, pix_fmt, i, buf_index, due, seen, camera, cache>>

\* Mutants: the buffer goes back to the driver before it is shown; the newest is taken.
DequeueAndRequeue ==
  /\ pc = "poll" /\ done # <<>> /\ pc' = "show"
  /\ buf_index' = Head(done) /\ due' = mem[Head(done)] /\ done' = Tail(done)
  /\ queued' = queued \union {Head(done)}
  /\ UNCHANGED <<args, pix_fmt, i, seen, dma, mem, frame, cache>>
DequeueNewest ==
  /\ pc = "poll" /\ done # <<>> /\ pc' = "show"
  /\ buf_index' = Last(done) /\ due' = mem[Last(done)] /\ done' = Front(done)
  /\ UNCHANGED <<args, pix_fmt, i, seen, queued, dma, mem, frame, cache>>

\* poll() found the camera ready, and VIDIOC_DQBUF returns the oldest frame.
Dequeue ==
  /\ pc = "poll" /\ done # <<>>
  /\ buf_index' = Head(done)
  /\ due' = mem[Head(done)]
  /\ done' = Tail(done)
  /\ pc' = "show"
  /\ UNCHANGED <<args, pix_fmt, i, seen, queued, dma, mem, frame, cache>>

\* OpenCV can convert the picture: it is not empty, and NV12 wants even sides.
Showable == args.w > 0 /\ args.h > 0 /\ args.w % 2 = 0 /\ args.h % 2 = 0

\* CV_8UC2: the picture takes two bytes a pixel of the size that was asked for, whatever
\* the driver granted.
Overruns == args.w * args.h * 2 > SizeImage

\* split, cvtColor, imshow.  Both dmabuf_sync calls are commented out: without coherence
\* the lines the cache still has of this buffer may be read instead of the memory.  What is
\* read behind the mapping may be anything, or end the program.
Show ==
  /\ pc = "show"
  /\ IF Showable
     THEN /\ \/ seen' = mem[buf_index]
             \/ ~Coherent /\ cache[buf_index] # NoFrame /\ seen' = cache[buf_index]
          /\ \/ UNCHANGED cache
             \/ ~Coherent /\ cache' = [cache EXCEPT ![buf_index] = seen']
          /\ pc' = "requeue" \/ (Overruns /\ pc' = "crashed")
     ELSE pc' = "crashed" /\ UNCHANGED <<seen, cache>>
  /\ UNCHANGED <<args, pix_fmt, i, buf_index, due, camera>>

\* Mutant: the descriptor queued is always the first.
RequeueFirst ==
  /\ pc = "requeue" /\ pc' = "poll"
  /\ Enqueue(0)
  /\ buf_index' = 0 /\ due' = NoFrame /\ seen' = NoFrame
  /\ UNCHANGED <<args, pix_fmt, i, cache>>

\* The end of the loop: the same index and the same descriptor go back to the driver, and
\* the variables of the loop's body go out of scope.
Requeue ==
  /\ pc = "requeue"
  /\ Enqueue(buf_index)
  /\ buf_index' = 0 /\ due' = NoFrame /\ seen' = NoFrame
  /\ pc' = "poll"
  /\ UNCHANGED <<args, pix_fmt, i, cache>>

\* A call failed and the program exits, or poll() timed out, failed or was interrupted.
\* Nothing is cleaned up: closing the descriptors takes the buffers from the camera.
Stop ==
  /\ pc \notin {"parse", "show", "stopped"}
  /\ pc' = "stopped"
  /\ queued' = {} /\ dma' = {} /\ done' = <<>>
  /\ mem' = [b \in Buffers |-> NoFrame] /\ cache' = mem' /\ frame' = 0
  /\ UNCHANGED <<args, pix_fmt, i, buf_index, due, seen>>

\* The camera begins a frame in a buffer it was given, and completes it.
BeginFrame ==
  /\ pc \in {"poll", "show", "requeue"} /\ dma = {}
  /\ \E b \in queued :
       /\ queued' = queued \ {b}
       /\ dma' = {b}
       /\ mem' = [mem EXCEPT ![b] = NoFrame]
  /\ UNCHANGED <<main, done, frame, cache>>

EndFrame ==
  /\ frame' = (frame + 1) % Frames
  /\ \E b \in dma :
       /\ mem' = [mem EXCEPT ![b] = frame']
       /\ done' = Append(done, b)
  /\ dma' = {}
  /\ UNCHANGED <<main, queued, cache>>

Init ==
  /\ pc = "parse" /\ args = DefaultArgs /\ i = 0
  /\ pix_fmt \in DriverFormats
  /\ buf_index = 0 /\ due = NoFrame /\ seen = NoFrame
  /\ queued = {} /\ dma = {} /\ done = <<>> /\ frame = 0
  /\ mem = [b \in Buffers |-> NoFrame] /\ cache = [b \in Buffers |-> NoFrame]

Setup == parse_arguments \/ open_video_device \/ dmabuf_heap_open \/ AllocateBuffer \/ QueueBuffer \/ StreamOn
Loop == Dequeue \/ Show \/ Requeue
Camera == BeginFrame \/ EndFrame

Next == Setup \/ Loop \/ Stop \/ Camera

Spec == Init /\ [][Next]_vars

\* main() is one thread that is never kept from running; the camera may stop at any time.
FairSpec == Spec /\ WF_main(Loop)
-------------------------------------------------------------------------------
TypeOK ==
  /\ pc \in {"parse", "open", "heap", "alloc", "queue", "streamon", "poll", "show", "requeue", "stopped", "crashed", "wild"}
  /\ i \in Buffers /\ buf_index \in Buffers
  /\ queued \subseteq Buffers /\ dma \subseteq Buffers /\ done \in Seq(Buffers)

\* The buffer the loop has between DQBUF and QBUF.
Held == IF pc \in {"show", "requeue"} THEN {buf_index} ELSE {}

\* A buffer is never in two places (with the driver, under the camera, completed, or with
\* the loop between DQBUF and QBUF), and once all are queued none is ever lost.
EachBufferInOnePlace ==
  /\ \A j, k \in DOMAIN done : done[j] = done[k] => j = k
  /\ queued \intersect dma = {}
  /\ ToSet(done) \intersect (queued \union dma) = {}
  /\ Held \intersect (queued \union dma \union ToSet(done)) = {}
  /\ pc \in {"streamon", "poll", "show", "requeue"} =>
       queued \union dma \union ToSet(done) \union Held = Buffers

\* The picture on the screen is the frame DQBUF returned, not an older one and not
\* one being written (comments at 436 and 485: the buffer is prepared for CPU access).
ShowsTheDequeuedFrame == pc = "requeue" => seen = due /\ seen # NoFrame

\* A completed frame is taken in the end, or the program stops or dies of an exception.
FramesAreTaken == \A b \in Buffers : b \in ToSet(done) ~> b \notin ToSet(done) \/ pc = "crashed"

\* Refinement: the driver and the camera are the producer, the loop is the consumer.
RingHolder ==
  [b \in Buffers |-> IF pc = "show" /\ b = buf_index THEN "consumer"
                     ELSE IF b \in ToSet(done) THEN "filled"
                     ELSE IF b \in queued \union dma THEN "producer"
                     ELSE "free"]

Ring == INSTANCE BufferRing WITH holder <- RingHolder, filled <- done

\* The capture loop implements the buffer ring.
ImplementsRing == Ring!Spec

\* What the proofs carry along: how far each set-up loop has come.
SetupInv ==
  /\ \A a, b \in dma : a = b
  /\ pc \in {"parse", "open", "heap", "alloc", "queue", "streamon", "stopped", "wild"} => dma = {} /\ done = <<>>
  /\ pc \in {"parse", "open", "heap", "alloc", "stopped", "wild"} => queued = {}
  /\ pc \in {"parse", "open", "heap"} => i = 0
  /\ pc = "queue" => queued = 0 .. i - 1

CaptureInv == TypeOK /\ EachBufferInOnePlace /\ SetupInv

\* A completed buffer, and the one the loop holds, keep their frame.
FrameInv ==
  /\ frame \in Nat /\ mem \in [Buffers -> Int]
  /\ \A b \in ToSet(done) : mem[b] # NoFrame
  /\ pc \in {"show", "requeue"} => due = mem[buf_index] /\ due # NoFrame
  /\ pc = "requeue" => seen = due
===============================================================================
