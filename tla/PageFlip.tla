------------------------------- MODULE PageFlip -------------------------------
(***************************************************************************)
(* main of experiments/render/Linux_DRM_OpenGLES.c: GLES draws into the    *)
(* buffers of a GBM surface, and each is put on the screen by a page flip. *)
(* External: GBM hands an unlocked buffer to each drawing; the kernel      *)
(* flips at the next vertical blank and then makes the card readable.      *)
(***************************************************************************)
EXTENDS Integers, Sequences, FiniteSets

CONSTANTS
  Buffers,     \* the buffers of the GBM surface
  None,        \* no buffer
  EventSpace   \* how many unread flip events the kernel keeps for a descriptor

ASSUME NoneAssumption == None \notin Buffers
ASSUME EventSpaceAssumption == EventSpace \in Nat \ {0}

VARIABLES
  pc,                 \* the call main() makes next; "stopped", or "crashed" through a null pointer
  bo, next_bo,        \* main()'s two buffers
  waiting_for_flip,   \* cleared by page_flip_handler
  fds,                \* the descriptors select() looks at, and what it left of them
  back,               \* the buffer being drawn to (a set)
  locked,             \* the buffers the program holds the lock of
  framebuffer,        \* the buffers that have a drm_fb attached
  screen, pending,    \* the buffer on the screen, and the one the kernel will flip to
  events,             \* the flip events nobody has read
  stdin               \* standard input is readable (nothing ever reads it)

kernel == <<screen, pending, events>>
vars == <<pc, bo, next_bo, waiting_for_flip, fds, back, locked, framebuffer, kernel, stdin>>

Init ==
  /\ pc = "init" /\ bo = None /\ next_bo = None /\ waiting_for_flip = FALSE
  /\ fds = {} /\ back = {} /\ locked = {} /\ framebuffer = {}
  /\ screen = None /\ pending = None /\ events = 0 /\ stdin = FALSE

\* init_drm, the descriptor set, init_gbm and init_gl (a failure of one of them: Stop).
InitAll ==
  /\ pc = "init"
  /\ fds' = {"stdin", "drm"}
  /\ pc' = "draw"
  /\ UNCHANGED <<bo, next_bo, waiting_for_flip, back, locked, framebuffer, kernel, stdin>>

\* The first glClear, or draw(): GBM picks a buffer that is not locked.
Draw ==
  /\ pc = "draw"
  /\ \E b \in Buffers \ locked : back' = {b}
  /\ waiting_for_flip' = (bo # None)
  /\ pc' = "swap"
  /\ UNCHANGED <<bo, next_bo, fds, locked, framebuffer, kernel, stdin>>

\* eglSwapBuffers and gbm_surface_lock_front_buffer.
SwapBuffers ==
  /\ pc = "swap"
  /\ \E b \in back : next_bo' = b /\ locked' = locked \union {b}
  /\ back' = {}
  /\ pc' = "fb"
  /\ UNCHANGED <<bo, waiting_for_flip, fds, framebuffer, kernel, stdin>>

\* The framebuffer of a buffer is made once; NULL when that fails, which main() dereferences.
drm_fb_get_from_bo ==
  /\ pc = "fb"
  /\ \/ /\ framebuffer' = framebuffer \union {next_bo}
        /\ pc' = IF bo = None THEN "set crtc" ELSE "flip"
     \/ /\ next_bo \notin framebuffer
        /\ pc' = "crashed" /\ UNCHANGED framebuffer
  /\ UNCHANGED <<bo, next_bo, waiting_for_flip, fds, back, locked, kernel, stdin>>

SetCrtc ==
  /\ pc = "set crtc"
  /\ screen' = next_bo /\ bo' = next_bo /\ next_bo' = None
  /\ pc' = "draw"
  /\ UNCHANGED <<waiting_for_flip, fds, back, locked, framebuffer, pending, events, stdin>>

\* drmModePageFlip: refused (Stop) while another flip is pending or the event has no room.
QueueFlip ==
  /\ pc = "flip" /\ pending = None /\ events < EventSpace
  /\ pending' = next_bo
  /\ pc' = "select"
  /\ UNCHANGED <<bo, next_bo, waiting_for_flip, fds, back, locked, framebuffer, screen, events, stdin>>

Readable == (IF stdin THEN {"stdin"} ELSE {}) \union (IF events > 0 THEN {"drm"} ELSE {})

\* Mutants: the wait is over before the flip is; the handler does not clear the flag.
SelectAtOnce ==
  /\ pc = "select" /\ pc' = "release"
  /\ waiting_for_flip' = FALSE /\ events' = 0
  /\ UNCHANGED <<bo, next_bo, fds, back, locked, framebuffer, screen, pending, stdin>>
SelectUnhandled ==
  /\ pc = "select" /\ fds \intersect Readable # {}
  /\ fds' = fds \intersect Readable
  /\ events' = IF "stdin" \in fds' THEN events ELSE 0
  /\ pc' = IF "stdin" \in fds' THEN "release" ELSE "select"
  /\ UNCHANGED <<bo, next_bo, waiting_for_flip, back, locked, framebuffer, screen, pending, stdin>>

\* select() leaves in fds what is readable, and nothing puts the others back; standard input
\* ends the wait, otherwise drmHandleEvent reads every event and page_flip_handler is called.
Select ==
  /\ pc = "select" /\ fds \intersect Readable # {}
  /\ fds' = fds \intersect Readable
  /\ IF "stdin" \in fds'
     THEN UNCHANGED <<waiting_for_flip, events>>
     ELSE events' = 0 /\ waiting_for_flip' = FALSE
  /\ pc' = IF "stdin" \in fds' \/ ~waiting_for_flip' THEN "release" ELSE "select"
  /\ UNCHANGED <<bo, next_bo, back, locked, framebuffer, screen, pending, stdin>>

\* Mutant: the buffer just queued is released instead of the last one.
ReleaseNext ==
  /\ pc = "release" /\ pc' = "draw"
  /\ locked' = locked \ {next_bo}
  /\ bo' = next_bo /\ next_bo' = None
  /\ UNCHANGED <<waiting_for_flip, fds, back, framebuffer, kernel, stdin>>

Release ==
  /\ pc = "release"
  /\ locked' = locked \ {bo}
  /\ bo' = next_bo /\ next_bo' = None
  /\ pc' = "draw"
  /\ UNCHANGED <<waiting_for_flip, fds, back, framebuffer, kernel, stdin>>

\* A call fails, select() is interrupted, or a flip is refused: main() returns, and what it
\* showed is taken from the screen with the descriptor of the card.
Stop ==
  /\ pc \in {"init", "set crtc", "flip", "select", "crashed"}
  /\ pc' = "stopped"
  /\ back' = {} /\ locked' = {} /\ framebuffer' = {}
  /\ screen' = None /\ pending' = None /\ events' = 0
  /\ UNCHANGED <<bo, next_bo, waiting_for_flip, fds, stdin>>

VBlank ==
  /\ pending # None
  /\ screen' = pending /\ pending' = None /\ events' = events + 1
  /\ UNCHANGED <<pc, bo, next_bo, waiting_for_flip, fds, back, locked, framebuffer, stdin>>

KeyPressed ==
  /\ ~stdin
  /\ stdin' = TRUE
  /\ UNCHANGED <<pc, bo, next_bo, waiting_for_flip, fds, back, locked, framebuffer, kernel>>

Program == InitAll \/ Draw \/ SwapBuffers \/ drm_fb_get_from_bo \/ SetCrtc \/ QueueFlip \/ Select \/ Release
Next == Program \/ Stop \/ VBlank \/ KeyPressed

Spec == Init /\ [][Next]_vars

\* main() is never kept from running, and the screen is refreshed.
FairSpec == Spec /\ WF_vars(Program) /\ WF_vars(VBlank)
-------------------------------------------------------------------------------
TypeOK ==
  /\ pc \in {"init", "draw", "swap", "fb", "set crtc", "flip", "select", "release", "stopped", "crashed"}
  /\ {bo, next_bo, screen, pending} \subseteq Buffers \union {None}
  /\ fds \subseteq {"stdin", "drm"}
  /\ back \subseteq Buffers /\ locked \subseteq Buffers /\ framebuffer \subseteq Buffers
  /\ events \in 0 .. EventSpace

\* Input that select() looks for: it ends every wait before the flip is done.  Keys pressed after
\* the first flip event, which leaves standard input out of fds, change nothing.
Interrupted == stdin /\ "stdin" \in fds

\* Comment at 435 ("release last buffer to render on again"): nothing is drawn into a buffer
\* that is on the screen or about to be, unless input ends the waits.
NeverDrawsWhatIsShown == ~Interrupted => back \intersect {screen, pending} = {}

\* What is on the screen, or about to be, has a framebuffer.
ShownHasFramebuffer == {screen, pending} \subseteq framebuffer \union {None}

\* There is always a buffer left to draw into: the program locks two at the most, and lets
\* go of every buffer it no longer names.
LocksOnlyItsOwn == locked \subseteq {bo, next_bo} /\ (pc = "draw" => Cardinality(locked) <= 1)

\* A flip that was queued is waited for, and the wait ends.
FlipsEnd == pc = "select" ~> pc \in {"draw", "stopped"}

\* The renderer is the producer, the screen the consumer.
ToShow == IF pc \in {"fb", "set crtc", "flip", "crashed"} \/ pending # None THEN <<next_bo>> ELSE <<>>
RingHolder ==
  [b \in Buffers |-> IF b \in back THEN "producer"
                     ELSE IF ToShow = <<b>> THEN "filled"
                     ELSE IF b = screen THEN "consumer"
                     ELSE "free"]

Ring == INSTANCE BufferRing WITH holder <- RingHolder, filled <- ToShow

\* The program implements the buffer ring as long as input does not end its waits.
ImplementsRing == Ring!Init /\ [][Interrupted' \/ Ring!Next]_<<RingHolder, ToShow>>

\* What the proofs carry along: the locks are those of main()'s two buffers, and a buffer is
\* drawn to only between Draw and SwapBuffers.
LoopInv ==
  /\ pc # "stopped" => locked = {bo, next_bo} \ {None}
  /\ pc \in {"init", "draw", "swap"} => next_bo = None
  /\ pc \in {"fb", "set crtc", "flip", "select", "release", "crashed"} => next_bo \in Buffers /\ next_bo # bo
  /\ pc \in {"init", "set crtc"} => bo = None
  /\ pc = "init" => fds = {}
  /\ pc \in {"flip", "select", "release"} => bo \in Buffers
  /\ IF pc = "swap" THEN \E b \in Buffers \ locked : back = {b} ELSE back = {}
  /\ pc \in {"set crtc", "flip", "select", "release"} => next_bo \in framebuffer
  /\ pending # None => events < EventSpace
  /\ pc = "stopped" => locked = {} /\ screen = None /\ pending = None

\* Until input ends a wait, the kernel flips from the last buffer to the next while main() waits.
QuietInv ==
  ~Interrupted =>
    /\ pc # "select" => pending = None /\ events = 0
    /\ pc = "select" => \/ pending = next_bo /\ screen = bo /\ events = 0
                        \/ pending = None /\ screen = next_bo
    /\ pc = "release" => screen = next_bo
    /\ pc \in {"init", "draw", "swap", "fb", "set crtc", "flip", "crashed"} => screen = bo

FlipInv == TypeOK /\ LoopInv /\ ShownHasFramebuffer
===============================================================================
