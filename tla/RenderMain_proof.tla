--------------------------- MODULE RenderMain_proof ---------------------------
(***************************************************************************)
(* Proofs about the renderers.  PageFlip: what is shown has a framebuffer   *)
(* and a buffer is always left to draw into, whatever keys are pressed;    *)
(* until input ends a wait, nothing is drawn into a buffer that is shown,  *)
(* and the loop implements BufferRing.  CardSetup: which mode and which    *)
(* CRTC init_drm chooses.  RenderMain: all of it holds of the whole        *)
(* program.  DumbBuffer: every screen gets back what it showed, and what   *)
(* was made is given back.                                                 *)
(***************************************************************************)
EXTENDS RenderMain, DumbBuffer, FiniteSetTheorems, TLAPS

(* The room for events.                                                      *)
LEMMA EventRoom ==
  /\ 0 \in 0 .. EventSpace /\ 0 < EventSpace
  /\ \A e \in 0 .. EventSpace : e < EventSpace => e + 1 \in 0 .. EventSpace
  BY EventSpaceAssumption, SMT

LEMMA NotPositive == \A e : e = 0 => ~(e > 0)
  BY SMT

(* The initial state.                                                        *)
LEMMA InitInv == Init => FlipInv
  BY EventSpaceAssumption, SMT DEF Init, FlipInv, TypeOK, LoopInv, ShownHasFramebuffer

(* Every call main() makes keeps the locks in step with its two buffers.     *)
LEMMA ProgramStep == FlipInv /\ Program => FlipInv'
<1> SUFFICES ASSUME FlipInv, Program PROVE FlipInv'
  OBVIOUS
<1> USE NoneAssumption DEF FlipInv, TypeOK, LoopInv, ShownHasFramebuffer
<1>1. CASE InitAll
  BY <1>1 DEF InitAll, kernel
<1>2. CASE Draw
  <2>1. PICK b \in Buffers \ locked : back' = {b}
    BY <1>2 DEF Draw
  <2> QED
    BY <1>2, <2>1 DEF Draw, kernel
<1>3. CASE SwapBuffers
  <2>1. PICK b \in Buffers \ locked : back = {b} /\ next_bo' = b /\ locked' = locked \union {b}
    BY <1>3 DEF SwapBuffers
  <2> QED
    BY <1>3, <2>1 DEF SwapBuffers, kernel
<1>4. CASE drm_fb_get_from_bo
  BY <1>4 DEF drm_fb_get_from_bo, kernel
<1>5. CASE SetCrtc
  BY <1>5 DEF SetCrtc
<1>6. CASE QueueFlip
  BY <1>6 DEF QueueFlip
<1>7. CASE Select
  <2>1. events' \in 0 .. EventSpace /\ (events < EventSpace => events' < EventSpace)
    BY <1>7, EventSpaceAssumption, SMT DEF Select
  <2>2. /\ pc = "select" /\ pc' \in {"select", "release"} /\ fds' \subseteq fds
        /\ UNCHANGED <<bo, next_bo, back, locked, framebuffer, screen, pending>>
    BY <1>7 DEF Select
  <2>3. TypeOK' /\ ShownHasFramebuffer'
    BY <2>1, <2>2
  <2>4. LoopInv'
    BY <2>1, <2>2
  <2> QED
    BY <2>3, <2>4
<1>8. CASE Release
  BY <1>8 DEF Release, kernel
<1> QED
  BY <1>1, <1>2, <1>3, <1>4, <1>5, <1>6, <1>7, <1>8 DEF Program

(* The kernel's flip, a key press and the end of the program.                *)
LEMMA OtherStep == FlipInv /\ (VBlank \/ KeyPressed \/ Stop) => FlipInv'
<1> SUFFICES ASSUME FlipInv, VBlank \/ KeyPressed \/ Stop PROVE FlipInv'
  OBVIOUS
<1> USE NoneAssumption DEF FlipInv, TypeOK, LoopInv, ShownHasFramebuffer
<1>1. CASE VBlank
  <2>1. events' \in 0 .. EventSpace
    BY <1>1, EventRoom DEF VBlank
  <2>2. /\ pending # None /\ screen' = pending /\ pending' = None
        /\ UNCHANGED <<pc, bo, next_bo, fds, back, locked, framebuffer>>
    BY <1>1 DEF VBlank
  <2>3. TypeOK' /\ ShownHasFramebuffer'
    BY <2>1, <2>2
  <2>4. LoopInv'
    BY <2>2
  <2> QED
    BY <2>3, <2>4
<1>2. CASE KeyPressed
  BY <1>2 DEF KeyPressed, kernel
<1>3. CASE Stop
  <2>1. /\ pc' = "stopped" /\ back' = {} /\ locked' = {} /\ framebuffer' = {}
        /\ screen' = None /\ pending' = None /\ UNCHANGED <<bo, next_bo, fds>>
    BY <1>3 DEF Stop
  <2>2. events' \in 0 .. EventSpace
    BY <1>3, EventRoom DEF Stop
  <2>3. TypeOK' /\ ShownHasFramebuffer'
    BY <2>1, <2>2
  <2>4. LoopInv'
    BY <2>1
  <2> QED
    BY <2>3, <2>4
<1> QED
  BY <1>1, <1>2, <1>3

LEMMA FlipInvariant == Spec => []FlipInv
<1>1. FlipInv /\ UNCHANGED vars => FlipInv'
  BY DEF vars, kernel, FlipInv, TypeOK, LoopInv, ShownHasFramebuffer
<1>2. FlipInv /\ [Next]_vars => FlipInv'
  BY <1>1, ProgramStep, OtherStep DEF Next
<1> QED
  BY InitInv, <1>2, PTL DEF Spec

(* Every framebuffer is one of the buffers of the surface, for any of them.  *)
THEOREM TypeCorrect == Spec => []TypeOK
  BY FlipInvariant, PTL DEF FlipInv

(* Whatever is on the screen or about to be has a framebuffer.               *)
THEOREM FramebufferTheorem == Spec => []ShownHasFramebuffer
<1>1. FlipInv => ShownHasFramebuffer
  BY DEF FlipInv
<1> QED
  BY FlipInvariant, <1>1, PTL

(* The program never holds a lock it no longer names: with two buffers or    *)
(* more there is always one to draw into.                                    *)
THEOREM LocksTheorem == Spec => []LocksOnlyItsOwn
<1>1. FlipInv => LocksOnlyItsOwn
  <2> SUFFICES ASSUME FlipInv PROVE LocksOnlyItsOwn
    OBVIOUS
  <2>1. locked \subseteq {bo, next_bo}
    BY DEF FlipInv, LoopInv
  <2>2. ASSUME pc = "draw" PROVE Cardinality(locked) <= 1
    <3>1. locked \subseteq {bo}
      BY <2>2, NoneAssumption DEF FlipInv, LoopInv
    <3>2. IsFiniteSet({bo}) /\ Cardinality({bo}) = 1
      BY FS_Singleton
    <3> QED
      BY <3>1, <3>2, FS_Subset
  <2> QED
    BY <2>1, <2>2 DEF LocksOnlyItsOwn
<1> QED
  BY FlipInvariant, <1>1, PTL

-------------------------------------------------------------------------------
(* Input that ends waits goes on doing so: nothing reads it.                 *)
LEMMA StaysInterrupted ==
  ASSUME FlipInv, [Next]_vars, Interrupted
  PROVE  Interrupted'
<1>0. pc # "init"
  BY DEF FlipInv, LoopInv, Interrupted
<1> USE <1>0 DEF Interrupted
<1>1. CASE UNCHANGED vars
  BY <1>1 DEF vars
<1>2. CASE Select
  <2>1. "stdin" \in fds \intersect Readable
    BY DEF Readable
  <2> QED
    BY <1>2, <2>1 DEF Select
<1>3. CASE InitAll \/ Draw \/ SwapBuffers \/ drm_fb_get_from_bo
  BY <1>3 DEF InitAll, Draw, SwapBuffers, drm_fb_get_from_bo
<1>4. CASE SetCrtc \/ QueueFlip \/ Release
  BY <1>4 DEF SetCrtc, QueueFlip, Release
<1>5. CASE Stop \/ VBlank \/ KeyPressed
  BY <1>5 DEF Stop, VBlank, KeyPressed
<1> QED
  BY <1>1, <1>2, <1>3, <1>4, <1>5 DEF Next, Program

(* Until then the screen changes only while main() waits for it.             *)
LEMMA QuietStep ==
  ASSUME FlipInv, QuietInv, [Next]_vars
  PROVE  QuietInv'
<1> SUFFICES ASSUME ~Interrupted' PROVE QuietInv'
  BY DEF QuietInv
<1>0. ~Interrupted
  BY StaysInterrupted
<1> USE <1>0
<1> USE DEF QuietInv
<1>1. CASE UNCHANGED vars
  BY <1>1 DEF vars, kernel
<1>2. CASE InitAll \/ Draw \/ SwapBuffers \/ drm_fb_get_from_bo
  <2>1. UNCHANGED <<bo, screen, pending, events>>
    BY <1>2 DEF InitAll, Draw, SwapBuffers, drm_fb_get_from_bo, kernel
  <2>2. pc \in {"init", "draw", "swap", "fb"} /\ pc' \in {"draw", "swap", "fb", "set crtc", "flip", "crashed"}
    BY <1>2 DEF InitAll, Draw, SwapBuffers, drm_fb_get_from_bo
  <2> QED
    BY <2>1, <2>2
<1>3. CASE SetCrtc
  BY <1>3 DEF SetCrtc
<1>4. CASE QueueFlip
  BY <1>4 DEF QueueFlip
<1>5. CASE Select
  <2>1. "drm" \in Readable /\ "stdin" \notin fds' /\ events > 0
    BY <1>5 DEF Select, Readable, Interrupted
  <2>2. events # 0
    BY <2>1, NotPositive
  <2>3. pending = None /\ screen = next_bo
    BY <1>5, <2>1, <2>2 DEF Select
  <2>4. pc' = "release" /\ events' = 0 /\ UNCHANGED <<next_bo, screen, pending>>
    BY <1>5, <2>1 DEF Select
  <2> QED
    BY <2>3, <2>4
<1>6. CASE Release
  BY <1>6 DEF Release, kernel
<1>7. CASE Stop
  BY <1>7 DEF Stop
<1>8. CASE VBlank
  BY <1>8 DEF VBlank
<1>9. CASE KeyPressed
  BY <1>9 DEF KeyPressed, kernel
<1> QED
  BY <1>1, <1>2, <1>3, <1>4, <1>5, <1>6, <1>7, <1>8, <1>9 DEF Next, Program

LEMMA QuietInvariant == Spec => []QuietInv
<1>1. Init => QuietInv
  BY DEF Init, QuietInv
<1>2. FlipInv /\ QuietInv /\ [Next]_vars => QuietInv'
  BY QuietStep
<1> QED
  BY <1>1, <1>2, FlipInvariant, PTL DEF Spec

(* Until input ends a wait, nothing is drawn into what is shown: main()      *)
(* releases a buffer (line 436) only when the screen has left it.            *)
THEOREM NeverDrawsTheorem == Spec => []NeverDrawsWhatIsShown
<1>1. FlipInv /\ QuietInv => NeverDrawsWhatIsShown
  BY NoneAssumption DEF FlipInv, TypeOK, LoopInv, QuietInv, NeverDrawsWhatIsShown
<1> QED
  BY FlipInvariant, QuietInvariant, <1>1, PTL

(* Each step of the program is a step of the ring or leaves it alone.        *)
LEMMA FlipRefines ==
  ASSUME FlipInv, QuietInv, FlipInv', QuietInv', Next, ~Interrupted'
  PROVE  [Ring!Next]_<<RingHolder, ToShow>>
<1>q. ~Interrupted
  BY StaysInterrupted
<1> USE <1>q
<1>0. /\ None \notin Buffers /\ (\A x, y \in Buffers : <<x>> = <<y>> => x = y) /\ \A x : <<x>> # <<>>
  BY NoneAssumption
<1> USE <1>0
<1>1. CASE InitAll \/ Release \/ drm_fb_get_from_bo \/ QueueFlip \/ Select
  <2>1. UNCHANGED <<screen, back>> /\ back = {}
    BY <1>1 DEF InitAll, Release, drm_fb_get_from_bo, QueueFlip, Select, kernel, FlipInv, LoopInv
  <2>2. UNCHANGED ToShow
    <3>1. CASE InitAll \/ Release
      BY <3>1 DEF InitAll, Release, ToShow, QuietInv, kernel
    <3>2. CASE drm_fb_get_from_bo
      BY <3>2 DEF drm_fb_get_from_bo, ToShow, QuietInv, kernel
    <3>3. CASE QueueFlip
      BY <3>3 DEF QueueFlip, ToShow, FlipInv, LoopInv
    <3>4. CASE Select
      <4>1. pc = "select" /\ pc' \in {"select", "release"} /\ UNCHANGED <<next_bo, pending>>
        BY <3>4 DEF Select
      <4> QED
        BY <4>1 DEF ToShow
    <3> QED
      BY <1>1, <3>1, <3>2, <3>3, <3>4
  <2> QED
    BY <2>1, <2>2 DEF RingHolder
<1>2. CASE Draw
  <2>1. PICK b \in Buffers \ locked : back' = {b}
    BY <1>2 DEF Draw
  <2>2. /\ pc = "draw" /\ pc' = "swap" /\ back = {} /\ pending = None /\ screen = bo
        /\ UNCHANGED <<bo, next_bo, screen, pending, locked>> /\ locked = {bo, next_bo} \ {None}
    BY <1>2 DEF Draw, FlipInv, LoopInv, QuietInv, kernel
  <2>3. ToShow = <<>> /\ ToShow' = <<>> /\ b # screen
    BY <2>1, <2>2 DEF ToShow
  <2>4. RingHolder[b] = "free" /\ RingHolder' = [RingHolder EXCEPT ![b] = "producer"]
    BY <2>1, <2>2, <2>3 DEF RingHolder
  <2> QED
    BY <2>1, <2>3, <2>4 DEF Ring!Next, Ring!Grant
<1>3. CASE SwapBuffers
  <2>1. PICK b \in Buffers \ locked : back = {b} /\ next_bo' = b /\ back' = {}
    BY <1>3 DEF SwapBuffers, FlipInv, LoopInv
  <2>2. pc = "swap" /\ pc' = "fb" /\ pending = None /\ UNCHANGED <<screen, pending>>
    BY <1>3 DEF SwapBuffers, QuietInv, kernel
  <2>3. ToShow = <<>> /\ ToShow' = <<b>>
    BY <2>1, <2>2 DEF ToShow
  <2>4. RingHolder[b] = "producer" /\ RingHolder' = [RingHolder EXCEPT ![b] = "filled"]
    BY <2>1, <2>2, <2>3 DEF RingHolder
  <2>5. ToShow' = Append(ToShow, b)
    BY <2>3
  <2> QED
    BY <2>1, <2>4, <2>5 DEF Ring!Next, Ring!Fill
<1>4. CASE SetCrtc \/ VBlank
  <2>1. /\ screen' = next_bo /\ next_bo \in Buffers /\ next_bo # screen /\ pending' = None
        /\ ToShow = <<next_bo>> /\ ToShow' = <<>> /\ back = {} /\ back' = {}
        /\ screen \in Buffers \union {None}
    <3>1. CASE SetCrtc
      BY <3>1 DEF SetCrtc, FlipInv, TypeOK, LoopInv, QuietInv, ToShow
    <3>2. CASE VBlank
      <4>1. pc = "select" /\ pending = next_bo /\ screen = bo
        BY <3>2 DEF VBlank, QuietInv
      <4> QED
        BY <3>2, <4>1 DEF VBlank, FlipInv, TypeOK, LoopInv, ToShow
    <3> QED
      BY <1>4, <3>1, <3>2
  <2> DEFINE dropped == {screen} \ {None}
  <2>2. Head(ToShow) = next_bo /\ Tail(ToShow) = <<>> /\ ToShow # <<>>
    BY <2>1
  <2>3. dropped \in SUBSET Buffers /\ \A b \in dropped : RingHolder[b] = "consumer"
    BY <2>1 DEF RingHolder
  <2>4. RingHolder' = [b \in Buffers |-> IF b = next_bo THEN "consumer"
                                         ELSE IF b \in dropped THEN "free" ELSE RingHolder[b]]
    BY <2>1 DEF RingHolder
  <2>5. Ring!Take(dropped)
    BY <2>1, <2>2, <2>3, <2>4 DEF Ring!Take
  <2> QED
    BY <2>3, <2>5 DEF Ring!Next
<1>5. CASE Stop
  <2>1. pc' = "stopped" /\ screen' = None /\ pending' = None /\ back' = {}
    BY <1>5 DEF Stop
  <2> QED
    BY <2>1 DEF Ring!Next, Ring!Close, RingHolder, ToShow
<1>6. CASE KeyPressed
  BY <1>6 DEF KeyPressed, kernel, RingHolder, ToShow
<1> QED
  BY <1>1, <1>2, <1>3, <1>4, <1>5, <1>6 DEF Next, Program

(* Until input ends a wait, the program implements the buffer ring.          *)
THEOREM FlipRingTheorem == Spec => ImplementsRing
<1>1. Init => Ring!Init
  BY NoneAssumption DEF Init, Ring!Init, RingHolder, ToShow
<1>2. UNCHANGED vars => UNCHANGED <<RingHolder, ToShow>>
  BY DEF vars, kernel, RingHolder, ToShow
<1>3. FlipInv /\ QuietInv /\ FlipInv' /\ QuietInv' /\ [Next]_vars
        => [Interrupted' \/ Ring!Next]_<<RingHolder, ToShow>>
  BY <1>2, FlipRefines
<1> QED
  BY <1>1, <1>3, FlipInvariant, QuietInvariant, PTL DEF Spec, ImplementsRing

-----------------------------------------------------------------------------
(* The whole program: init_drm touches nothing of the loop, and the loop     *)
(* only does less for the card it found.                                     *)
LEMMA MainImplements == MainSpec => Spec
<1>1. MainInit => Init
  BY DEF MainInit
<1>2. [MainNext]_allVars => [Next]_vars
  BY DEF MainNext, init_drm, allVars
<1> QED
  BY <1>1, <1>2, PTL DEF MainSpec, Spec

(* Whatever card was set up, nothing is drawn into a buffer that is shown.   *)
THEOREM MainNeverDraws == MainSpec => []NeverDrawsWhatIsShown
  BY MainImplements, NeverDrawsTheorem, PTL

(* Whatever card was set up, the program implements the buffer ring.         *)
THEOREM MainRingTheorem == MainSpec => ImplementsRing
  BY MainImplements, FlipRingTheorem, PTL

-----------------------------------------------------------------------------
(* The mode init_drm chooses.                                                *)

(* The largest and the smallest element of a set of numbers.                 *)
LEMMA MaxIs ==
  ASSUME NEW S \in SUBSET Int, NEW m \in S, \A k \in S : k <= m
  PROVE  Max(S) = m
<1>1. \A y \in S : m >= y
  OBVIOUS
<1>2. Max(S) \in S /\ \A y \in S : Max(S) >= y
  BY <1>1, Zenon DEF Max
<1>3. \A x \in S : m =< x /\ x =< m => x = m
  OBVIOUS
<1>4. m =< Max(S) /\ Max(S) =< m
  BY <1>2
<1> QED
  BY <1>2, <1>3, <1>4

LEMMA MinIs ==
  ASSUME NEW S \in SUBSET Int, NEW m \in S, \A k \in S : m <= k
  PROVE  Min(S) = m
<1>1. \A y \in S : m =< y
  OBVIOUS
<1>2. Min(S) \in S /\ \A y \in S : Min(S) =< y
  BY <1>1, Zenon DEF Min
<1>3. \A x \in S : m =< x /\ x =< m => x = m
  OBVIOUS
<1>4. m =< Min(S) /\ Min(S) =< m
  BY <1>2
<1> QED
  BY <1>2, <1>3, <1>4

(* A pass of the loop over the modes takes one more of them into account.    *)
LEMMA ModeStep ==
  ASSUME SetupInv, FindMode
  PROVE  SetupInv'
<1> DEFINE modes == connector.modes
           m == modes[i]
<1>1. /\ modes \in Seq(ModeInfo) /\ i \in 1 .. Len(modes) /\ m \in ModeInfo
      /\ \A k \in 1 .. Len(modes) : modes[k].area \in Nat /\ modes[k].area > 0
  <2>1. modes \in Seq(ModeInfo)
    BY DEF SetupInv, Connector
  <2>2. i \in 1 .. Len(modes)
    BY <2>1 DEF SetupInv, FindMode
  <2>3. \A k \in 1 .. Len(modes) : modes[k] \in ModeInfo
    BY <2>1
  <2>4. \A x \in ModeInfo : x.area \in Nat /\ x.area > 0
    BY DEF ModeInfo
  <2> QED
    BY <2>1, <2>2, <2>3, <2>4
<1>2. area' = IF m.area > area THEN m.area ELSE area
  <2>1. area' = Max({area, m.area}) /\ area \in Int /\ m.area \in Int
    BY <1>1 DEF FindMode, SetupInv
  <2> DEFINE S == {area, m.area}
  <2>s. S \in SUBSET Int /\ area \in S /\ m.area \in S
    BY <2>1
  <2>2. CASE m.area > area
    <3>1. \A k \in S : k <= m.area
      BY <2>1, <2>2
    <3>2. Max(S) = m.area
      BY <2>s, <3>1, MaxIs
    <3> QED
      BY <2>1, <2>2, <3>2
  <2>3. CASE ~(m.area > area)
    <3>1. \A k \in S : k <= area
      BY <2>1, <2>3
    <3>2. Max(S) = area
      BY <2>s, <3>1, MaxIs
    <3> QED
      BY <2>1, <2>3, <3>2
  <2> QED
    BY <2>2, <2>3
<1>3. /\ mode' = IF m.preferred \/ m.area > area THEN i ELSE mode
      /\ i' = i + 1 /\ i' - 1 = i /\ i \in 1 .. i /\ connector' = connector
      /\ setup' = "mode" /\ setup = "mode" /\ card' = card
  BY <1>1 DEF FindMode
<1>4. BestOf(i - 1) /\ area \in Nat /\ mode \in Nat
  BY <1>3 DEF SetupInv
<1>5. BestOf(i - 1)'
  <2>1. \A k \in 1 .. i : modes[k].area <= area' /\ (modes[k].preferred => k <= mode')
    <3>1. \A k \in 1 .. i - 1 : modes[k].area <= area /\ (modes[k].preferred => k <= mode)
      BY <1>4 DEF BestOf
    <3>2. area <= area' /\ m.area <= area' /\ area' \in Nat
      BY <1>1, <1>2, <1>4
    <3>m. mode <= i - 1
      BY <1>1, <1>4 DEF BestOf
    <3> HIDE DEF m, modes
    <3>3. mode <= mode' /\ (m.preferred => i <= mode') /\ mode' \in Nat
      BY <1>1, <1>3, <1>4, <3>m
    <3>4. \A k \in 1 .. i - 1 : modes[k].area <= area' /\ (modes[k].preferred => k <= mode')
      BY <1>1, <1>4, <3>1, <3>2, <3>3
    <3>5. m = modes[i]
      BY DEF m
    <3> QED
      BY <1>1, <3>2, <3>3, <3>4, <3>5
  <2>2. CASE m.area > area
    <3>1. area' = m.area /\ mode' = i
      BY <1>2, <1>3, <2>2
    <3>2. \A k \in 1 .. i : k < i => modes[k].area < area'
      <4>1. \A k \in 1 .. i - 1 : modes[k].area <= area
        BY <1>4 DEF BestOf
      <4>2. area < area' /\ area' \in Nat
        BY <1>1, <1>4, <2>2, <3>1
      <4>3. \A k \in 1 .. i : k < i => k \in 1 .. i - 1 /\ modes[k].area \in Nat
        BY <1>1
      <4> HIDE DEF m, modes
      <4> QED
        BY <1>4, <4>1, <4>2, <4>3
    <3>3. /\ modes[i].area = area' /\ i # 0 /\ i \in 1 .. i /\ mode' \in i .. i /\ mode' = i
      BY <1>1, <3>1
    <3> QED
      BY <1>3, <2>1, <3>2, <3>3 DEF BestOf
  <2>3. CASE ~(m.area > area)
    <3>1. i # 1 /\ area' = area
      BY <1>1, <1>2, <1>4, <2>3 DEF BestOf
    <3>2. PICK first \in 1 .. i - 1 :
            /\ modes[first].area = area
            /\ \A k \in 1 .. i - 1 : k < first => modes[k].area < area
            /\ mode \in first .. i - 1
            /\ mode = first \/ modes[mode].preferred
      BY <1>1, <1>4, <3>1 DEF BestOf
    <3>3. mode' \in first .. i /\ (mode' = first \/ modes[mode'].preferred)
      <4>1. CASE m.preferred
        BY <1>1, <1>3, <3>2, <4>1
      <4>2. CASE ~m.preferred
        BY <1>1, <1>3, <2>3, <3>2, <4>2
      <4> QED
        BY <4>1, <4>2
    <3>4. \A k \in 1 .. i : k < first => modes[k].area < area'
      BY <1>1, <3>1, <3>2
    <3> QED
      BY <1>1, <1>3, <2>1, <3>1, <3>2, <3>3, <3>4 DEF BestOf
  <2> QED
    BY <2>2, <2>3
<1>6. /\ card' \in Cards /\ connector' \in Connector /\ mode' \in Nat
  <2>1. mode' \in {i, mode}
    BY <1>3
  <2> QED
    BY <2>1, <1>3 DEF SetupInv
<1>7. area' \in Nat
  <2>1. area' \in {m.area, area}
    BY <1>2
  <2> QED
    BY <2>1, <1>1 DEF SetupInv
<1>8. i' \in Nat \ {0} /\ i' <= Len(connector.modes)' + 1
  BY <1>1, <1>3
<1> QED
  BY <1>3, <1>5, <1>6, <1>7, <1>8 DEF SetupInv

(* The other steps of init_drm.                                              *)
LEMMA SetupStep ==
  ASSUME SetupInv, SetupNext
  PROVE  SetupInv'
<1>1. CASE FindConnector
  <2>1. card.connectors \in Seq(Connector)
    BY CardsAssumption DEF SetupInv
  <2>2. \A k \in 1 .. Len(card.connectors) : card.connectors[k] \in Connector
    BY <2>1
  <2>3. \A c \in Connector : c.modes \in Seq(ModeInfo)
    BY DEF Connector
  <2>4. BestOf(0) <=> area = 0 /\ mode = 0
    BY DEF BestOf
  <2> QED
    BY <1>1, <2>2, <2>3 DEF FindConnector, SetupInv, BestOf
<1>2. CASE CheckMode
  <2>1. connector.modes \in Seq(ModeInfo)
    BY DEF SetupInv, Connector
  <2>2. i - 1 = Len(connector.modes)
    BY <1>2, <2>1 DEF CheckMode, SetupInv
  <2>3. BestOf(Len(connector.modes))
    BY <1>2, <2>2 DEF CheckMode, SetupInv
  <2>4. BestOf(Len(connector.modes)) => BestOf(Len(connector.modes))'
    BY <1>2 DEF CheckMode, BestOf
  <2> QED
    BY <1>2, <2>3, <2>4 DEF CheckMode, SetupInv
<1>3. CASE FindEncoder
  <2>1. /\ card' = card /\ connector' = connector /\ mode' = mode /\ area' = area /\ setup = "encoder"
        /\ setup' \in {"encoder", "ready"} /\ i' \in {i, i + 1}
    BY <1>3 DEF FindEncoder
  <2>2. BestOf(Len(connector.modes)) => BestOf(Len(connector.modes))'
    BY <2>1 DEF BestOf
  <2> QED
    BY <2>1, <2>2 DEF SetupInv
<1>4. CASE FindCrtc
  <2>1. /\ card' = card /\ connector' = connector /\ mode' = mode /\ area' = area /\ setup = "encoder"
        /\ setup' \in {"failed", "ready"} /\ i' = i
    BY <1>4 DEF FindCrtc
  <2>2. BestOf(Len(connector.modes)) => BestOf(Len(connector.modes))'
    BY <2>1 DEF BestOf
  <2> QED
    BY <2>1, <2>2 DEF SetupInv
<1>5. CASE NoAnswer
  BY <1>5 DEF NoAnswer, SetupInv
<1> QED
  BY <1>1, <1>2, <1>3, <1>4, <1>5, ModeStep DEF SetupNext

(* The chosen mode is that of ModeIsTheLaterBest.                            *)
LEMMA BestIsLater == SetupInv => ModeIsTheLaterBest
<1> SUFFICES ASSUME SetupInv, setup \in {"encoder", "ready"}
             PROVE  LET modes == connector.modes
                        preferred == {k \in DOMAIN modes : modes[k].preferred}
                        largest == {k \in DOMAIN modes : modes[k].area = Max(Areas(modes))}
                    IN  mode = Max(preferred \union {Min(largest)})
  BY DEF ModeIsTheLaterBest
<1> DEFINE modes == connector.modes
           n == Len(modes)
           preferred == {k \in DOMAIN modes : modes[k].preferred}
           largest == {k \in DOMAIN modes : modes[k].area = Max(Areas(modes))}
<1>1. /\ DOMAIN modes = 1 .. n /\ n \in Nat /\ mode \in Nat /\ area \in Nat
      /\ \A k \in 1 .. n : modes[k].area \in Nat
  <2>1. modes \in Seq(ModeInfo) /\ mode \in Nat /\ area \in Nat
    BY DEF SetupInv, Connector
  <2>2. \A k \in 1 .. n : modes[k] \in ModeInfo
    BY <2>1
  <2>3. \A x \in ModeInfo : x.area \in Nat
    BY DEF ModeInfo
  <2> QED
    BY <2>1, <2>2, <2>3
<1>2. BestOf(n) /\ mode # 0
  BY DEF SetupInv
<1>3. PICK first \in 1 .. n :
        /\ modes[first].area = area
        /\ \A k \in 1 .. n : k < first => modes[k].area < area
        /\ mode \in first .. n
        /\ mode = first \/ modes[mode].preferred
  BY <1>1, <1>2 DEF BestOf
<1>4. Max(Areas(modes)) = area
  <2>1. Areas(modes) \in SUBSET Int /\ area \in Areas(modes)
    BY <1>1, <1>3 DEF Areas
  <2>2. \A a \in Areas(modes) : a <= area
    BY <1>1, <1>2 DEF Areas, BestOf
  <2> QED
    BY <2>1, <2>2, MaxIs
<1>5. Min(largest) = first
  <2>1. largest \in SUBSET Int /\ first \in largest
    BY <1>1, <1>3, <1>4
  <2>2. \A k \in largest : first <= k
    BY <1>1, <1>3, <1>4
  <2> QED
    BY <2>1, <2>2, MinIs
<1>6. preferred \union {first} \in SUBSET Int /\ mode \in preferred \union {first}
  BY <1>1, <1>3
<1>7. \A k \in preferred \union {first} : k <= mode
  BY <1>1, <1>2, <1>3 DEF BestOf
<1> QED
  BY <1>5, <1>6, <1>7, MaxIs

(* Whatever modes the connector of a card lists, the mode init_drm uses is   *)
(* the later one of the last preferred mode and the first of the largest.    *)
THEOREM ModeTheorem == MainSpec => []ModeIsTheLaterBest
<1>1. MainInit => SetupInv
  BY DEF MainInit, SetupInit, SetupInv, NoConnector, Connector
<1>2. SetupInv /\ [MainNext]_allVars => SetupInv'
  <2> SUFFICES ASSUME SetupInv, [MainNext]_allVars PROVE SetupInv'
    OBVIOUS
  <2>1. CASE init_drm
    BY <2>1, SetupStep DEF init_drm
  <2>2. CASE UNCHANGED setupVars
    BY <2>2 DEF setupVars, SetupInv, BestOf
  <2> QED
    BY <2>1, <2>2 DEF MainNext, Drawing, allVars
<1> QED
  BY <1>1, <1>2, BestIsLater, PTL DEF MainSpec

-----------------------------------------------------------------------------
(* Which CRTC init_drm ends with. *)

(* A set of natural numbers has a smallest element, since the intervals that *)
(* end in one are finite sets, which inclusion orders well; of positions,    *)
(* Min chooses it.                                                           *)
LEMMA LeastNumber ==
  ASSUME NEW S \in SUBSET Nat, S # {}
  PROVE  \E m \in S : \A k \in S : m <= k
<1> DEFINE T == {0 .. n : n \in S}
           R == StrictSubsetOrdering(Nat)
<1>1. T \subseteq FiniteSubsetsOf(Nat)
  <2>1. \A n \in S : IsFiniteSet(0 .. n) /\ 0 .. n \in SUBSET Nat
    BY FS_Interval
  <2> QED
    BY <2>1 DEF FiniteSubsetsOf
<1>2. IsWellFoundedOn(R, FiniteSubsetsOf(Nat))
  BY FS_StrictSubsetOrderingWellFounded
<1>3. T # {}
  OBVIOUS
<1>4. PICK x \in T : \A y \in T : ~(<<y, x>> \in R)
  <2> HIDE DEF T, R
  <2> QED
    BY <1>1, <1>2, <1>3, WFMin
<1>5. PICK m \in S : x = 0 .. m
  BY <1>4
<1>6. ASSUME NEW k \in S PROVE m <= k
  <2> SUFFICES ASSUME k < m PROVE FALSE
    OBVIOUS
  <2>1. 0 .. k \in SUBSET Nat /\ x \in SUBSET Nat /\ 0 .. k \subseteq x /\ m \in x /\ m \notin 0 .. k
    BY <1>5
  <2>2. 0 .. k \in T
    OBVIOUS
  <2>3. <<0 .. k, x>> \in R
    BY <2>1 DEF StrictSubsetOrdering
  <2> QED
    BY <1>4, <2>2, <2>3
<1> QED
  BY <1>6

LEMMA LeastPosition ==
  ASSUME NEW n \in Nat, NEW S \in SUBSET (1 .. n), S # {}
  PROVE  Min(S) \in S
<1>1. PICK m \in S : \A k \in S : m <= k
  BY LeastNumber
<1>2. S \in SUBSET Int
  OBVIOUS
<1> QED
  BY <1>1, <1>2, MinIs

(* The lists of a card.                                                      *)
LEMMA CardLists ==
  ASSUME SetupInv
  PROVE  /\ Len(card.encoders) \in Nat /\ DOMAIN card.encoders = 1 .. Len(card.encoders)
         /\ \A k \in DOMAIN card.encoders :
              /\ card.encoders[k].crtc_id \in {0} \union Ids(card.crtcs)
              /\ card.encoders[k].possible_crtcs \subseteq DOMAIN card.crtcs
         /\ Len(card.crtcs) \in Nat /\ DOMAIN card.crtcs = 1 .. Len(card.crtcs)
         /\ \A k \in DOMAIN card.crtcs : card.crtcs[k] \in Ids(card.crtcs)
         /\ 0 \notin Ids(card.crtcs) /\ NotFound \notin Ids(card.crtcs) /\ NotFound # 0
         /\ Len(connector.encoders) \in Nat /\ DOMAIN connector.encoders = 1 .. Len(connector.encoders)
<1>1. /\ card.encoders \in Seq(EncoderOfCard(card)) /\ card.crtcs \in Seq(Nat \ {0})
      /\ NotFound \notin ToSet(card.crtcs) /\ connector.encoders \in Seq(Nat)
  BY CardsAssumption DEF SetupInv, Connector
<1>2. \A k \in DOMAIN card.crtcs : card.crtcs[k] \in Ids(card.crtcs)
  BY DEF Ids, ToSet
<1>3. 0 \notin Ids(card.crtcs) /\ NotFound \notin Ids(card.crtcs)
  BY <1>1 DEF Ids, ToSet
<1>4. \A e \in EncoderOfCard(card) :
        e.crtc_id \in {0} \union Ids(card.crtcs) /\ e.possible_crtcs \subseteq DOMAIN card.crtcs
  BY DEF EncoderOfCard, Ids
<1>5. \A k \in DOMAIN card.encoders : card.encoders[k] \in EncoderOfCard(card)
  BY <1>1
<1>6. /\ Len(card.encoders) \in Nat /\ DOMAIN card.encoders = 1 .. Len(card.encoders)
      /\ Len(card.crtcs) \in Nat /\ DOMAIN card.crtcs = 1 .. Len(card.crtcs)
      /\ Len(connector.encoders) \in Nat /\ DOMAIN connector.encoders = 1 .. Len(connector.encoders)
  BY <1>1
<1> QED
  BY <1>2, <1>3, <1>4, <1>5, <1>6, NotFoundAssumption DEF NotFoundAssumption

(* drmModeGetEncoder returns an encoder of the card.                         *)
LEMMA EncoderFound ==
  ASSUME SetupInv, NEW id, Places(id) # {}
  PROVE  /\ EncoderOf(id).crtc_id \in {0} \union Ids(card.crtcs)
         /\ EncoderOf(id).possible_crtcs \subseteq DOMAIN card.crtcs
<1>1. Places(id) \in SUBSET (1 .. Len(card.encoders)) /\ Len(card.encoders) \in Nat
  BY CardLists DEF Places
<1>2. Min(Places(id)) \in Places(id)
  BY <1>1, LeastPosition
<1>3. Min(Places(id)) \in DOMAIN card.encoders
  BY <1>2 DEF Places
<1> QED
  BY <1>3, CardLists DEF EncoderOf

(* What is looked for: an encoder without a CRTC gives NotFound, which is    *)
(* accepted like an id, so that the first encoder that is named decides.     *)
LEMMA CrtcOfEncoder ==
  ASSUME SetupInv, NEW k \in Named
  PROVE  LET e == NamedEncoder(k)
         IN  /\ find_crtc_for_encoder(e) # 0
             /\ find_crtc_for_encoder(e) \notin Ids(card.crtcs) <=> e.possible_crtcs = {}
<1> DEFINE e == NamedEncoder(k)
           usable == {j \in DOMAIN card.crtcs : j \in e.possible_crtcs}
<1>1. e.possible_crtcs \subseteq DOMAIN card.crtcs
  BY EncoderFound DEF Named, NamedEncoder
<1>2. usable = e.possible_crtcs
  BY <1>1
<1>3. CASE usable = {}
  <2>1. find_crtc_for_encoder(e) = NotFound
    BY <1>3, Zenon DEF find_crtc_for_encoder
  <2> QED
    BY <1>2, <1>3, <2>1, CardLists
<1>4. CASE usable # {}
  <2>1. Min(usable) \in DOMAIN card.crtcs
    <3>1. usable \in SUBSET (1 .. Len(card.crtcs)) /\ Len(card.crtcs) \in Nat
      BY CardLists
    <3> HIDE DEF usable
    <3>2. Min(usable) \in usable
      BY <1>4, <3>1, LeastPosition
    <3> QED
      BY <3>2 DEF usable
  <2>2. find_crtc_for_encoder(e) = card.crtcs[Min(usable)]
    BY <1>4, Zenon DEF find_crtc_for_encoder
  <2> QED
    BY <1>2, <1>4, <2>1, <2>2, CardLists
<1> QED
  BY <1>3, <1>4

LEMMA CrtcOfConnector ==
  ASSUME SetupInv
  PROVE  find_crtc_for_connector \notin Ids(card.crtcs) <=>
           Named = {} \/ NamedEncoder(Min(Named)).possible_crtcs = {}
<1> DEFINE accepted == {k \in Named : find_crtc_for_encoder(NamedEncoder(k)) # 0}
<1>1. accepted = Named
  BY CrtcOfEncoder
<1>2. CASE Named = {}
  <2>1. find_crtc_for_connector = NotFound
    BY <1>1, <1>2, Zenon DEF find_crtc_for_connector
  <2> QED
    BY <1>2, <2>1, CardLists
<1>3. CASE Named # {}
  <2>1. find_crtc_for_connector = find_crtc_for_encoder(NamedEncoder(Min(Named)))
    BY <1>1, <1>3, Zenon DEF find_crtc_for_connector
  <2>2. Named \in SUBSET (1 .. Len(connector.encoders)) /\ Len(connector.encoders) \in Nat
    BY CardLists DEF Named
  <2>3. Min(Named) \in Named
    BY <1>3, <2>2, LeastPosition
  <2> QED
    BY <1>3, <2>1, <2>3, CrtcOfEncoder
<1> QED
  BY <1>2, <1>3

(* What is looked for depends on the card and the connector only.            *)
LEMMA SameCard ==
  ASSUME card' = card, connector' = connector
  PROVE  /\ \A id : Places(id)' = Places(id) /\ EncoderOf(id)' = EncoderOf(id)
         /\ find_crtc_for_connector' = find_crtc_for_connector
<1>1. \A id : Places(id)' = Places(id) /\ EncoderOf(id)' = EncoderOf(id)
  BY DEF Places, EncoderOf
<1>2. find_crtc_for_connector' = find_crtc_for_connector
  BY SMT DEF Places, find_crtc_for_connector, find_crtc_for_encoder, Named, NamedEncoder, EncoderOf
<1> QED
  BY <1>1, <1>2

(* The loop over the encoders stops at the first one that is attached.       *)
LEMMA CrtcStep ==
  ASSUME SetupInv, CrtcInv, SetupNext
  PROVE  CrtcInv'
<1> DEFINE attached == Places(connector.encoder_id)
<1>1. attached \in SUBSET (1 .. Len(card.encoders)) /\ i \in Nat
  BY CardLists DEF Places, SetupInv
<1>2. CASE FindConnector \/ FindMode
  BY <1>2 DEF FindConnector, FindMode, CrtcInv
<1>3. CASE CheckMode
  <2>1. setup' \in {"failed", "encoder"} /\ i' = 1 /\ card' = card /\ connector' = connector
    BY <1>3 DEF CheckMode
  <2>2. \A k \in attached : k >= 1
    BY <1>1
  <2> QED
    BY <2>1, <2>2 DEF CrtcInv, Places
<1>4. CASE FindEncoder
  <2> DEFINE encoder == card.encoders[i]
  <2>1. /\ setup = "encoder" /\ i \in DOMAIN card.encoders
        /\ card' = card /\ connector' = connector
        /\ IF encoder.encoder_id = connector.encoder_id
           THEN crtc_id' = encoder.crtc_id /\ setup' = "ready"
           ELSE i' = i + 1 /\ setup' = "encoder"
    BY <1>4, CardLists DEF FindEncoder, SetupInv
  <2>2. \A k \in attached : k >= i
    BY <2>1 DEF CrtcInv
  <2>3. CASE encoder.encoder_id = connector.encoder_id
    <3>1. i \in attached
      BY <2>1, <2>3 DEF Places
    <3>2. Min(attached) = i
      <4>1. attached \in SUBSET Int /\ \A k \in attached : i <= k
        BY <1>1, <2>2
      <4> HIDE DEF attached
      <4> QED
        BY <3>1, <4>1, MinIs
    <3>3. crtc_id' = EncoderOf(connector.encoder_id).crtc_id
      BY <2>1, <2>3, <3>2 DEF EncoderOf
    <3> QED
      BY <2>1, <2>3, <3>1, <3>3 DEF CrtcInv, Places, EncoderOf
  <2>4. CASE encoder.encoder_id # connector.encoder_id
    <3>1. \A k \in attached : k # i
      BY <2>4 DEF Places
    <3>2. \A k \in attached : k >= i + 1
      BY <1>1, <2>2, <3>1
    <3> QED
      BY <2>1, <2>4, <3>2 DEF CrtcInv, Places
  <2> QED
    BY <2>3, <2>4
<1>5. CASE FindCrtc
  <2>1. /\ setup = "encoder" /\ i > Len(card.encoders) /\ setup' \in {"failed", "ready"}
        /\ setup' = "ready" => crtc_id' = find_crtc_for_connector
        /\ card' = card /\ connector' = connector
    BY <1>5 DEF FindCrtc
  <2>2. attached = {}
    <3>1. \A k \in attached : k >= i
      BY <2>1 DEF CrtcInv
    <3> QED
      BY <1>1, <2>1, <3>1, CardLists
  <2>3. Places(connector.encoder_id)' = {} /\ find_crtc_for_connector' = find_crtc_for_connector
    BY <2>1, <2>2, SameCard DEF Places
  <2> QED
    BY <2>1, <2>3 DEF CrtcInv
<1>6. CASE NoAnswer
  BY <1>6 DEF NoAnswer, CrtcInv
<1> QED
  BY <1>2, <1>3, <1>4, <1>5, <1>6 DEF SetupNext

(* A CRTC the card does not have comes only from an attached encoder that    *)
(* drives nothing, or from a first named encoder that can use no CRTC.       *)
THEOREM StrangeCrtcTheorem == MainSpec => []StrangeCrtcOnlyFrom
<1>1. MainInit => SetupInv /\ CrtcInv
  BY DEF MainInit, SetupInit, SetupInv, NoConnector, Connector, CrtcInv
<1>2. SetupInv /\ CrtcInv /\ [MainNext]_allVars => (SetupInv /\ CrtcInv)'
  <2> SUFFICES ASSUME SetupInv, CrtcInv, [MainNext]_allVars PROVE (SetupInv /\ CrtcInv)'
    OBVIOUS
  <2>1. CASE init_drm
    BY <2>1, SetupStep, CrtcStep DEF init_drm
  <2>2. CASE UNCHANGED setupVars
    <3>1. SetupInv'
      BY <2>2 DEF setupVars, SetupInv, BestOf
    <3>2. Places(connector.encoder_id)' = Places(connector.encoder_id)
      BY <2>2 DEF setupVars, Places
    <3>3. EncoderOf(connector.encoder_id)' = EncoderOf(connector.encoder_id)
      BY <2>2 DEF setupVars, Places, EncoderOf
    <3>4. CrtcInv'
      BY <2>2, <3>2, <3>3, SameCard DEF setupVars, CrtcInv
    <3> QED
      BY <3>1, <3>4
  <2> QED
    BY <2>1, <2>2 DEF MainNext, Drawing, allVars
<1>3. SetupInv /\ CrtcInv => StrangeCrtcOnlyFrom
  <2> SUFFICES ASSUME SetupInv, CrtcInv, setup = "ready"
               PROVE  crtc_id \notin Ids(card.crtcs) <=>
                        LET attached == Places(connector.encoder_id)
                        IN  \/ attached # {} /\ EncoderOf(connector.encoder_id).crtc_id = 0
                            \/ attached = {} /\ (Named = {} \/ NamedEncoder(Min(Named)).possible_crtcs = {})
    BY DEF StrangeCrtcOnlyFrom
  <2>1. CASE Places(connector.encoder_id) # {}
    <3>1. crtc_id = EncoderOf(connector.encoder_id).crtc_id
      BY <2>1 DEF CrtcInv
    <3> QED
      BY <2>1, <3>1, EncoderFound, CardLists
  <2>2. CASE Places(connector.encoder_id) = {}
    <3>1. crtc_id = find_crtc_for_connector
      BY <2>2 DEF CrtcInv
    <3> QED
      BY <2>2, <3>1, CrtcOfConnector
  <2> QED
    BY <2>1, <2>2
<1> QED
  BY <1>1, <1>2, <1>3, PTL DEF MainSpec

-----------------------------------------------------------------------------
(* The dumb buffer. *)

(* What the screens showed before is no framebuffer of ours.                 *)
LEMMA BeforeValue ==
  ASSUME DumbTypeOK, NEW c \in Crtcs
  PROVE  /\ Before(c) \in {Off, c} /\ Before(c) # "ours" /\ Off # "ours"
         /\ Before(c) # Off => Before(c) = was[c] /\ was[c] = c /\ c \notin gone
<1>1. was[c] \in {Off, c} /\ c # "ours" /\ Off # "ours"
  BY OffAssumption DEF DumbTypeOK, OffAssumption
<1> QED
  BY <1>1 DEF Before

LEMMA InitScreens == DumbInit => ScreenInv
<1> SUFFICES ASSUME DumbInit PROVE ScreenInv
  OBVIOUS
<1>1. DumbTypeOK
  BY DEF DumbInit, DumbTypeOK
<1>2. OwnedInv
  BY DEF DumbInit, OwnedInv, Setup, Destroying
<1> QED
  BY <1>1, <1>2 DEF DumbInit, ScreenInv, SavedInv, ShowsInv, Before

(* Calls that change neither a screen nor what is saved.                     *)
LEMMA QuietCall ==
  ASSUME ScreenInv, DumbTypeOK', OwnedInv', UNCHANGED <<connectors, saved_crtc, shows, was, gone>>,
         "saved" \in owned' => "saved" \in owned /\ CrtcUsed' = CrtcUsed,
         \/ call' = "fatal" /\ \A c \in Crtcs : shows[c] # "ours"
         \/ \A c \in Crtcs : shows[c] # "ours" /\ call' # "fatal" /\ call # "fatal"
         \/ /\ CrtcUsed' = CrtcUsed /\ call' # "fatal" /\ call # "fatal"
            /\ "fb" \in owned => "fb" \in owned'
            /\ "saved" \in owned => "saved" \in owned'
            /\ call \in {"unmap", "rmfb"} => call' \in {"unmap", "rmfb"}
  PROVE  ScreenInv'
<1>1. SavedInv'
  BY DEF ScreenInv, SavedInv, Before
<1>2. ShowsInv'
  BY DEF ScreenInv, ShowsInv, Before
<1>3. call' = "fatal" => \A c \in Crtcs : shows'[c] # "ours"
  OBVIOUS
<1> QED
  BY <1>1, <1>2, <1>3 DEF ScreenInv

(* Nothing of ours is shown before the buffer is, nor after drm_destroy.     *)
LEMMA NotYetShown ==
  ASSUME ScreenInv, call \notin {"sleep", "restore", "unmap", "rmfb"}
  PROVE  \A c \in Crtcs : shows[c] # "ours"
<1> SUFFICES ASSUME NEW c \in Crtcs, call # "fatal" PROVE shows[c] # "ours"
  BY DEF ScreenInv
<1>1. shows[c] = "ours" => "fb" \in owned /\ "saved" \in owned
  BY BeforeValue DEF ScreenInv, ShowsInv
<1>2. ~("fb" \in owned /\ "saved" \in owned)
  <2>1. owned = {} \/ owned = Made(call)
    BY DEF ScreenInv, OwnedInv
  <2>2. "saved" \notin Made(call)
    BY DEF Made
  <2> QED
    BY <2>1, <2>2
<1> QED
  BY <1>1, <1>2

LEMMA FindStep ==
  ASSUME ScreenInv, drm_open \/ drm_find_dev \/ FoundDevs
  PROVE  ScreenInv'
<1>1. \A c \in Crtcs : shows[c] # "ours"
  BY NotYetShown DEF drm_open, drm_find_dev, FoundDevs
<1>2. owned = {} /\ owned' = {}
  BY DEF ScreenInv, OwnedInv, Made, drm_open, drm_find_dev, FoundDevs
<1>3. /\ call \in {"open", "find"} /\ call' \in {"find", "dumb", "fatal"}
      /\ UNCHANGED <<connectors, saved_crtc, shows, was, gone>>
  BY DEF drm_open, drm_find_dev, FoundDevs
<1>4. /\ at' \in Nat /\ devs' \in Seq(Nat)
      /\ call' = "dumb" => devs' # <<>>
  <2>1. at \in Nat /\ at + 1 \in Nat /\ devs \in Seq(Nat) /\ <<at>> \o devs \in Seq(Nat)
    BY DEF ScreenInv, DumbTypeOK
  <2> QED
    BY <2>1 DEF drm_open, drm_find_dev, FoundDevs
<1>5. DumbTypeOK'
  BY <1>3, <1>4 DEF ScreenInv, DumbTypeOK, Setup
<1>6. OwnedInv'
  BY <1>2, <1>3, <1>4 DEF OwnedInv, Made, Setup, Destroying
<1> QED
  BY <1>1, <1>2, <1>3, <1>5, <1>6, QuietCall

LEMMA MakeStep ==
  ASSUME ScreenInv,
         \/ Make("dumb", "dumb", "addfb") \/ Make("addfb", "fb", "map") \/ Make("map", "map", "show")
  PROVE  ScreenInv'
<1>1. \A c \in Crtcs : shows[c] # "ours"
  BY NotYetShown DEF Make
<1>2. /\ call \in Setup /\ call' \in {"addfb", "map", "show"}
      /\ UNCHANGED <<connectors, at, devs, saved_crtc, shows, was, gone>>
  BY DEF Make, Setup
<1>3. owned = Made(call) /\ devs # <<>>
  BY <1>2 DEF ScreenInv, OwnedInv
<1>4. owned' = Made(call') /\ "saved" \notin owned'
  BY <1>3 DEF Make, Made
<1>5. DumbTypeOK' /\ OwnedInv'
  BY <1>2, <1>3, <1>4 DEF ScreenInv, DumbTypeOK, OwnedInv, Setup, Destroying
<1> QED
  BY <1>1, <1>2, <1>4, <1>5, QuietCall DEF Setup

LEMMA ShowStep ==
  ASSUME ScreenInv, ShowOurs
  PROVE  ScreenInv'
<1>1. \A c \in Crtcs : shows[c] # "ours" /\ shows[c] = Before(c)
  BY NotYetShown DEF ShowOurs, ScreenInv, ShowsInv
<1>2. call = "show" /\ owned = Made("show") /\ devs # <<>>
  BY DEF ShowOurs, ScreenInv, OwnedInv, Setup
<1>3. "saved" \notin owned /\ "fb" \in owned
  BY <1>2 DEF Made
<1>4. CASE CrtcUsed \in Crtcs
  <2> DEFINE u == CrtcUsed
  <2>1. /\ saved_crtc' = shows[u] /\ owned' = owned \union {"saved"}
        /\ shows' = [shows EXCEPT ![u] = "ours"] /\ call' = "sleep"
        /\ CrtcUsed' = u
        /\ UNCHANGED <<connectors, at, devs, was, gone>>
    BY <1>4 DEF ShowOurs, CrtcUsed
  <2> HIDE DEF u
  <2>2. u \in Crtcs /\ u = CrtcUsed
    BY <1>4 DEF u
  <2>3. DumbTypeOK'
    BY <2>1 DEF ScreenInv, DumbTypeOK, Setup
  <2>4. OwnedInv'
    <3>1. owned' = Made("sleep")
      BY <1>2, <2>1 DEF Made
    <3> QED
      BY <1>2, <2>1, <3>1 DEF OwnedInv, Setup
  <2>5. (\A c \in Crtcs : Before(c)' = Before(c)) /\ Before(u) \in {Off, was[u]}
    BY <2>1 DEF Before
  <2>6. SavedInv'
    <3>1. /\ CrtcUsed' \in Crtcs /\ saved_crtc' = Before(u) /\ saved_crtc' \in {Off, was'[CrtcUsed']}
          /\ Before(CrtcUsed)' = Before(u)
      BY <1>1, <2>1, <2>2, <2>5
    <3> QED
      BY <3>1 DEF SavedInv
  <2>7. ShowsInv'
    <3> SUFFICES ASSUME NEW c \in Crtcs
                 PROVE  \/ shows'[c] = Before(c)'
                        \/ shows'[c] = "ours" /\ c = CrtcUsed' /\ "fb" \in owned' /\ "saved" \in owned'
      BY DEF ShowsInv
    <3>1. shows'[c] = IF c = u THEN "ours" ELSE shows[c]
      BY <2>1 DEF ScreenInv, DumbTypeOK
    <3>2. Before(c)' = Before(c)
      BY <2>1 DEF Before
    <3> QED
      BY <1>1, <1>3, <2>1, <3>1, <3>2
  <2> QED
    BY <2>1, <2>3, <2>4, <2>6, <2>7 DEF ScreenInv
<1>5. CASE CrtcUsed \notin Crtcs
  <2>1. call' = "fatal" /\ UNCHANGED <<connectors, at, devs, owned, saved_crtc, shows, was, gone>>
    BY <1>5 DEF ShowOurs
  <2>2. DumbTypeOK' /\ OwnedInv'
    BY <2>1 DEF ScreenInv, DumbTypeOK, OwnedInv, Setup, Destroying
  <2> QED
    BY <1>1, <1>3, <2>1, <2>2, QuietCall
<1> QED
  BY <1>4, <1>5

LEMMA SleepStep ==
  ASSUME ScreenInv, Sleep
  PROVE  ScreenInv'
<1>1. /\ call = "sleep" /\ call' = "restore" /\ CrtcUsed' = CrtcUsed
      /\ UNCHANGED <<connectors, at, devs, owned, saved_crtc, shows, was, gone>>
  BY DEF Sleep, CrtcUsed
<1>2. owned = Made("sleep") /\ devs # <<>>
  BY <1>1 DEF ScreenInv, OwnedInv, Setup
<1>3. DumbTypeOK' /\ OwnedInv'
  BY <1>1, <1>2 DEF ScreenInv, DumbTypeOK, OwnedInv, Made, Setup, Destroying
<1> QED
  BY <1>1, <1>3, QuietCall

(* The CRTC has its own framebuffer back, or had lost it.                    *)
LEMMA RestoreStep ==
  ASSUME ScreenInv, Restore
  PROVE  ScreenInv'
<1> DEFINE u == CrtcUsed
           back_again == "saved" \in owned /\ saved_crtc \notin gone \union {Off}
<1>1. /\ call = "restore" /\ call' = "unmap" /\ CrtcUsed' = u
      /\ shows' = IF back_again THEN [shows EXCEPT ![u] = saved_crtc] ELSE shows
      /\ owned' = owned \ {"saved"}
      /\ UNCHANGED <<connectors, at, devs, saved_crtc, was, gone>>
  BY DEF Restore, CrtcUsed
<1>2. "saved" \in owned => u \in Crtcs /\ saved_crtc \in {Off, was[u]} /\ (saved_crtc = Off => Before(u) = Off)
  BY DEF ScreenInv, SavedInv
<1> HIDE DEF u
<1>3. back_again => u \in Crtcs /\ saved_crtc = Before(u) /\ Before(u) \in {Off, u}
  BY <1>2, BeforeValue DEF ScreenInv, Before
<1>4. "saved" \in owned /\ ~back_again => Before(u) = Off
  BY <1>2 DEF Before
<1> HIDE DEF back_again
<1>5. DumbTypeOK'
  <2>1. shows' \in [Crtcs -> {Off, "ours"} \union Crtcs]
    BY <1>1, <1>3 DEF ScreenInv, DumbTypeOK
  <2> QED
    BY <1>1, <2>1 DEF ScreenInv, DumbTypeOK, Destroying
<1>6. OwnedInv'
  <2>1. owned = {} \/ owned = Made("restore")
    BY <1>1 DEF ScreenInv, OwnedInv
  <2>2. owned' = {} \/ owned' = Made("unmap")
    BY <1>1, <2>1 DEF Made
  <2> QED
    BY <1>1, <2>2 DEF ScreenInv, OwnedInv, Setup, Destroying
<1>7. ShowsInv'
  <2> SUFFICES ASSUME NEW c \in Crtcs
               PROVE  \/ shows'[c] = Before(c)'
                      \/ shows'[c] = "ours" /\ c = CrtcUsed' /\ "fb" \in owned' /\ Before(c)' = Off
    BY <1>1 DEF ShowsInv
  <2>1. Before(c)' = Before(c)
    BY <1>1 DEF Before
  <2>2. \/ shows[c] = Before(c)
        \/ shows[c] = "ours" /\ c = u /\ "fb" \in owned /\ "saved" \in owned
    BY <1>1 DEF ScreenInv, ShowsInv, u
  <2>3. shows'[c] = IF back_again /\ c = u THEN saved_crtc ELSE shows[c]
    BY <1>1, <1>3 DEF ScreenInv, DumbTypeOK
  <2> QED
    BY <1>1, <1>3, <1>4, <2>1, <2>2, <2>3
<1>8. SavedInv'
  BY <1>1 DEF SavedInv
<1> QED
  BY <1>1, <1>5, <1>6, <1>7, <1>8 DEF ScreenInv

LEMMA UnmapStep ==
  ASSUME ScreenInv, Unmap
  PROVE  ScreenInv'
<1>1. /\ call = "unmap" /\ call' = "rmfb" /\ CrtcUsed' = CrtcUsed /\ owned' = owned \ {"map"}
      /\ UNCHANGED <<connectors, at, devs, saved_crtc, shows, was, gone>>
  BY DEF Unmap, CrtcUsed
<1>2. owned = {} \/ owned = Made("unmap")
  BY <1>1 DEF ScreenInv, OwnedInv
<1>3. owned' = {} \/ owned' = Made("rmfb")
  BY <1>1, <1>2 DEF Made
<1>4. DumbTypeOK' /\ OwnedInv'
  BY <1>1, <1>3 DEF ScreenInv, DumbTypeOK, OwnedInv, Setup, Destroying
<1> QED
  BY <1>1, <1>4, QuietCall

(* Without ours a CRTC that shows it is off.                                 *)
LEMMA OursGone ==
  ASSUME ScreenInv
  PROVE  /\ WithoutOurs \in [Crtcs -> {Off, "ours"} \union Crtcs]
         /\ \A c \in Crtcs : WithoutOurs[c] # "ours" /\ (shows[c] # "ours" => WithoutOurs[c] = shows[c])
         /\ \A c \in Crtcs : shows[c] = "ours" => WithoutOurs[c] = Off
  BY OffAssumption DEF OffAssumption, WithoutOurs, ScreenInv, DumbTypeOK

LEMMA RemoveStep ==
  ASSUME ScreenInv, RemoveFramebuffer
  PROVE  ScreenInv'
<1>1. /\ call = "rmfb" /\ call' = "destroy" /\ owned' = owned \ {"fb"}
      /\ shows' = IF "fb" \in owned THEN WithoutOurs ELSE shows
      /\ UNCHANGED <<connectors, at, devs, saved_crtc, was, gone>>
  BY DEF RemoveFramebuffer
<1>2. owned = {} \/ owned = Made("rmfb")
  BY <1>1 DEF ScreenInv, OwnedInv
<1>3. (owned' = {} \/ owned' = Made("destroy")) /\ "saved" \notin owned /\ "saved" \notin owned'
  BY <1>1, <1>2 DEF Made
<1>4. DumbTypeOK' /\ OwnedInv'
  BY <1>1, <1>3, OursGone DEF ScreenInv, DumbTypeOK, OwnedInv, Setup, Destroying
<1>5. ShowsInv'
  <2> SUFFICES ASSUME NEW c \in Crtcs PROVE shows'[c] = Before(c)'
    BY DEF ShowsInv
  <2>1. Before(c)' = Before(c)
    BY <1>1 DEF Before
  <2>2. shows[c] = Before(c) \/ (shows[c] = "ours" /\ "fb" \in owned /\ Before(c) = Off)
    BY <1>1, <1>3 DEF ScreenInv, ShowsInv
  <2>3. Before(c) # "ours"
    BY BeforeValue DEF ScreenInv
  <2> QED
    BY <1>1, <2>1, <2>2, <2>3, OursGone
<1> QED
  BY <1>1, <1>3, <1>4, <1>5 DEF ScreenInv, SavedInv

LEMMA DestroyStep ==
  ASSUME ScreenInv, DestroyDumb
  PROVE  ScreenInv'
<1>1. /\ call = "destroy" /\ owned' = owned \ {"dumb"} /\ devs' = Tail(devs)
      /\ call' = IF Tail(devs) = <<>> THEN "close" ELSE "restore"
      /\ UNCHANGED <<connectors, at, saved_crtc, shows, was, gone>>
  BY DEF DestroyDumb
<1>2. owned' = {}
  BY <1>1 DEF ScreenInv, OwnedInv, Made
<1>3. devs # <<>> /\ Tail(devs) \in Seq(Nat)
  BY <1>1 DEF ScreenInv, OwnedInv, DumbTypeOK, Destroying
<1>4. DumbTypeOK' /\ OwnedInv'
  BY <1>1, <1>2, <1>3 DEF ScreenInv, DumbTypeOK, OwnedInv, Setup, Destroying
<1>5. \A c \in Crtcs : shows[c] # "ours"
  BY <1>1, NotYetShown
<1> QED
  BY <1>1, <1>2, <1>4, <1>5, QuietCall

LEMMA CloseStep ==
  ASSUME ScreenInv, Close \/ Fatal
  PROVE  ScreenInv'
<1>1. /\ call' \in {"done", "fatal"} /\ shows' = WithoutOurs /\ owned' = {}
      /\ UNCHANGED <<connectors, at, devs, saved_crtc, was, gone>>
  BY DEF Close, Fatal, ScreenInv, OwnedInv, Made
<1>2. DumbTypeOK' /\ OwnedInv'
  BY <1>1, OursGone DEF ScreenInv, DumbTypeOK, OwnedInv, Setup, Destroying
<1>3. SavedInv'
  BY <1>1 DEF SavedInv
<1>4. CASE Close
  <2>1. \A c \in Crtcs : shows[c] # "ours" /\ shows[c] = Before(c)
    BY <1>4, NotYetShown DEF Close, ScreenInv, ShowsInv
  <2>2. ShowsInv' /\ call' # "fatal"
    BY <1>1, <1>4, <2>1, OursGone DEF Close, ShowsInv, Before
  <2> QED
    BY <1>2, <1>3, <2>2 DEF ScreenInv
<1>5. CASE Fatal
  BY <1>1, <1>2, <1>3, <1>5, OursGone DEF Fatal, ScreenInv, ShowsInv
<1> QED
  BY <1>4, <1>5

LEMMA OwnerStep ==
  ASSUME ScreenInv, OwnerRemoves
  PROVE  ScreenInv'
<1>1. PICK f \in Crtcs \ gone :
        /\ gone' = gone \union {f}
        /\ shows' = [c \in Crtcs |-> IF shows[c] = f THEN Off ELSE shows[c]]
  BY DEF OwnerRemoves
<1>2. UNCHANGED <<connectors, call, at, devs, owned, saved_crtc, was>> /\ CrtcUsed' = CrtcUsed
  BY DEF OwnerRemoves, CrtcUsed
<1>3. DumbTypeOK'
  BY <1>1, <1>2 DEF ScreenInv, DumbTypeOK
<1>4. ASSUME NEW c \in Crtcs
      PROVE  Before(c)' = IF was[c] = f THEN Off ELSE Before(c)
  BY <1>1, <1>2 DEF Before
<1>5. \A c \in Crtcs : Before(c) = Off => Before(c)' = Off
  BY <1>4
<1>6. f # "ours"
  BY OffAssumption DEF OffAssumption
<1>7. \A c \in Crtcs : shows'[c] = IF shows[c] = f THEN Off ELSE shows[c]
  BY <1>1
<1>8. SavedInv'
  BY <1>2, <1>5 DEF ScreenInv, SavedInv
<1>9. ShowsInv'
  <2> SUFFICES ASSUME call # "fatal", NEW c \in Crtcs
               PROVE  \/ shows'[c] = Before(c)'
                      \/ /\ shows'[c] = "ours" /\ c = CrtcUsed' /\ "fb" \in owned'
                         /\ \/ "saved" \in owned'
                            \/ call' \in {"unmap", "rmfb"} /\ Before(c)' = Off
    BY <1>2 DEF ShowsInv
  <2>1. CASE shows[c] = Before(c)
    <3>1. was[c] = f => shows[c] \in {f, Off}
      BY <1>1, <2>1 DEF Before
    <3>2. shows[c] = f => was[c] = f
      BY <1>1, <2>1, OffAssumption DEF Before, OffAssumption
    <3> QED
      BY <1>4, <1>7, <2>1, <3>1, <3>2
  <2>2. CASE /\ shows[c] = "ours" /\ c = CrtcUsed /\ "fb" \in owned
             /\ \/ "saved" \in owned
                \/ call \in {"unmap", "rmfb"} /\ Before(c) = Off
    BY <1>2, <1>5, <1>6, <1>7, <2>2
  <2> QED
    BY <2>1, <2>2 DEF ScreenInv, ShowsInv
<1>10. OwnedInv'
  BY <1>2 DEF ScreenInv, OwnedInv
<1>11. call' = "fatal" => \A c \in Crtcs : shows'[c] # "ours"
  BY <1>2, <1>7, OffAssumption DEF ScreenInv, OffAssumption
<1> QED
  BY <1>3, <1>8, <1>9, <1>10, <1>11 DEF ScreenInv

THEOREM ScreenInvariant == DumbSpec => []ScreenInv
<1>1. DumbInit => ScreenInv
  BY InitScreens
<1>2. ScreenInv /\ [DumbNext]_dumbVars => ScreenInv'
  <2> SUFFICES ASSUME ScreenInv, [DumbNext]_dumbVars PROVE ScreenInv'
    OBVIOUS
  <2>1. CASE UNCHANGED dumbVars
    BY <2>1 DEF dumbVars, ScreenInv, DumbTypeOK, OwnedInv, SavedInv, ShowsInv, Before, CrtcUsed
  <2> QED
    BY <2>1, FindStep, MakeStep, ShowStep, SleepStep, RestoreStep, UnmapStep, RemoveStep,
       DestroyStep, CloseStep, OwnerStep
    DEF DumbNext, DumbProgram
<1> QED
  BY <1>1, <1>2, PTL DEF DumbSpec

(* When drm_test has ended by itself every CRTC shows what it showed before, *)
(* except a framebuffer its owner has removed meanwhile.                     *)
THEOREM ScreensTheorem == DumbSpec => []ScreensRestored
<1>1. ScreenInv => ScreensRestored
  <2> SUFFICES ASSUME ScreenInv, call = "done", NEW c \in Crtcs PROVE shows[c] = Before(c)
    BY DEF ScreensRestored
  <2> QED
    BY NotYetShown DEF ScreenInv, ShowsInv
<1> QED
  BY <1>1, ScreenInvariant, PTL

(* No CRTC but that of the first connector of the list is ever touched.      *)
THEOREM OthersTheorem == DumbSpec => []OthersUntouched
<1>1. ScreenInv => OthersUntouched
  <2> SUFFICES ASSUME ScreenInv, NEW c \in Crtcs, shows[c] = "ours"
               PROVE  devs # <<>> /\ c = CrtcUsed
    BY DEF OthersUntouched
  <2>1. call \in {"sleep", "restore", "unmap", "rmfb"}
    BY NotYetShown
  <2>2. devs # <<>>
    BY <2>1 DEF ScreenInv, OwnedInv, Setup, Destroying
  <2>3. c = CrtcUsed
    BY <2>1, BeforeValue DEF ScreenInv, ShowsInv
  <2> QED
    BY <2>2, <2>3
<1> QED
  BY <1>1, ScreenInvariant, PTL

(* When the descriptor is closed, whatever was made is given back and the    *)
(* list is freed.                                                            *)
THEOREM NothingLeftTheorem == DumbSpec => []NothingLeft
<1>1. ScreenInv => NothingLeft
  BY DEF ScreenInv, OwnedInv, Made, NothingLeft
<1> QED
  BY <1>1, ScreenInvariant, PTL
===============================================================================
