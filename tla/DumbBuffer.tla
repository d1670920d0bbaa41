------------------------------ MODULE DumbBuffer ------------------------------
(***************************************************************************)
(* experiments/render/drm_test.c: a dumb buffer is shown on the first      *)
(* connected screen for three seconds, and everything is put back.  The    *)
(* kernel and the other clients of the card (whose framebuffers the        *)
(* screens showed before) are external.                                    *)
(***************************************************************************)
EXTENDS Integers, Sequences, SequencesExt

CONSTANTS
  Crtcs,     \* the CRTCs of the card
  Wirings,   \* lists of connectors: [connected, modes, encoder, crtc_id]
  Off        \* no framebuffer; as a crtc_id: the encoder drives nothing

ASSUME OffAssumption == Off \notin Crtcs /\ "ours" \notin Crtcs \union {Off}

VARIABLES
  connectors, \* the connectors of the card
  call,       \* the call made next; "done", or "fatal" once exit(EXIT_FAILURE) or a signal came
  at,         \* the connector drm_find_dev looks at (its i)
  devs,       \* the list of drm_dev_t, newest first: positions in connectors
  owned,      \* what drm_setup_fb has made for the first of them
  saved_crtc, \* the framebuffer its CRTC showed (Off when it was off)
  shows,      \* the framebuffer each CRTC shows: Off, "ours" or the CRTC's own from before
  was,        \* the same, before the program started
  gone        \* framebuffers their owner has removed

dumbVars == <<connectors, call, at, devs, owned, saved_crtc, shows, was, gone>>

DumbInit ==
  /\ connectors \in Wirings
  /\ was \in [Crtcs -> {Off} \union Crtcs] /\ \A c \in Crtcs : was[c] \in {Off, c}
  /\ shows = was /\ gone = {}
  /\ call = "open" /\ at = 1 /\ devs = <<>> /\ owned = {} /\ saved_crtc = Off

\* Closing the descriptor removes the framebuffer, and a CRTC that shows it is switched off.
WithoutOurs == [c \in Crtcs |-> IF shows[c] = "ours" THEN Off ELSE shows[c]]

drm_open ==
  /\ call = "open" /\ call' = "find"
  /\ UNCHANGED <<connectors, at, devs, owned, saved_crtc, shows, was, gone>>

\* One pass of the loop: a connected connector with a mode is put in front of the list;
\* its encoder must exist, even if another connector is going to be used.
drm_find_dev ==
  /\ call = "find" /\ at <= Len(connectors)
  /\ LET conn == connectors[at]
         usable == conn.connected /\ conn.modes > 0
     IN  /\ devs' = IF usable /\ conn.encoder THEN <<at>> \o devs ELSE devs
         /\ call' = IF usable /\ ~conn.encoder THEN "fatal" ELSE call
  /\ at' = at + 1
  /\ UNCHANGED <<connectors, owned, saved_crtc, shows, was, gone>>

FoundDevs ==
  /\ call = "find" /\ at > Len(connectors)
  /\ call' = IF devs = <<>> THEN "fatal" ELSE "dumb"
  /\ UNCHANGED <<connectors, at, devs, owned, saved_crtc, shows, was, gone>>

CrtcUsed == connectors[Head(devs)].crtc_id

\* drm_setup_fb: the buffer is made, gets a framebuffer, and is mapped.
Make(step, thing, next) ==
  /\ call = step /\ call' = next
  /\ owned' = owned \union {thing}
  /\ UNCHANGED <<connectors, at, devs, saved_crtc, shows, was, gone>>

\* Mutant: what the CRTC shows is stored after it has been changed.
ShowThenSave ==
  /\ call = "show" /\ CrtcUsed \in Crtcs
  /\ shows' = [shows EXCEPT ![CrtcUsed] = "ours"]
  /\ saved_crtc' = shows'[CrtcUsed] /\ owned' = owned \union {"saved"}
  /\ call' = "sleep"
  /\ UNCHANGED <<connectors, at, devs, was, gone>>

\* What the CRTC showed is stored, and the framebuffer is shown instead.
ShowOurs ==
  /\ call = "show"
  /\ IF CrtcUsed \in Crtcs
     THEN /\ saved_crtc' = shows[CrtcUsed] /\ owned' = owned \union {"saved"}
          /\ shows' = [shows EXCEPT ![CrtcUsed] = "ours"]
          /\ call' = "sleep"
     ELSE call' = "fatal" /\ UNCHANGED <<owned, saved_crtc, shows>>
  /\ UNCHANGED <<connectors, at, devs, was, gone>>

\* The picture is drawn, and sleep(3) is over.
Sleep ==
  /\ call = "sleep" /\ call' = "restore"
  /\ UNCHANGED <<connectors, at, devs, owned, saved_crtc, shows, was, gone>>

\* drm_destroy, for each of the list: the CRTC gets its framebuffer back.  The kernel refuses
\* a connector without a framebuffer, and one that is gone; nobody looks at the result.
Restore ==
  /\ call = "restore" /\ call' = "unmap"
  /\ shows' = IF "saved" \in owned /\ saved_crtc \notin gone \union {Off}
              THEN [shows EXCEPT ![CrtcUsed] = saved_crtc] ELSE shows
  /\ owned' = owned \ {"saved"}
  /\ UNCHANGED <<connectors, at, devs, saved_crtc, was, gone>>

Unmap ==
  /\ call = "unmap" /\ call' = "rmfb"
  /\ owned' = owned \ {"map"}
  /\ UNCHANGED <<connectors, at, devs, saved_crtc, shows, was, gone>>

\* Mutant: the framebuffer is left to the kernel.
ForgetFramebuffer ==
  /\ call = "rmfb" /\ call' = "destroy"
  /\ owned' = owned \ {"fb"}
  /\ UNCHANGED <<connectors, at, devs, saved_crtc, shows, was, gone>>

RemoveFramebuffer ==
  /\ call = "rmfb" /\ call' = "destroy"
  /\ shows' = IF "fb" \in owned THEN WithoutOurs ELSE shows
  /\ owned' = owned \ {"fb"}
  /\ UNCHANGED <<connectors, at, devs, saved_crtc, was, gone>>

\* Mutant: only the first of the list is freed.
DestroyFirst ==
  /\ call = "destroy" /\ call' = "close"
  /\ owned' = owned \ {"dumb"}
  /\ devs' = Tail(devs)
  /\ UNCHANGED <<connectors, at, saved_crtc, shows, was, gone>>

\* The element is freed; the others of the list have nothing to be given back.
DestroyDumb ==
  /\ call = "destroy"
  /\ owned' = owned \ {"dumb"}
  /\ devs' = Tail(devs)
  /\ call' = IF Tail(devs) = <<>> THEN "close" ELSE "restore"
  /\ UNCHANGED <<connectors, at, saved_crtc, shows, was, gone>>

Close ==
  /\ call = "close" /\ call' = "done"
  /\ shows' = WithoutOurs
  /\ UNCHANGED <<connectors, at, devs, owned, saved_crtc, was, gone>>

\* A call of the set-up fails (fatal, error), or a signal ends the program at any time.
Fatal ==
  /\ call \notin {"done", "fatal"} /\ call' = "fatal"
  /\ shows' = WithoutOurs /\ owned' = {}
  /\ UNCHANGED <<connectors, at, devs, saved_crtc, was, gone>>

\* Another client removes the framebuffer it had on a screen.
OwnerRemoves ==
  /\ \E f \in Crtcs \ gone :
       /\ \E c \in Crtcs : was[c] = f
       /\ gone' = gone \union {f}
       /\ shows' = [c \in Crtcs |-> IF shows[c] = f THEN Off ELSE shows[c]]
  /\ UNCHANGED <<connectors, call, at, devs, owned, saved_crtc, was>>

DumbProgram ==
  \/ drm_open \/ drm_find_dev \/ FoundDevs
  \/ Make("dumb", "dumb", "addfb") \/ Make("addfb", "fb", "map") \/ Make("map", "map", "show")
  \/ ShowOurs \/ Sleep
  \/ Restore \/ Unmap \/ RemoveFramebuffer \/ DestroyDumb \/ Close

DumbNext == DumbProgram \/ Fatal \/ OwnerRemoves

DumbSpec == DumbInit /\ [][DumbNext]_dumbVars /\ WF_dumbVars(DumbProgram)
-------------------------------------------------------------------------------
\* When the program has come to its end, every CRTC shows what it showed before, except
\* where the owner has removed that framebuffer.
Before(c) == IF was[c] \in gone THEN Off ELSE was[c]

ScreensRestored == call = "done" => \A c \in Crtcs : shows[c] = Before(c)

\* Before the descriptor is closed everything that was made has been given back, and the
\* whole list has been freed.
NothingLeft == call = "close" => owned = {} /\ devs = <<>>

\* Only the CRTC of the first of the list is ever touched by the program.
OthersUntouched ==
  \A c \in Crtcs : shows[c] = "ours" => devs # <<>> /\ c = CrtcUsed
-------------------------------------------------------------------------------
\* Why these hold.  What a call of drm_setup_fb finds made, and one of drm_destroy still made:
\* the second drm_destroy and those after it find nothing.
Setup == {"dumb", "addfb", "map", "show", "sleep"}
Destroying == {"restore", "unmap", "rmfb", "destroy"}
Made(step) ==
  CASE step \in {"addfb", "destroy"} -> {"dumb"}
    [] step \in {"map", "rmfb"} -> {"dumb", "fb"}
    [] step \in {"show", "unmap"} -> {"dumb", "fb", "map"}
    [] step \in {"sleep", "restore"} -> {"dumb", "fb", "map", "saved"}
    [] OTHER -> {}

DumbTypeOK ==
  /\ call \in {"open", "find", "close", "done", "fatal"} \union Setup \union Destroying
  /\ at \in Nat /\ devs \in Seq(Nat)
  /\ was \in [Crtcs -> {Off} \union Crtcs] /\ \A c \in Crtcs : was[c] \in {Off, c}
  /\ shows \in [Crtcs -> {Off, "ours"} \union Crtcs] /\ gone \subseteq Crtcs

OwnedInv ==
  /\ owned = {} \/ owned = Made(call) \/ call = "fatal"
  /\ call \in Setup => owned = Made(call)
  /\ call \in Setup \union Destroying => devs # <<>>
  /\ call = "close" => devs = <<>>

\* What was saved is what the CRTC showed before, unless it had lost that already.
SavedInv ==
  "saved" \in owned =>
    /\ CrtcUsed \in Crtcs /\ saved_crtc \in {Off, was[CrtcUsed]}
    /\ saved_crtc = Off => Before(CrtcUsed) = Off

\* A CRTC shows what it showed before, or ours: the used one, until drm_destroy has either
\* given it its own back or removed the framebuffer.
ShowsInv ==
  call # "fatal" => \A c \in Crtcs :
    \/ shows[c] = Before(c)
    \/ /\ shows[c] = "ours" /\ c = CrtcUsed /\ "fb" \in owned
       /\ \/ "saved" \in owned
          \/ call \in {"unmap", "rmfb"} /\ Before(c) = Off

ScreenInv ==
  /\ DumbTypeOK /\ OwnedInv /\ SavedInv /\ ShowsInv
  /\ call = "fatal" => \A c \in Crtcs : shows[c] # "ours"
===============================================================================
