------------------------------ MODULE RenderMain ------------------------------
(***************************************************************************)
(* experiments/render/Linux_DRM_OpenGLES.c as a whole: main() calls        *)
(* init_drm (CardSetup), and draws and flips (PageFlip) when that has      *)
(* succeeded.                                                              *)
(***************************************************************************)
EXTENDS PageFlip, CardSetup

allVars == <<vars, setupVars>>

MainInit == Init /\ SetupInit

init_drm == SetupNext /\ UNCHANGED vars

\* drmModeSetCrtc refuses a CRTC that the card does not have.
Drawing ==
  /\ UNCHANGED setupVars
  /\ setup = "ready" \/ pc' = pc
  /\ pc = "set crtc" /\ pc' = "draw" => crtc_id \in Ids(card.crtcs)

MainNext == init_drm \/ (Next /\ Drawing)

\* main() is never kept from running, and the screen is refreshed.
MainSpec ==
  /\ MainInit /\ [][MainNext]_allVars
  /\ WF_allVars(init_drm \/ (Program /\ Drawing))
  /\ WF_allVars(VBlank /\ Drawing)
===============================================================================
