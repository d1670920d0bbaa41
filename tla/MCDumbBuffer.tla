----------------------------- MODULE MCDumbBuffer -----------------------------
EXTENDS DumbBuffer

\* A connector of each kind: on one of the CRTCs or on none, with no mode, with no encoder.
MCConnectors ==
  [connected : {TRUE}, modes : {1}, encoder : {TRUE}, crtc_id : Crtcs \union {Off}]
  \union [connected : BOOLEAN, modes : {0}, encoder : {TRUE}, crtc_id : {Off}]
  \union [connected : {TRUE}, modes : {1}, encoder : {FALSE}, crtc_id : {Off}]

MCWirings == BoundedSeq(MCConnectors, 3)
===============================================================================
