----------------------------- MODULE MCRenderMain -----------------------------
EXTENDS RenderMain

Mode == [preferred : BOOLEAN, area : 1 .. 2]
Attached(modes, id, ids) == [connected |-> TRUE, modes |-> modes, encoder_id |-> id, encoders |-> ids]
Encoder(id, driven, possible) == [encoder_id : {id}, crtc_id : driven, possible_crtcs : possible]

\* Every list of up to three modes behind one attached encoder, and wirings of two encoders
\* (3 and 0 are no encoder's id) to two CRTCs, after a connector with no screen.
MCCards ==
  { [connectors |-> <<Attached(modes, 1, <<1>>)>>,
     encoders |-> <<[encoder_id |-> 1, crtc_id |-> 11, possible_crtcs |-> {1}]>>,
     crtcs |-> <<11>>] : modes \in BoundedSeq(Mode, 3) }
  \union
  { [connectors |-> <<NoConnector, Attached(<<[preferred |-> TRUE, area |-> 1]>>, id, ids)>>,
     encoders |-> <<e1, e2>>, crtcs |-> <<11, 12>>] :
      id \in {0, 2}, ids \in {<<>>, <<3, 1>>, <<2, 1>>},
      e1 \in Encoder(1, {11}, {{}, {1}, {2}}), e2 \in Encoder(2, {0, 12}, {{}, {1, 2}}) }
  \union
  { [connectors |-> <<NoConnector>>, encoders |-> <<>>, crtcs |-> <<11>>] }
===============================================================================
