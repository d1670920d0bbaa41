------------------------------- MODULE CardSetup ------------------------------
(***************************************************************************)
(* init_drm of experiments/render/Linux_DRM_OpenGLES.c: which connector,   *)
(* which mode and which CRTC of a graphics card are used.  Every pass of   *)
(* one of its loops is a step; i is the loop counter.                      *)
(***************************************************************************)
EXTENDS Integers, Sequences, FiniteSetsExt, SequencesExt

CONSTANTS
  Cards,      \* the cards a run looks at: [connectors, encoders, crtcs]
  NotFound    \* the -1 of "no match found", a uint32_t like every id

ASSUME NotFoundAssumption == NotFound # 0

\* The kernel lists no mode without an area.
ModeInfo == [preferred : BOOLEAN, area : Nat \ {0}]
Connector == [connected : BOOLEAN, modes : Seq(ModeInfo), encoder_id : Nat, encoders : Seq(Nat)]

\* The CRTCs of a card have ids; an encoder drives one of them or none, and names some.
EncoderOfCard(c) ==
  [encoder_id : Nat, crtc_id : {0} \union ToSet(c.crtcs), possible_crtcs : SUBSET DOMAIN c.crtcs]

ASSUME CardsAssumption ==
  \A c \in Cards :
    /\ c.connectors \in Seq(Connector) /\ c.encoders \in Seq(EncoderOfCard(c))
    /\ c.crtcs \in Seq(Nat \ {0}) /\ NotFound \notin ToSet(c.crtcs)

VARIABLES
  card,       \* one of Cards
  setup,      \* what is looked for: "connector", "mode", "encoder"; then "ready", "failed" or "crashed"
  i, connector, mode, area, crtc_id

setupVars == <<card, setup, i, connector, mode, area, crtc_id>>

NoConnector == [connected |-> FALSE, modes |-> <<>>, encoder_id |-> 0, encoders |-> <<>>]

find_crtc_for_encoder(encoder) ==
  LET usable == {k \in DOMAIN card.crtcs : k \in encoder.possible_crtcs}
  IN  IF usable = {} THEN NotFound ELSE card.crtcs[Min(usable)]

\* drmModeGetEncoder: the encoder of this id (none: NULL).
Places(id) == {k \in DOMAIN card.encoders : card.encoders[k].encoder_id = id}
EncoderOf(id) == card.encoders[Min(Places(id))]

\* The encoders the connector names and the card has, by their position.
Named == {k \in DOMAIN connector.encoders : Places(connector.encoders[k]) # {}}
NamedEncoder(k) == EncoderOf(connector.encoders[k])

\* An encoder that exists is accepted as soon as its CRTC is not 0.
find_crtc_for_connector ==
  LET accepted == {k \in Named : find_crtc_for_encoder(NamedEncoder(k)) # 0}
  IN  IF accepted = {} THEN NotFound ELSE find_crtc_for_encoder(NamedEncoder(Min(accepted)))

SetupInit ==
  /\ card \in Cards
  /\ setup = "connector" /\ i = 1 /\ connector = NoConnector
  /\ mode = 0 /\ area = 0 /\ crtc_id = 0

\* Lines 142-159: the first connector that is connected, or none.
FindConnector ==
  /\ setup = "connector"
  /\ IF i > Len(card.connectors)
     THEN setup' = "failed" /\ UNCHANGED <<i, connector>>
     ELSE IF card.connectors[i].connected
          THEN connector' = card.connectors[i] /\ setup' = "mode" /\ i' = 1
          ELSE i' = i + 1 /\ UNCHANGED <<setup, connector>>
  /\ UNCHANGED <<card, mode, area, crtc_id>>

\* Mutant: a mode as large as the largest replaces it.
FindModeOrEqual ==
  /\ setup = "mode" /\ i <= Len(connector.modes)
  /\ LET m == connector.modes[i] IN
       /\ mode' = IF m.preferred \/ m.area >= area THEN i ELSE mode
       /\ area' = Max({area, m.area})
  /\ i' = i + 1
  /\ UNCHANGED <<card, setup, connector, crtc_id>>

\* Lines 161-174: a preferred mode is taken, and so is one larger than any before it.
FindMode ==
  /\ setup = "mode" /\ i <= Len(connector.modes)
  /\ LET m == connector.modes[i] IN
       /\ mode' = IF m.preferred \/ m.area > area THEN i ELSE mode
       /\ area' = Max({area, m.area})
  /\ i' = i + 1
  /\ UNCHANGED <<card, setup, connector, crtc_id>>

CheckMode ==
  /\ setup = "mode" /\ i > Len(connector.modes)
  /\ setup' = IF mode = 0 THEN "failed" ELSE "encoder"
  /\ i' = 1
  /\ UNCHANGED <<card, connector, mode, area, crtc_id>>

\* Mutant: an encoder that drives nothing is passed over.
FindDrivenEncoder ==
  /\ setup = "encoder" /\ i <= Len(card.encoders)
  /\ LET encoder == card.encoders[i] IN
       IF encoder.encoder_id = connector.encoder_id /\ encoder.crtc_id # 0
       THEN crtc_id' = encoder.crtc_id /\ setup' = "ready" /\ UNCHANGED i
       ELSE i' = i + 1 /\ UNCHANGED <<setup, crtc_id>>
  /\ UNCHANGED <<card, connector, mode, area>>

\* Lines 181-191: the encoder the connector is attached to gives the CRTC.
FindEncoder ==
  /\ setup = "encoder" /\ i <= Len(card.encoders)
  /\ LET encoder == card.encoders[i] IN
       IF encoder.encoder_id = connector.encoder_id
       THEN crtc_id' = encoder.crtc_id /\ setup' = "ready" /\ UNCHANGED i
       ELSE i' = i + 1 /\ UNCHANGED <<setup, crtc_id>>
  /\ UNCHANGED <<card, connector, mode, area>>

\* Lines 192-200: no such encoder; a CRTC is looked for.
FindCrtc ==
  /\ setup = "encoder" /\ i > Len(card.encoders)
  /\ IF find_crtc_for_connector = 0
     THEN setup' = "failed" /\ UNCHANGED crtc_id
     ELSE setup' = "ready" /\ crtc_id' = find_crtc_for_connector
  /\ UNCHANGED <<card, i, connector, mode, area>>

\* The card no longer has what it listed (a connector was unplugged): drmModeGetConnector or
\* drmModeGetEncoder returns NULL, which is dereferenced (lines 145, 184).
NoAnswer ==
  /\ \/ setup = "connector" /\ i <= Len(card.connectors)
     \/ setup = "encoder" /\ i <= Len(card.encoders)
  /\ setup' = "crashed"
  /\ UNCHANGED <<card, i, connector, mode, area, crtc_id>>

SetupNext == NoAnswer \/ FindConnector \/ FindMode \/ CheckMode \/ FindEncoder \/ FindCrtc

-------------------------------------------------------------------------------
Ids(list) == ToSet(list)
Areas(modes) == {modes[k].area : k \in DOMAIN modes}

\* The mode used is the later one of: the last preferred mode, and the first of the largest.
ModeIsTheLaterBest ==
  setup \in {"encoder", "ready"} =>
    LET modes == connector.modes
        preferred == {k \in DOMAIN modes : modes[k].preferred}
        largest == {k \in DOMAIN modes : modes[k].area = Max(Areas(modes))}
    IN  mode = Max(preferred \union {Min(largest)})

\* An id that is no CRTC of the card gets through in two cases: the attached encoder drives
\* nothing (0), or the first encoder the connector names has no CRTC (or it names none).
StrangeCrtcOnlyFrom ==
  setup = "ready" =>
    (crtc_id \notin Ids(card.crtcs) <=>
       LET attached == Places(connector.encoder_id)
       IN  \/ attached # {} /\ EncoderOf(connector.encoder_id).crtc_id = 0
           \/ attached = {} /\ (Named = {} \/ NamedEncoder(Min(Named)).possible_crtcs = {}))

-------------------------------------------------------------------------------
\* Why ModeIsTheLaterBest holds: of the first n modes, area is the largest area; first is the
\* first mode that has it, and mode is the later one of first and the last preferred mode.
BestOf(n) ==
  LET modes == connector.modes IN
  /\ \A k \in 1 .. n : modes[k].area <= area /\ (modes[k].preferred => k <= mode)
  /\ IF n = 0 THEN area = 0 /\ mode = 0
     ELSE \E first \in 1 .. n :
            /\ modes[first].area = area
            /\ \A k \in 1 .. n : k < first => modes[k].area < area
            /\ mode \in first .. n
            /\ mode = first \/ modes[mode].preferred

SetupInv ==
  /\ card \in Cards /\ connector \in Connector
  /\ i \in Nat \ {0} /\ area \in Nat /\ mode \in Nat
  /\ setup = "connector" => area = 0 /\ mode = 0
  /\ setup = "mode" => i <= Len(connector.modes) + 1 /\ BestOf(i - 1)
  /\ setup \in {"encoder", "ready"} => mode # 0 /\ BestOf(Len(connector.modes))

\* Why StrangeCrtcOnlyFrom holds: the loop has passed no encoder the connector is attached to,
\* and what is used is the CRTC of the first such encoder, or what is looked for without one.
CrtcInv ==
  LET attached == Places(connector.encoder_id)
  IN  /\ setup = "encoder" => \A k \in attached : k >= i
      /\ setup = "ready" =>
           crtc_id = IF attached # {} THEN EncoderOf(connector.encoder_id).crtc_id
                     ELSE find_crtc_for_connector
===============================================================================
