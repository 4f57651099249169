------------------------------ MODULE FramePipeline ----------------------------
(******************************************************************************)
(* From the guest's screen to the LCD (main.cpp): Core1 runs the guest, whose    *)
(* writes leave damage behind, draws the changed tiles of a borrowed buffer and  *)
(* publishes it; Core0 takes pictures and sends them, except while the LCD shows *)
(* the face.  Nothing is drawn twice and nothing is drawn for nothing - so the   *)
(* question is whether the LCD ever keeps an old picture for good.               *)
(*                                                                              *)
(* The video memory is one row of tiles, longer than the screen; the text plane  *)
(* is shown from its beginning, the graphic plane (in its 65536-colour mode)     *)
(* from the scroll register on, around its end.                                  *)
(******************************************************************************)
EXTENDS FrameChannel, TiledRenderer, Sequences

CONSTANTS
    VramTiles,      \* tiles of the video memory
    Programs,       \* sets of kinds of change: what the guest's software, and the user, do
    MaxChanges,     \* bound: how often they do it
    MaxPublished    \* bound: no picture is published after this many

ASSUME FramePipelineAssumption ==
    /\ TiledBuffers = Buffers       \* DisplayLcd: "the same three as FrameChannel"
    /\ VramTiles \in Nat /\ Tiles <= VramTiles
    /\ Programs \subseteq
           SUBSET {"text", "graphic", "enable", "palette", "scroll", "zoom", "face"}
    /\ MaxChanges \in Nat /\ MaxPublished \in 1 .. SeqModulus - 2

VARIABLES
    guest,          \* the video hardware the guest has written
    textDirty,      \* SystemBus::anyTextDirty
    zoomed,         \* DisplayLcd::zoom() > 1
    renderer,
    image,          \* what each buffer holds, tile by tile
    screen,         \* what the LCD shows
    mode,           \* g_mode: "face" or "x68k"
    redrawRequested,\* g_redrawRequested
    program,        \* the kinds of change of this execution
    changes         \* how many changes there have been

pipelineVars ==
    <<channelVars, guest, textDirty, zoomed, renderer, image, screen, mode, redrawRequested, program, changes>>

Vram == 0 .. VramTiles - 1
GuestType ==
    [text : [Vram -> BOOLEAN], graphic : [Vram -> BOOLEAN], enabled : BOOLEAN,
     palette : BOOLEAN, scroll : Vram]

\* The picture the guest's screen makes: the reference of Compositor and TextRaster.
Pixel(t) ==
    <<zoomed, guest.palette, guest.text[t],
      IF guest.enabled THEN {guest.graphic[(t + guest.scroll) % VramTiles]} ELSE {}>>
Picture == [t \in Tile |-> Pixel(t)]
Blank == [t \in Tile |-> <<>>]
Face == [t \in Tile |-> <<"face">>]

\* DisplayLcd::shouldComposite and what else renderTo reads.
View ==
    [composited |-> guest.enabled, zoomed |-> zoomed, textDirty |-> textDirty,
     scrollKey |-> guest.scroll + 1]

Init ==
    /\ ChannelInit
    /\ guest = [text |-> [v \in Vram |-> FALSE], graphic |-> [v \in Vram |-> v = 0],
                enabled |-> TRUE, palette |-> FALSE, scroll |-> 0]
    /\ textDirty = TRUE /\ zoomed = FALSE
    /\ renderer = ResetRenderer
    /\ image = [b \in Buffer |-> Blank] /\ screen = Blank
    /\ mode = "x68k" /\ redrawRequested = FALSE
    /\ program \in Programs /\ changes = 0

Change(kind) ==
    /\ kind \in program /\ changes < MaxChanges
    /\ changes' = changes + 1 /\ UNCHANGED program

--------------------------------------------------------------------------------
(* Core1, between two pictures: a slice of the guest *)

Guest(kind) ==
    /\ Change(kind) /\ drawing = None
    /\ UNCHANGED <<channelVars, zoomed, image, screen, mode, redrawRequested>>

\* SystemBus::write to the text plane; markTextDirty.
WriteText(v) ==
    /\ Guest("text")
    /\ guest' = [guest EXCEPT !.text[v] = ~@]
    /\ textDirty' = TRUE
    /\ renderer' = Damage(renderer, v)

\* SystemBus::writeGvramDot; markGraphicDirty reports the place in video memory.
WriteGraphic(v) ==
    /\ Guest("graphic")
    /\ guest' = [guest EXCEPT !.graphic[v] = ~@]
    /\ renderer' = Damage(renderer, v)
    /\ UNCHANGED textDirty

\* VideoController::write: a display-enable bit, a palette entry.
EnableGraphic ==
    /\ Guest("enable")
    /\ guest' = [guest EXCEPT !.enabled = ~@]
    /\ renderer' = DamageAll(renderer) /\ UNCHANGED textDirty
WritePalette ==
    /\ Guest("palette")
    /\ guest' = [guest EXCEPT !.palette = ~@]
    /\ renderer' = DamageAll(renderer) /\ UNCHANGED textDirty

\* Crtc::write of a scroll register, which reports nothing.
Scroll(v) ==
    /\ Guest("scroll")
    /\ guest' = [guest EXCEPT !.scroll = v]
    /\ UNCHANGED <<renderer, textDirty>>

--------------------------------------------------------------------------------
(* Core1, the picture *)

\* DisplayLcd::setZoom
SetZoom ==
    /\ drawing = None /\ Change("zoom")
    /\ zoomed' = ~zoomed /\ renderer' = [renderer EXCEPT !.force = TRUE]
    /\ UNCHANGED <<channelVars, guest, textDirty, image, screen, mode, redrawRequested>>

\* Mutant: the request is taken and forgotten.
ExchangeForgets ==
    /\ redrawRequested' = FALSE
    /\ UNCHANGED <<guest, textDirty, zoomed, renderer, image, screen, mode, program, changes>>

\* g_redrawRequested.exchange(false), on every turn of the loop.
ExchangeRedraw ==
    /\ redrawRequested' = FALSE
    /\ renderer' = IF redrawRequested THEN [renderer EXCEPT !.force = TRUE] ELSE renderer
    /\ UNCHANGED <<guest, textDirty, zoomed, image, screen, mode, program, changes>>

\* tryWriteBuffer; or the drawing budget is spent, or every buffer is out.
Borrow == TryWriteBuffer /\ ExchangeRedraw
PutOff == drawing = None /\ ExchangeRedraw /\ UNCHANGED channelVars

\* renderTo, and publish when it has drawn something.
Render ==
    LET tiles == DrawnTiles(renderer, View, drawing)
    IN  /\ drawing # None /\ nextSeq <= MaxPublished
        /\ image' = [image EXCEPT ![drawing] =
                        [t \in Tile |-> IF t \in tiles THEN Pixel(t) ELSE @[t]]]
        /\ renderer' = AfterRender(renderer, View, drawing)
        /\ textDirty' = (textDirty /\ ~ClearsTextDirty(renderer, View))
        /\ IF tiles = {} THEN Keep ELSE Publish
        /\ UNCHANGED <<guest, zoomed, screen, mode, redrawRequested, program, changes>>

--------------------------------------------------------------------------------
(* Core0 *)

Fetch ==
    /\ Take
    /\ UNCHANGED <<guest, textDirty, zoomed, renderer, image, screen, mode, redrawRequested, program, changes>>

\* The picture is sent unless the face is shown, and the buffer given back.
Send ==
    /\ sending # None
    /\ screen' = IF mode = "x68k" THEN image[sending] ELSE screen
    /\ Done
    /\ UNCHANGED <<guest, textDirty, zoomed, renderer, image, mode, redrawRequested, program, changes>>

\* AppModeMachine::request and applyModeTransition, between two pictures.
ShowFace ==
    /\ sending = None /\ mode = "x68k" /\ Change("face")
    /\ mode' = "face" /\ screen' = Face
    /\ UNCHANGED <<channelVars, guest, textDirty, zoomed, renderer, image, redrawRequested>>
ShowX68k ==
    /\ sending = None /\ mode = "face" /\ Change("face")
    /\ mode' = "x68k" /\ redrawRequested' = TRUE
    /\ UNCHANGED <<channelVars, guest, textDirty, zoomed, renderer, image, screen>>

Next ==
    \/ \E v \in Vram : WriteText(v) \/ WriteGraphic(v) \/ Scroll(v)
    \/ EnableGraphic \/ WritePalette
    \/ SetZoom \/ PutOff \/ Borrow \/ Render
    \/ Fetch \/ Send \/ ShowFace \/ ShowX68k

Spec == Init /\ [][Next]_pipelineVars

\* Both tasks loop for ever, and the drawing budget (RenderBudget) only puts a
\* picture off.
FairSpec ==
    /\ Spec
    /\ WF_pipelineVars(Borrow) /\ WF_pipelineVars(Render)
    /\ WF_pipelineVars(Fetch) /\ WF_pipelineVars(Send)

--------------------------------------------------------------------------------
TypeOK ==
    /\ ChannelTypeOK
    /\ guest \in GuestType /\ textDirty \in BOOLEAN /\ zoomed \in BOOLEAN
    /\ renderer \in RendererType
    /\ mode \in {"face", "x68k"} /\ redrawRequested \in BOOLEAN /\ program \in Programs
    /\ changes \in 0 .. MaxChanges

\* A picture that is published is the guest's screen, every tile of it, although
\* only the tiles that had changed were drawn, into a buffer that last held another
\* picture (renderTo and TileGenerations, across a wrap of the generations).
PublishedIsScreen ==
    [][\A b \in Buffer : slots[b] = "Writing" /\ slots'[b] = "Ready" => image'[b] = Picture]_pipelineVars

\* Once the guest stops drawing and the LCD is the X68000's, it shows the guest's
\* screen: no change is left behind in a buffer, a queue or a flag
\* (main.cpp: "otherwise the screen is not updated until the VRAM next changes").
\* A zoomed picture is drawn again on every turn, so the bound on pictures ends it.
LcdCatchesUp == <>[](mode = "x68k" /\ nextSeq <= MaxPublished => screen = Picture)

\* Some numbers, the smallest first.
Ascending(numbers) ==
    [i \in 1 .. Cardinality(numbers) |->
        CHOOSE n \in numbers : Cardinality({m \in numbers : m < n}) = i - 1]

\* The pictures that wait, as their serial numbers, the oldest first.
WaitingSerials == {readySeq[b] : b \in InSlot("Ready")}
Waiting == Ascending(WaitingSerials)

\* Whatever the two cores do, the channel is a queue: every picture published is
\* sent, once and in turn, and none is dropped while all buffers are out.
Queue == INSTANCE FrameQueue
         WITH queue <- Waiting, published <- nextSeq - 1, Capacity <- Buffers,
              transfer <- IF sending = None THEN 0 ELSE readySeq[sending]
ImplementsQueue == Queue!Spec

================================================================================
