----------------------------- MODULE TiledRenderer -----------------------------
(******************************************************************************)
(* How Core1 decides which tiles of a picture to draw again: TileGenerations and *)
(* TiledCompositor (core/video), and DisplayLcd::renderTo (platform), as          *)
(* operators on a record r.  Each tile of the scene carries the generation of its *)
(* last change, each tile of a buffer the generation it was drawn from; a tile is *)
(* drawn when the two differ, whichever is larger.                                *)
(******************************************************************************)
EXTENDS Integers, FiniteSets

CONSTANTS
    TiledBuffers,   \* TileGenerations::kBuffers
    Tiles,          \* kTiles: how many tiles a picture has
    Generations     \* 2^32: the width of a generation number

ASSUME TiledRendererAssumption ==
    /\ TiledBuffers \in Nat \ {0} /\ Tiles \in Nat \ {0}
    /\ Generations \in Nat /\ Generations > 2

Tile == 0 .. Tiles - 1
Generation == 0 .. Generations - 1

RendererType ==
    [generation : Generation,
     scene : [Tile -> Generation],                          \* scene_
     drawn : [1 .. TiledBuffers -> [Tile -> Generation]],        \* buffers_
     fullPending : BOOLEAN,         \* TiledCompositor::fullPending_
     scrollKey : Nat,               \* the scroll of the last picture, 0 without one
     force : BOOLEAN,               \* DisplayLcd::forceFullRedraw_
     wasComposited : BOOLEAN]

ResetRenderer ==
    [generation |-> 1, scene |-> [t \in Tile |-> 1],
     drawn |-> [b \in 1 .. TiledBuffers |-> [t \in Tile |-> 0]],
     fullPending |-> TRUE, scrollKey |-> 0, force |-> TRUE, wasComposited |-> FALSE]

--------------------------------------------------------------------------------
(* TileGenerations *)

\* Mutant: a wrap that leaves the buffers as they are.
AdvanceWithoutReset(r) ==
    [r EXCEPT !.generation = IF @ + 1 < Generations THEN @ + 1 ELSE 1]

\* TileGenerations::advance - a wrap makes every tile of every buffer stale.
AdvanceGeneration(r) ==
    IF r.generation + 1 < Generations
      THEN [r EXCEPT !.generation = @ + 1]
      ELSE [r EXCEPT !.generation = 1, !.scene = [t \in Tile |-> 1],
                     !.drawn = [b \in DOMAIN @ |-> [t \in Tile |-> 0]]]

\* TileGenerations::invalidateAll and invalidateRect, the rectangle given as tiles.
InvalidateTiles(r, tiles) ==
    LET next == AdvanceGeneration(r)
    IN  [next EXCEPT !.scene = [t \in Tile |-> IF t \in tiles THEN next.generation ELSE @[t]]]

\* TileGenerations::needsRender
NeedsRender(r, b) == {t \in Tile : r.drawn[b][t] # r.scene[t]}

--------------------------------------------------------------------------------
(* TiledCompositor *)

\* TiledCompositor::invalidate - what the video chips report; an area outside the
\* picture costs nothing, and nothing is collected while all of it is pending.
DamageAll(r) == [r EXCEPT !.fullPending = TRUE]
Damage(r, t) == IF r.fullPending \/ t \notin Tile THEN r ELSE InvalidateTiles(r, {t})

\* TiledCompositor::render up to its loop: a moved scroll, or a full redraw that is
\* pending, starts a generation of the whole scene.
Prepared(r, scrollKey) ==
    LET full == r.fullPending \/ scrollKey # r.scrollKey
        noted == [r EXCEPT !.scrollKey = scrollKey, !.fullPending = FALSE]
    IN  IF full THEN InvalidateTiles(noted, Tile) ELSE noted

\* Its loop: every tile that needs it has been composed again.
Rendered(r, b) == [r EXCEPT !.drawn[b] = [t \in Tile |-> r.scene[t]]]

--------------------------------------------------------------------------------
(* DisplayLcd::renderTo.  The view says what the guest shows and how: composited, *)
(* zoomed, its scroll key, and whether a row of text is marked dirty.             *)

CanTile(view) == view.composited /\ ~view.zoomed
ModeChanged(r, view) == view.composited # r.wasComposited

\* The tiles of buffer b that a call draws.
WholeRedraw(r, view) ==
    r.force \/ ModeChanged(r, view) \/ view.composited \/ view.textDirty
ToPrepare(r, view) == IF r.force \/ ModeChanged(r, view) THEN DamageAll(r) ELSE r
DrawnTiles(r, view, b) ==
    IF CanTile(view)
      THEN NeedsRender(Prepared(ToPrepare(r, view), view.scrollKey), b)
      ELSE IF WholeRedraw(r, view) THEN Tile ELSE {}

\* The renderer after it.  Text and zoomed pictures leave no generation behind:
\* going back to tiles starts over.
AfterRender(r, view, b) ==
    LET settled(n) == [n EXCEPT !.force = FALSE, !.wasComposited = view.composited]
    IN  IF CanTile(view)
          THEN settled(Rendered(Prepared(ToPrepare(r, view), view.scrollKey), b))
          ELSE IF WholeRedraw(r, view) THEN settled(DamageAll(r)) ELSE DamageAll(r)

\* Whether bus.clearTextDirty is called.
ClearsTextDirty(r, view) == CanTile(view) \/ WholeRedraw(r, view)

================================================================================
