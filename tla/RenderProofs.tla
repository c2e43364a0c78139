---------------------------- MODULE RenderProofs ----------------------------
(***************************************************************************)
(* What the renderer reads and draws, for every window, world and camera.  *)
(***************************************************************************)
EXTENDS Sprite, View, TLAPS
-----------------------------------------------------------------------------
(* The view.                                                               *)

\* Places, windows, views and the bounds of a world.
Coord == [x : Int, y : Int]
Win == [width : Nat, height : Nat]
ViewType == [at : Coord, target : Coord, shake : BOOLEAN, timer : Int, strength : Int,
             offset : Coord, tick : Int]
Rect == [left : Int, top : Int, width : Nat, height : Nat]

\* The camera, shaken or not, is at a place.
LEMMA CamFinalType ==
  ASSUME NEW view \in ViewType
  PROVE  CamFinal(view) \in Coord
BY DEF CamFinal, ViewType, Coord, Plus, Vec

\* The middle of a window is a whole number of cells away.
LEMMA HalfType ==
  ASSUME NEW n \in Nat
  PROVE  n \div 2 \in Nat
OBVIOUS

\* screenCoord undoes worldCoord, whatever the camera does and however odd the
\* size of the window: what is drawn at s is what the world has there
\* (game.cpp:269-281).
THEOREM ScreenOfWorld ==
  ASSUME NEW win \in Win, NEW view \in ViewType, NEW s \in Coord
  PROVE  WorldCoord(win, view, s) \in Coord /\ ScreenCoord(win, view, WorldCoord(win, view, s)) = s
<1>1. PICK cam \in Coord : cam = CamFinal(view)
  BY CamFinalType
<1>2. PICK w \in Int, h \in Int : w = win.width \div 2 /\ h = win.height \div 2
  BY HalfType DEF Win
<1>3. WorldCoord(win, view, s) = Vec(s.x - w + cam.x, -(s.y - h - cam.y))
  BY <1>1, <1>2 DEF WorldCoord
<1>4. \A p \in Coord : ScreenCoord(win, view, p) = Vec(p.x - cam.x + w, cam.y - p.y + h)
  BY <1>1, <1>2 DEF ScreenCoord
<1>5. WorldCoord(win, view, s) \in Coord
  BY <1>3 DEF Coord, Vec
<1> QED BY <1>3, <1>4, <1>5 DEF Coord, Vec

\* Every cell of the window shows either a tile of the ground or the ocean:
\* the two loops of the renderer leave none out and none to both
\* (rendersystem.cpp:72-84, 104-113).
THEOREM EveryCellIsDrawn ==
  ASSUME NEW win \in Win, NEW view \in ViewType, NEW bounds \in Rect
  PROVE  /\ GroundCells(win, view, bounds) \cup OceanCells(win, view, bounds) = Cells(win)
         /\ GroundCells(win, view, bounds) \cap OceanCells(win, view, bounds) = {}
<1>1. ASSUME NEW s \in Cells(win)
      PROVE  OnScreen(win, view, WorldCoord(win, view, s))
  <2>1. s \in Coord /\ s.x \in 0 .. win.width - 1 /\ s.y \in 0 .. win.height - 1
    BY DEF Cells, Coord, Win
  <2>2. ScreenCoord(win, view, WorldCoord(win, view, s)) = s
    BY <2>1, ScreenOfWorld
  <2> QED BY <2>1, <2>2 DEF OnScreen, WindowBounds, RectContains, Win
<1> QED BY <1>1 DEF GroundCells, OceanCells

\* Sprites and surf only ever write cells of the window.
THEOREM NothingDrawnOutside ==
  ASSUME NEW win \in Win, NEW view \in ViewType, NEW P \in SUBSET Coord
  PROVE  CellsOf(win, view, P) \subseteq Cells(win)
<1> SUFFICES ASSUME NEW p \in P, OnScreen(win, view, p)
             PROVE  ScreenCoord(win, view, p) \in Cells(win)
  BY DEF CellsOf
<1>1. PICK a \in Int, b \in Int : ScreenCoord(win, view, p) = Vec(a, b)
  <2>1. CamFinal(view) \in Coord /\ win.width \div 2 \in Int /\ win.height \div 2 \in Int
    BY CamFinalType, HalfType DEF Win
  <2>2. p \in Coord
    OBVIOUS
  <2>3. p.x - CamFinal(view).x + win.width \div 2 \in Int
        /\ CamFinal(view).y - p.y + win.height \div 2 \in Int
    BY <2>1, <2>2 DEF Coord
  <2> QED BY <2>3 DEF ScreenCoord
<1> QED BY <1>1 DEF OnScreen, RectContains, WindowBounds, Cells, Win, Vec

\* A position has a tile exactly when it is inside the world: groundTile never
\* falls back to the one value all missing tiles share (game.h:32-35, util.h:266-276).
THEOREM TileOfEveryPlace ==
  ASSUME NEW bounds \in Rect, NEW p \in Coord
  PROVE  RectContains(bounds, p) <=> TileInBounds(bounds, TilePlace(bounds, p))
BY DEF RectContains, TileInBounds, TilePlace, Vec, Rect, Coord

\* The surf stays in a world that is at least as large as the surf is deep.
THEOREM SurfIsInTheWorld ==
  ASSUME NEW bounds \in Rect, NEW depth \in SurfDepth, bounds.width >= 5, bounds.height >= 5,
         NEW p \in Surf(bounds, depth)
  PROVE  RectContains(bounds, p)
<1> DEFINE bottom == bounds.top - bounds.height + 1
           right == bounds.left + bounds.width - 1
<1>1. \/ \E i \in bounds.left .. right, d \in 0 .. depth - 1 :
           p = Vec(i, bounds.top - d) \/ p = Vec(i, bottom + d)
      \/ \E j \in bottom .. bounds.top, d \in 0 .. depth - 1 :
           p = Vec(right - d, j) \/ p = Vec(bounds.left + d, j)
  BY DEF Surf
<1>2. ASSUME NEW i \in bounds.left .. right, NEW d \in 0 .. depth - 1
      PROVE  RectContains(bounds, Vec(i, bounds.top - d)) /\ RectContains(bounds, Vec(i, bottom + d))
  BY <1>2 DEF SurfDepth, RectContains, Rect, Vec
<1>3. ASSUME NEW j \in bottom .. bounds.top, NEW d \in 0 .. depth - 1
      PROVE  RectContains(bounds, Vec(right - d, j)) /\ RectContains(bounds, Vec(bounds.left + d, j))
  BY <1>3 DEF SurfDepth, RectContains, Rect, Vec
<1> HIDE DEF bottom, right
<1> QED BY <1>1, <1>2, <1>3

\* The lookup of a wave is inside the table for every place and every time,
\* negative ones too, where % of the code is negative or 0 (rendersystem.cpp:91-101).
THEOREM WaveIndexInTable ==
  ASSUME NEW n \in Int, NEW m \in Nat \ {0}
  PROVE  WaveIndex(n, m) \in 0 .. m - 1
<1>1. \A k \in Nat : k % m \in 0 .. m - 1
  OBVIOUS
<1>2. CASE n >= 0
  BY <1>1, <1>2 DEF WaveIndex
<1>3. CASE n < 0
  <2>1. -n \in Nat
    BY <1>3
  <2> QED BY <1>1, <1>3, <2>1 DEF WaveIndex
<1> QED BY <1>2, <1>3

\* How far apart two numbers are.
Distance(a, b) == IF a > b THEN a - b ELSE b - a

\* The camera never moves away from its target and never past it, in either
\* direction (game.cpp:537-546).
THEOREM CameraApproaches ==
  ASSUME NEW view \in ViewType
  PROVE  /\ Distance(Followed(view).at.x, view.target.x) <= Distance(view.at.x, view.target.x)
         /\ Distance(Followed(view).at.y, view.target.y) <= Distance(view.at.y, view.target.y)
<1>1. view.at \in Coord /\ view.target \in Coord
  BY DEF ViewType
<1>2. CASE Followed(view).at = view.at
  BY <1>1, <1>2 DEF Distance, Coord
<1>3. CASE Followed(view).at # view.at
  <2>1. Followed(view).at = Plus(view.at, Vec(Sign(view.target.x - view.at.x),
                                              Sign(view.target.y - view.at.y)))
    BY <1>3 DEF Followed, ViewType
  <2> QED BY <1>1, <2>1 DEF Plus, Vec, Sign, Distance, Coord
<1> QED BY <1>2, <1>3
-----------------------------------------------------------------------------
(* The sprites.                                                            *)

\* A sprite has its type, and shows a frame that may be read.
Inv == sprite \in SpriteType /\ FrameIsReadable

\* How many frames the sprites of the game have.
LEMMA KindsType ==
  ASSUME NEW k \in Kinds
  PROVE  k.frames \in 1 .. 4 /\ (k = Snake => k.frames = 4) /\ (k.animated \/ k.frameRate = 0)
BY DEF Kinds, Kind, Snake

\* An animation leaves its frame alone or shows one of its frames.
LEMMA AnimatedShows ==
  ASSUME NEW s \in SpriteType, s.frame \in 0 .. s.kind.frames
  PROVE  /\ Animated(s) \in SpriteType /\ Animated(s).kind = s.kind
         /\ Animated(s).frame = s.frame \/ Shows(Animated(s))
<1>1. s.kind \in Kinds /\ s.kind.frames \in 1 .. 4
  BY KindsType DEF SpriteType
<1>2. (s.frame + 1) % s.kind.frames \in 0 .. s.kind.frames - 1
  BY <1>1 DEF SpriteType
<1>3. CASE ~s.kind.animated
  BY <1>3 DEF Animated
<1>4. CASE s.kind.animated /\ s.frameCounter + 1 < s.kind.frameRate
  <2>1. Animated(s) = [s EXCEPT !.frameCounter = @ + 1]
    BY <1>4 DEF Animated
  <2> QED BY <2>1 DEF SpriteType
<1>5. CASE s.kind.animated /\ ~(s.frameCounter + 1 < s.kind.frameRate)
  <2>1. Animated(s) = [s EXCEPT !.frame = (s.frame + 1) % s.kind.frames, !.frameCounter = 0]
    BY <1>5 DEF Animated
  <2>2. Animated(s).frame = (s.frame + 1) % s.kind.frames /\ Animated(s).kind = s.kind
    BY <2>1 DEF SpriteType
  <2>3. (s.frame + 1) % s.kind.frames \in Int
    BY <1>1, <1>2
  <2>4. Animated(s) \in SpriteType
    <3>1. ASSUME NEW f \in Int
          PROVE  [s EXCEPT !.frame = f, !.frameCounter = 0] \in SpriteType
      <4>1. [s EXCEPT !.frame = f] \in SpriteType
        BY DEF SpriteType
      <4>2. \A t \in SpriteType : [t EXCEPT !.frameCounter = 0] \in SpriteType
        BY DEF SpriteType
      <4> QED BY <4>1, <4>2
    <3> QED BY <2>1, <2>3, <3>1
  <2> QED BY <1>2, <2>2, <2>4 DEF Shows
<1> QED BY <1>3, <1>4, <1>5

\* A flash that fades leaves the frame alone.
LEMMA FadedShows ==
  ASSUME NEW s \in SpriteType
  PROVE  Faded(s) \in SpriteType /\ Faded(s).kind = s.kind /\ Faded(s).frame = s.frame
BY DEF Faded, SpriteType

\* Every step of a sprite keeps what is to be proved of it.
LEMMA StepKeeps ==
  ASSUME Inv, [Next]_vars
  PROVE  Inv' /\ KeepsShowing
<1>1. CASE Update
  <2>1. CASE sprite' = Faded(Animated(sprite))
    <3> DEFINE a == Animated(sprite)
    <3>1. a \in SpriteType /\ a.kind = sprite.kind /\ (a.frame = sprite.frame \/ Shows(a))
      BY AnimatedShows DEF Inv, FrameIsReadable
    <3>2. sprite' \in SpriteType /\ sprite'.kind = a.kind /\ sprite'.frame = a.frame
      BY <2>1, <3>1, FadedShows
    <3>3. sprite.kind.frames \in 1 .. 4
      BY KindsType DEF Inv, SpriteType
    <3> HIDE DEF a
    <3> QED BY <3>1, <3>2, <3>3 DEF Inv, FrameIsReadable, KeepsShowing, Shows
  <2>2. CASE sprite' = sprite
    BY <2>2 DEF Inv, FrameIsReadable, KeepsShowing, Shows
  <2> QED BY <1>1, <2>1, <2>2 DEF Update
<1>2. CASE Face
  <2>1. sprite.kind.frames = 4
    BY <1>2, KindsType DEF Face, Inv, SpriteType
  <2> QED BY <1>2, <2>1 DEF Face, Inv, FrameIsReadable, KeepsShowing, Shows, SpriteType
<1>3. CASE Flash
  BY <1>3 DEF Flash, Inv, FrameIsReadable, KeepsShowing, Shows, SpriteType
<1>4. CASE UNCHANGED vars
  BY <1>4 DEF vars, Inv, FrameIsReadable, KeepsShowing, Shows
<1> QED BY <1>1, <1>2, <1>3, <1>4 DEF Next

\* A new sprite may show one frame too many, but none that may not be read.
LEMMA InitKeeps == Init => Inv
<1> SUFFICES ASSUME Init PROVE Inv
  OBVIOUS
<1>1. PICK k \in Kinds : \E f \in 0 .. 1, n \in 0 .. k.frameRate :
        sprite = [kind |-> k, frame |-> IF k.animated THEN f ELSE 0,
                  frameCounter |-> IF k.animated THEN n ELSE 0, flashTimer |-> 0]
  BY DEF Init
<1>2. PICK f \in 0 .. 1, n \in 0 .. k.frameRate :
        sprite = [kind |-> k, frame |-> IF k.animated THEN f ELSE 0,
                  frameCounter |-> IF k.animated THEN n ELSE 0, flashTimer |-> 0]
  BY <1>1
<1>3. k.frames \in 1 .. 4
  BY KindsType
<1> QED BY <1>2, <1>3 DEF Inv, SpriteType, FrameIsReadable

\* The renderer only reads frames it may read, at any time.
THEOREM FramesAreReadable == Spec => []FrameIsReadable
<1>1. Inv => FrameIsReadable
  BY DEF Inv
<1> QED BY InitKeeps, StepKeeps, <1>1, PTL DEF Spec

\* Once visible, always visible: no step of an animation leaves the string.
THEOREM VisibleForGood == Spec => StaysVisible
BY InitKeeps, StepKeeps, PTL DEF Spec, StaysVisible
=============================================================================
