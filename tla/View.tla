-------------------------------- MODULE View --------------------------------
(***************************************************************************)
(* What the game shows: the mapping between world and window coordinates,  *)
(* the camera that follows the player and shakes, and what the renderer    *)
(* writes into which cell of the window.                                   *)
(*                                                                         *)
(* win   [width, height], the size of the window                           *)
(* bounds  [left, top, width, height], the world (recti; y grows upwards)  *)
(* view  the camera members of Game:                                       *)
(*       at        cameraPosition       target    cameraTarget             *)
(*       shake     cameraShake          timer     cameraShakeTimer         *)
(*       strength  cameraShakeStrength  offset    cameraShakeOffset        *)
(*       tick      cameraTick_, static in updateCamera                     *)
(***************************************************************************)
EXTENDS Integers

CONSTANT ShakeReach     \* how far a shake moves the view; 1 in the code

ASSUME ShakeReachAssumption == ShakeReach \in Nat

Vec(a, b) == [x |-> a, y |-> b]                                     \* vec2i
Plus(p, q) == Vec(p.x + q.x, p.y + q.y)
Origin == Vec(0, 0)

Sign(n) == IF n > 0 THEN 1 ELSE IF n < 0 THEN -1 ELSE 0

\* recti::contains: top is the last row inside, the other limits as usual.
RectContains(r, p) ==
  /\ p.x >= r.left /\ p.x < r.left + r.width
  /\ p.y <= r.top  /\ p.y > r.top - r.height

CamFinal(view) == IF view.shake THEN Plus(view.at, view.offset) ELSE view.at

\* The window's y grows downwards, the world's upwards.
WorldCoord(win, view, s) ==
  LET cam == CamFinal(view)
  IN  Vec(s.x - win.width \div 2 + cam.x, -(s.y - win.height \div 2 - cam.y))

ScreenCoord(win, view, p) ==
  LET cam == CamFinal(view)
  IN  Vec(p.x - cam.x + win.width \div 2, cam.y - p.y + win.height \div 2)

WindowBounds(win) ==
  [left |-> 0, top |-> win.height - 1, width |-> win.width, height |-> win.height]

OnScreen(win, view, p) == RectContains(WindowBounds(win), ScreenCoord(win, view, p))
-----------------------------------------------------------------------------
(* The camera.                                                             *)

InitView(p) ==
  [at |-> p, target |-> p, shake |-> FALSE, timer |-> 0, strength |-> 2,
   offset |-> Origin, tick |-> 0]

StartShake(view, strength) ==
  [view EXCEPT !.shake = TRUE, !.timer = 0, !.strength = strength]

Shifts == -ShakeReach .. ShakeReach

Offsets(strength) ==
  {Vec(i, j) : i, j \in Shifts} \
    (IF strength = 1 THEN {Vec(i, j) : i, j \in Shifts \ {0}} ELSE {})

\* First half of updateCamera: the shake, faster when it is a weak one.
Shaken(view) ==
  LET now == view.timer + IF view.strength = 1 THEN 2 ELSE 1
  IN  IF ~view.shake THEN {view}
      ELSE IF now > 7 THEN {[view EXCEPT !.shake = FALSE, !.offset = Origin, !.timer = 0]}
      ELSE IF now % 2 = 0
             THEN {[view EXCEPT !.timer = now, !.offset = o] : o \in Offsets(view.strength)}
             ELSE {[view EXCEPT !.timer = now]}

\* Second half: every other frame the camera moves one step to its target.
Followed(view) ==
  IF view.at = view.target THEN view
  ELSE IF view.tick = 0 THEN [view EXCEPT !.tick = 1]
  ELSE [view EXCEPT !.tick = 0,
                    !.at = Plus(@, Vec(Sign(view.target.x - @.x), Sign(view.target.y - @.y)))]

CameraUpdates(view) == {Followed(v) : v \in Shaken(view)}

CameraMargin == Vec(8, 4)

\* Mutant of Tracked: the y axis of the window taken for that of the world.
TrackedUpsideDown(win, view, p) ==
  LET s == ScreenCoord(win, view, p)
      move == IF win.height - s.y < CameraMargin.y THEN Vec(0, CameraMargin.y)
              ELSE IF s.y < CameraMargin.y THEN Vec(0, -CameraMargin.y)
              ELSE Origin
  IN  [view EXCEPT !.target = Plus(@, move)]

\* The player walked to p: near an edge of the window the target moves on.
Tracked(win, view, p) ==
  LET s == ScreenCoord(win, view, p)
      move == IF win.width - s.x < CameraMargin.x THEN Vec(CameraMargin.x, 0)
              ELSE IF s.x < CameraMargin.x THEN Vec(-CameraMargin.x, 0)
              ELSE IF win.height - s.y < CameraMargin.y THEN Vec(0, -CameraMargin.y)
              ELSE IF s.y < CameraMargin.y THEN Vec(0, CameraMargin.y)
              ELSE Origin
  IN  [view EXCEPT !.target = Plus(@, move)]
-----------------------------------------------------------------------------
(* The renderer.                                                           *)

Cells(win) == [x : 0 .. win.width - 1, y : 0 .. win.height - 1]

\* Game::groundTile: the place of p in the array of tiles, its first row on top.
TilePlace(bounds, p) == Vec(p.x - bounds.left, bounds.top - p.y)

\* Array2D::inBounds of the tiles.
TileInBounds(bounds, q) ==
  /\ q.x >= 0 /\ q.x < bounds.width
  /\ q.y >= 0 /\ q.y < bounds.height

\* renderGround and the main mass of renderOcean: the cells each one sets.
GroundCells(win, view, bounds) ==
  {s \in Cells(win) : LET p == WorldCoord(win, view, s)
                      IN  OnScreen(win, view, p) /\ RectContains(bounds, p)}
OceanCells(win, view, bounds) ==
  {s \in Cells(win) : LET p == WorldCoord(win, view, s)
                      IN  OnScreen(win, view, p) /\ ~RectContains(bounds, p)}

\* The sprites' and the surf's cells: positions of the world that are on screen.
CellsOf(win, view, positions) ==
  {ScreenCoord(win, view, p) : p \in {q \in positions : OnScreen(win, view, q)}}

\* The surf: depth cells inwards from each of the four edges of the world, the
\* depth 1 + (int)(2 + 2 * cos * sin) of the place and the time.
SurfDepth == 1 .. 5
Surf(bounds, depth) ==
  LET bottom == bounds.top - bounds.height + 1
      right  == bounds.left + bounds.width - 1
      xs == bounds.left .. right
      ys == bottom .. bounds.top
      ds == 0 .. depth - 1
  IN  {Vec(i, bounds.top - d) : i \in xs, d \in ds} \cup {Vec(i, bottom + d) : i \in xs, d \in ds}
        \cup {Vec(right - d, j) : j \in ys, d \in ds} \cup {Vec(bounds.left + d, j) : j \in ys, d \in ds}

\* The index a wave is looked up with, for any position and time: mod() of the
\* hash in renderOcean.  % of the code truncates, -n % m is of a positive n.
WaveIndex(n, m) == IF n >= 0 THEN n % m ELSE m - 1 - ((-n) % m)
=============================================================================
