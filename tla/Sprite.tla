------------------------------- MODULE Sprite -------------------------------
(***************************************************************************)
(* The animation of one sprite of the game: the index of the frame that    *)
(* RenderSystem::render reads from the string of its frames.               *)
(*                                                                         *)
(* sprite    frames is the length of the string; the other fields are the  *)
(*           members of Sprite with their names                            *)
(* slowDown  static in RenderSystem::update: only every third call moves   *)
(*           animations on                                                 *)
(***************************************************************************)
EXTENDS Integers

VARIABLES sprite, slowDown

vars == <<sprite, slowDown>>

\* What createSprite and createMob are called with: frames, animated, frameRate.
Kind(f, a, r) == [frames |-> f, animated |-> a, frameRate |-> r]
Snake == Kind(4, FALSE, 0)
Kinds ==
  {Kind(2, TRUE, 6), Kind(4, TRUE, 2), Kind(2, TRUE, 1),      \* ground cover, orc's arms
   Kind(1, TRUE, 1), Kind(2, TRUE, 3), Snake,                 \* rabbit and player, orc
   Kind(2, FALSE, 0), Kind(1, FALSE, 0)}                      \* snake's tail, blood, bones

\* The constructor: an animation starts at either of two frames, whatever
\* their number.
Init ==
  /\ slowDown = 0
  /\ \E k \in Kinds : \E f \in 0 .. 1, n \in 0 .. k.frameRate :
       sprite = [kind |-> k, frame |-> IF k.animated THEN f ELSE 0,
                 frameCounter |-> IF k.animated THEN n ELSE 0, flashTimer |-> 0]

Animated(s) ==
  IF ~s.kind.animated THEN s
  ELSE IF s.frameCounter + 1 < s.kind.frameRate
         THEN [s EXCEPT !.frameCounter = @ + 1]
  ELSE [s EXCEPT !.frame = (@ + 1) % s.kind.frames, !.frameCounter = 0]

Faded(s) == IF s.flashTimer > 0 THEN [s EXCEPT !.flashTimer = @ - 1] ELSE s

\* RenderSystem::update
Update ==
  IF slowDown >= 2 THEN slowDown' = 0 /\ sprite' = Faded(Animated(sprite))
  ELSE slowDown' = slowDown + 1 /\ UNCHANGED sprite

\* A snake shows where it goes (updateMob).
Face ==
  /\ sprite.kind = Snake
  /\ \E f \in 0 .. 3 : sprite' = [sprite EXCEPT !.frame = f]
  /\ UNCHANGED slowDown

\* A mob that is hit flashes (MobSystem::handleEvent).
Flash == sprite' = [sprite EXCEPT !.flashTimer = 2] /\ UNCHANGED slowDown

Next == Update \/ Face \/ Flash

Spec == Init /\ [][Next]_vars
-----------------------------------------------------------------------------
SpriteType ==
  [kind : Kinds, frame : Int, frameCounter : Int, flashTimer : Int]

Shows(s) == s.frame \in 0 .. s.kind.frames - 1

\* A frame that render() may read: a string ends with a 0 that may be read.  The
\* constructor's random 0 or 1 is one too many for the rabbit and the player.
FrameIsReadable == sprite.frame \in 0 .. sprite.kind.frames

\* A sprite that shows one of its frames never goes back to showing none,
\* though its first frame may be one too many (RenderSystem::update).
KeepsShowing == Shows(sprite) => Shows(sprite')
StaysVisible == [][KeepsShowing]_vars
=============================================================================
