------------------------------- MODULE MCGame -------------------------------
(* Small worlds for TLC.                                                   *)
EXTENDS Game

UpDown == {Vec(0, 1), Vec(0, -1)}
LeftRight == {Vec(1, 0), Vec(-1, 0)}

\* The smallest window for which the theorem Seeing holds.
Window == [width |-> 36, height |-> 17]

\* A room with the player and a mob: everything happens in the middle of
\* the window, the camera need not move.
Room(width, mobs) ==
  [bounds |-> [left |-> 1 - width \div 2, top |-> 1, width |-> width, height |-> 2],
   window |-> Window, mobs |-> mobs, keys |-> LeftRight]

\* A shaft that is higher than the window, the player alone in it.
Shaft(height) ==
  [bounds |-> [left |-> 0, top |-> height \div 2, width |-> 1, height |-> height],
   window |-> Window, mobs |-> <<>>, keys |-> UpDown]

Worlds == {Shaft(21)} \cup {Room(2, <<mob>>) : mob \in {"Rabbit", "Snake", "OrcStrong"}}
=============================================================================
