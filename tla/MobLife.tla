------------------------------ MODULE MobLife ------------------------------
(***************************************************************************)
(* What the game promises of a mob, whatever carries it out: it lives, is  *)
(* struck dead once, and then leaves the world for good.  Nothing else     *)
(* ever takes a mob away.                                                  *)
(***************************************************************************)
CONSTANT Mobs

VARIABLE life

Init == life \in [Mobs -> {"alive", "gone"}]

StruckDead(m) == life[m] = "alive" /\ life' = [life EXCEPT ![m] = "dying"]

Leaves(m) == life[m] = "dying" /\ life' = [life EXCEPT ![m] = "gone"]

Next == \E m \in Mobs : StruckDead(m) \/ Leaves(m)

\* What may happen, and what must: nobody stays who is dead.
Safe == Init /\ [][Next]_life
Spec == Safe /\ \A m \in Mobs : WF_life(Leaves(m))
=============================================================================
