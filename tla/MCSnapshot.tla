----------------------------- MODULE MCSnapshot -----------------------------
(* Snapshot with two views: in the second, two entities have appeared, one *)
(* with the values of its baseline, before one that has not changed and    *)
(* one that has.  They are more than the client's margin allows for.       *)
(* The other clients see none, or three.                                   *)
EXTENDS Snapshot

MCWorlds == {<<Entity(3, 1), Entity(4, 1)>>,
             <<Entity(1, 0), Entity(2, 1), Entity(3, 1), Entity(4, 2)>>}
MCOthers == {<<>>, <<Entity(5, 1), Entity(6, 1), Entity(7, 1)>>}
=============================================================================
