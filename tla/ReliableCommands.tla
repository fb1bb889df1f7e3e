-------------------------- MODULE ReliableCommands --------------------------
(***************************************************************************)
(* What a stream of reliable commands promises to those who add commands   *)
(* at one end and take them at the other (the comments before              *)
(* CL_AddReliableCommand, code/client/cl_main.cpp:86, and                  *)
(* SV_AddServerCommand, code/server/sv_main.cpp:126): each command is taken*)
(* once, in the order of adding, and nothing else is.  How many are taken  *)
(* at a time is left open.  Commands are named by their numbers.           *)
(*                                                                         *)
(* The promise ends when a ring overflows: the connection is given up.     *)
(***************************************************************************)
EXTENDS Naturals, Sequences

VARIABLES
    added,      \* the number of commands added
    taken,      \* the commands taken, in the order of taking
    kept        \* the promise still stands

vars == <<added, taken, kept>>

Init == added = 0 /\ taken = <<>> /\ kept = TRUE

(* One handler may add several commands.                                   *)
Add == added' > added /\ UNCHANGED <<taken, kept>>

Take ==
    /\ \E n \in Len(taken) + 1 .. added : taken' = [i \in 1 .. n |-> i]
    /\ UNCHANGED <<added, kept>>

GiveUp == kept' = FALSE

Next == (kept /\ (Add \/ Take \/ GiveUp)) \/ ~kept

Spec == Init /\ [][Next]_vars
=============================================================================
