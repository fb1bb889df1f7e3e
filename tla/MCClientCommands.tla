-------------------------- MODULE MCClientCommands --------------------------
(* ClientCommands with a ring of two slots; four commands wrap it twice.   *)
EXTENDS ClientCommands
=============================================================================
