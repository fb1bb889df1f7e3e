-------------------------- MODULE MCServerCommands --------------------------
(* ServerCommands with a ring of two slots.                                *)
EXTENDS ServerCommands
=============================================================================
