---------------------------- MODULE MCGameState ----------------------------
EXTENDS GameState
=============================================================================
