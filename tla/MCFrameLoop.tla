---------------------------- MODULE MCFrameLoop ----------------------------
EXTENDS FrameLoop
=============================================================================
