----------------------------- MODULE MCConnect -----------------------------
EXTENDS Connect
=============================================================================
