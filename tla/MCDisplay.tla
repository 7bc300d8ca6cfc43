------------------------------ MODULE MCDisplay -----------------------------
EXTENDS Display
=============================================================================
