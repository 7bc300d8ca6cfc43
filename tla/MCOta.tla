-------------------------------- MODULE MCOta -------------------------------
EXTENDS Ota
=============================================================================
