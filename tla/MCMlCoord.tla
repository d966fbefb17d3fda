------------------------------ MODULE MCMlCoord -----------------------------
EXTENDS MlCoord
=============================================================================
