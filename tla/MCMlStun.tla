------------------------------- MODULE MCMlStun -----------------------------
EXTENDS MlStun
=============================================================================
