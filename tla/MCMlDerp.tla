------------------------------- MODULE MCMlDerp -----------------------------
EXTENDS MlDerp
=============================================================================
