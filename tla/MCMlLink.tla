------------------------------ MODULE MCMlLink ------------------------------
EXTENDS MlLink
=============================================================================
