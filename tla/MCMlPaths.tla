------------------------------ MODULE MCMlPaths -----------------------------
EXTENDS MlPaths, TLC
\* Nothing tells the keys apart.
Symmetric == Permutations(Keys)
=============================================================================
