------------------------------ MODULE MCMlPeers -----------------------------
EXTENDS MlPeers
CONSTANTS a, b, c, d, a2
\* Four nodes, the first of which may change its key.
MCIpOf(k) == IF k = a2 THEN a ELSE k
=============================================================================
