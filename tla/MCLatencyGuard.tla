--------------------------- MODULE MCLatencyGuard ---------------------------
EXTENDS LatencyGuard, TLC

\* Nothing orders the caps.
CapSymmetry == Permutations(Caps)
=============================================================================
