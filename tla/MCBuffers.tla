----------------------------- MODULE MCBuffers -----------------------------
\* Small instances of Buffers for TLC.
EXTENDS Buffers, TLC

CONSTANTS m1, m2, m3

\* Nothing tells one buffer from another.
Perms == Permutations(Mbufs)
=============================================================================
