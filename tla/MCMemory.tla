-------------------------------- MODULE MCMemory ------------------------------
\* EvdiMemory for TLC: the framebuffers are alike.
EXTENDS EvdiMemory, TLC

Sym == Permutations(Fbs)
=============================================================================
