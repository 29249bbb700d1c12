----------------------------- MODULE MCMPSCQueue -----------------------------
(* Small instances of MPSCQueue: one to three producers and a ring of two or *)
(* four elements.                                                            *)
EXTENDS MPSCQueue, TLC

Symmetry == Permutations(Producers)
=============================================================================
