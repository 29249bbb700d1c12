-------------------------------- MODULE MCServer --------------------------------
EXTENDS Server, TLC

\* Nothing tells one connection from another; for the runs without liveness properties.
Symmetry == Permutations(Sockets)
================================================================================
