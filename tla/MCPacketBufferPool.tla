-------------------------- MODULE MCPacketBufferPool --------------------------
EXTENDS PacketBufferPool, TLC
CONSTANTS t1, t2, t3
Symmetry == Permutations(Threads)
================================================================================
