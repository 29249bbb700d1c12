------------------------- MODULE MCSessionLifecycle -------------------------
(* Small instances of SessionLifecycle: two slots, owned by one local thread *)
(* (the server started with -local 1) or by one each, two or three sockets,  *)
(* one or two users.                                                         *)
EXTENDS SessionLifecycle, TLC

CONSTANTS t1, t2, s1, s2

OneThread  == [s \in Slots |-> t1]
TwoThreads == s1 :> t1 @@ s2 :> t2

\* The owner of a slot distinguishes the slots of two threads, so that the slots
\* are interchangeable only if one thread owns them all.
SymmetryOne == Permutations(Slots) \cup Permutations(Sockets) \cup Permutations(Users)
SymmetryTwo == Permutations(Sockets) \cup Permutations(Users)
=============================================================================
