---------------------------- MODULE BufferAllocator ----------------------------
(* What the users of the packet buffer pool rely on: Acquire gives out a buffer that  *)
(* nobody is using, and Release ends the use of a buffer that has a user.             *)
EXTENDS Naturals

CONSTANT Buffers
VARIABLE users      \* how many users each buffer has

Init == users = [b \in Buffers |-> 0]

Take(b) == users[b] = 0 /\ users' = [users EXCEPT ![b] = 1]

Give(b) == users[b] = 1 /\ users' = [users EXCEPT ![b] = 0]

Next == \E b \in Buffers : Take(b) \/ Give(b)

Spec == Init /\ [][Next]_users
================================================================================
