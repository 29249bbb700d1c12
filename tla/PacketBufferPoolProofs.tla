------------------------ MODULE PacketBufferPoolProofs ------------------------
(* The packet buffer pool keeps each buffer in one place, for any number of threads,  *)
(* sizes and releases, and gives each buffer that no two threads release at once to   *)
(* one user at a time.                                                                *)
EXTENDS PacketBufferPool, FiniteSetTheorems, TLAPS

\* The buffers that have been made.
Made == 1 .. pages * PageSize

\* A thread has a buffer in hand where the code supposes one, and PageLock on the slow path;
\* after Shutdown every thread is at rest.
WorkOK ==
  /\ \A t \in Threads :
       /\ pc[t] \in {"mark", "remark", "overflow", "release"} => buf[t] \in Made
       /\ pc[t] \in SlowPath => pageLock = t
  /\ pages = 0 => \A t \in Threads : pc[t] = "idle"

\* Whatever is free, cached or marked is a buffer that has been made.
OnlyMade ==
  pages > 0 =>
    /\ free \subseteq Made /\ allocated \subseteq Made
    /\ \A b \in Buffers : users[b] > 0 => b \in Made
    /\ \A t \in Threads : cache[t] \subseteq Made

\* A buffer that the pool has is not marked as allocated: Release will not put it there
\* a second time.
Unmarked ==
  /\ free \cap allocated = {}
  /\ \A t \in Threads : (cache[t] \cup Carried(t)) \cap allocated = {}

Typing == TypeOK /\ WorkOK /\ OnlyMade
Inv == Typing /\ OnePlace /\ Unmarked

LEMMA PagesAreMade ==
  ASSUME Typing, pages < MaxPages
  PROVE  /\ Page(pages + 1) \subseteq Buffers
         /\ Page(pages + 1) \cap Made = {}
         /\ Page(pages + 1) \subseteq 1 .. (pages + 1) * PageSize
         /\ Made \subseteq 1 .. (pages + 1) * PageSize
<1> USE SizeAssumption
<1>1. pages \in Nat /\ MaxPages - (pages + 1) \in Nat
  BY DEF Typing, TypeOK
<1>2. /\ pages * PageSize \in Nat /\ MaxPages * PageSize \in Nat
      /\ (MaxPages - (pages + 1)) * PageSize \in Nat
  BY <1>1
<1>3. (pages + 1) * PageSize = pages * PageSize + PageSize
  BY <1>1
<1>4. MaxPages * PageSize = (MaxPages - (pages + 1)) * PageSize + (pages + 1) * PageSize
  BY <1>1
<1>5. (pages + 1) - 1 = pages
  BY <1>1
<1> QED
  BY <1>2, <1>3, <1>4, <1>5 DEF Page, Made, Buffers

LEMMA InitInv == Init => Inv
<1> SUFFICES ASSUME Init PROVE Inv
  OBVIOUS
<1> USE SizeAssumption, NullAssumption
<1>1. Page(1) = 1 .. PageSize /\ 1 * PageSize = PageSize
  BY DEF Page
<1>2. Page(1) \subseteq Buffers
  <2>1. (MaxPages - 1) * PageSize \in Nat /\ MaxPages * PageSize = (MaxPages - 1) * PageSize + PageSize
    <3>1. MaxPages - 1 \in Nat
      OBVIOUS
    <3> QED
      BY <3>1
  <2> QED
    BY <1>1, <2>1 DEF Buffers
<1>3. TypeOK
  BY <1>2 DEF Init, TypeOK, Pc
<1>4. WorkOK /\ OnlyMade
  BY <1>1 DEF Init, WorkOK, OnlyMade, Made, SlowPath
<1>5. OnePlace /\ Unmarked
  BY DEF Init, OnePlace, Unmarked, Carried
<1> QED
  BY <1>3, <1>4, <1>5 DEF Inv, Typing

LEMMA TypingStep == Typing /\ [Next]_vars => Typing'
<1> SUFFICES ASSUME Typing, [Next]_vars PROVE Typing'
  OBVIOUS
<1> USE SizeAssumption, NullAssumption
<1>0. Made \subseteq Buffers
  <2>0. pages \in Nat /\ MaxPages - pages \in Nat
    BY DEF Typing, TypeOK
  <2>1. (MaxPages - pages) * PageSize \in Nat /\ pages * PageSize \in Nat
    BY <2>0
  <2>2. MaxPages * PageSize = (MaxPages - pages) * PageSize + pages * PageSize
    BY <2>0
  <2> QED
    BY <2>1, <2>2 DEF Made, Buffers
<1> USE DEF Typing, TypeOK, WorkOK, OnlyMade, Goto, Pc, SlowPath
<1>1. CASE UNCHANGED vars
  BY <1>1 DEF vars, Made
<1>2. CASE Shutdown
  BY <1>2 DEF Shutdown
<1>3. ASSUME NEW t \in Threads, NEW u \in Threads, StartSharedRelease(t, u)
      PROVE  Typing'
  BY <1>0, <1>3 DEF StartSharedRelease, InUse, Made
<1>4. ASSUME NEW t \in Threads, StartAcquire(t) PROVE Typing'
  BY <1>0, <1>4 DEF StartAcquire, Made
<1>5. ASSUME NEW t \in Threads, PopBatch(t) PROVE Typing'
  BY <1>0, <1>5 DEF PopBatch, Made
<1>6. ASSUME NEW t \in Threads, Mark(t) PROVE Typing'
  BY <1>0, <1>6 DEF Mark, Made
<1>7. ASSUME NEW t \in Threads, Lock(t) PROVE Typing'
  BY <1>0, <1>7 DEF Lock, Made
<1>8. ASSUME NEW t \in Threads, Recheck(t) PROVE Typing'
  BY <1>0, <1>8 DEF Recheck, Made
<1>9. ASSUME NEW t \in Threads, Remark(t) PROVE Typing'
  BY <1>0, <1>9 DEF Remark, Made
<1>10. ASSUME NEW t \in Threads, Expand(t) PROVE Typing'
  BY <1>0, <1>10, PagesAreMade DEF Expand, Made
<1>11. ASSUME NEW t \in Threads, Retry(t) PROVE Typing'
  BY <1>0, <1>11 DEF Retry, Made
<1>12. ASSUME NEW t \in Threads, StartRelease(t) PROVE Typing'
  BY <1>0, <1>12 DEF StartRelease, InUse, Made
<1>13. ASSUME NEW t \in Threads, TestAndClear(t) PROVE Typing'
  BY <1>0, <1>13 DEF TestAndClear, Made
<1>14. ASSUME NEW t \in Threads, Overflow(t) PROVE Typing'
  BY <1>0, <1>14 DEF Overflow, Made
<1> QED
  BY <1>1, <1>2, <1>3, <1>4, <1>5, <1>6, <1>7, <1>8, <1>9, <1>10, <1>11, <1>12, <1>13, <1>14
     DEF Next, ThreadStep

LEMMA ExclusiveStep ==
  ASSUME Inv, [Next]_vars PROVE OnePlace' /\ Unmarked'
<1> USE SizeAssumption, NullAssumption
<1> USE DEF Inv, OnePlace, Unmarked, Carried
<1>0. \A t \in Threads : pc[t] \in {"mark", "remark", "overflow", "release"} => buf[t] \in Made
  BY DEF Typing, WorkOK
<1>t. /\ cache \in [Threads -> SUBSET Buffers] /\ pc \in [Threads -> Pc]
      /\ buf \in [Threads -> Buffers \cup {NoBuffer}]
  BY DEF Typing, TypeOK
<1>1. CASE UNCHANGED vars
  BY <1>1 DEF vars
<1>2. CASE Shutdown
  BY <1>2 DEF Shutdown
<1>3. ASSUME NEW t \in Threads, NEW u \in Threads, StartSharedRelease(t, u)
      PROVE  OnePlace' /\ Unmarked'
  BY <1>3, <1>t DEF StartSharedRelease
<1>4. ASSUME NEW t \in Threads, StartAcquire(t) PROVE OnePlace' /\ Unmarked'
  BY <1>4, <1>t DEF StartAcquire, Goto
<1>5. ASSUME NEW t \in Threads, PopBatch(t) PROVE OnePlace' /\ Unmarked'
  BY <1>5, <1>t DEF PopBatch, Goto
<1>6. ASSUME NEW t \in Threads, Mark(t) PROVE OnePlace' /\ Unmarked'
  BY <1>6, <1>t DEF Mark, Goto
<1>7. ASSUME NEW t \in Threads, Lock(t) PROVE OnePlace' /\ Unmarked'
  BY <1>7, <1>t DEF Lock, Goto
<1>8. ASSUME NEW t \in Threads, Recheck(t) PROVE OnePlace' /\ Unmarked'
  BY <1>8, <1>t DEF Recheck, Goto
<1>9. ASSUME NEW t \in Threads, Remark(t) PROVE OnePlace' /\ Unmarked'
  BY <1>9, <1>t DEF Remark, Goto
<1>10. ASSUME NEW t \in Threads, Expand(t) PROVE OnePlace' /\ Unmarked'
  <2>1. pages > 0
    BY <1>10 DEF Expand, Typing, TypeOK, WorkOK
  <2>2. \A v \in Threads : cache[v] \cup Carried(v) \subseteq Made
    BY <1>0, <2>1 DEF Typing, OnlyMade
  <2>3. free \subseteq Made /\ allocated \subseteq Made
    BY <2>1 DEF Typing, OnlyMade
  <2>4. Page(pages + 1) \cap Made = {}
    BY <1>10, PagesAreMade DEF Expand
  <2>5. /\ \A v \in Threads : cache'[v] = cache[v] /\ Carried(v)' = Carried(v)
        /\ free' = free \cup Page(pages + 1) /\ allocated' = allocated
    BY <1>10, <1>t DEF Expand, Goto
  <2> HIDE DEF Carried
  <2> QED
    BY <2>2, <2>3, <2>4, <2>5
<1>11. ASSUME NEW t \in Threads, Retry(t) PROVE OnePlace' /\ Unmarked'
  BY <1>11, <1>t DEF Retry, Goto
<1>12. ASSUME NEW t \in Threads, StartRelease(t) PROVE OnePlace' /\ Unmarked'
  BY <1>12, <1>t DEF StartRelease, Goto
<1>13. ASSUME NEW t \in Threads, TestAndClear(t) PROVE OnePlace' /\ Unmarked'
  BY <1>13, <1>t DEF TestAndClear, Goto
<1>14. ASSUME NEW t \in Threads, Overflow(t) PROVE OnePlace' /\ Unmarked'
  BY <1>14, <1>t DEF Overflow, Goto
<1> QED
  BY <1>1, <1>2, <1>3, <1>4, <1>5, <1>6, <1>7, <1>8, <1>9, <1>10, <1>11, <1>12, <1>13, <1>14
     DEF Next, ThreadStep

LEMMA InvStep == Inv /\ [Next]_vars => Inv'
  BY TypingStep, ExclusiveStep DEF Inv

\* CPacketBufferPool, for any number of threads and any sizes, and however often its users
\* release a buffer: every buffer is in at most one of the free list, the caches and the
\* hands of the threads that move it.
THEOREM EachBufferInOnePlace == Spec => []OnePlace
<1>1. Inv => OnePlace
  BY DEF Inv
<1> QED
  BY InitInv, InvStep, <1>1, PTL DEF Spec

\* The pool and what its threads hold are always well typed: a buffer in the pool or in hand
\* is one of the buffers that can be made.
THEOREM WellTyped == Spec => []TypeOK
<1>1. Inv => TypeOK
  BY DEF Inv, Typing
<1> QED
  BY InitInv, InvStep, <1>1, PTL DEF Spec

--------------------------------------------------------------------------------
(* One user at a time                                                             *)

\* A buffer that no two threads release at once is marked from the moment Acquire returns it
\* to the moment its only Release clears the mark.
UserMarked ==
  /\ \A b \in Buffers \ Shared : users[b] > 0 => users[b] = 1 /\ b \in allocated
  /\ \A t \in Threads : /\ Releasing(t) \subseteq allocated \cup Shared
                        /\ \A b \in Releasing(t) \cap (Buffers \ Shared) : users[b] = 0
  /\ \A t, u \in Threads : t # u => Releasing(t) \cap Releasing(u) \subseteq Shared

LEMMA UserStep ==
  ASSUME Inv, UserMarked, [Next]_vars PROVE UserMarked'
<1> USE SizeAssumption, NullAssumption
<1> USE DEF UserMarked, Releasing, Goto
<1>t. /\ pc \in [Threads -> Pc] /\ buf \in [Threads -> Buffers \cup {NoBuffer}]
      /\ users \in [Buffers -> Nat]
  BY DEF Inv, Typing, TypeOK
<1>1. CASE UNCHANGED vars
  BY <1>1 DEF vars
<1>2. CASE Shutdown
  BY <1>2 DEF Shutdown
<1>3. ASSUME NEW t \in Threads, NEW u \in Threads, StartSharedRelease(t, u)
      PROVE  UserMarked'
  <2>1. PICK b \in Buffers \cap Shared :
          /\ \A c \in Buffers \ Shared : users'[c] = users[c]
          /\ buf' = [buf EXCEPT ![t] = b, ![u] = b]
    BY <1>3, <1>t DEF StartSharedRelease, InUse
  <2>2. /\ pc' = [pc EXCEPT ![t] = "release", ![u] = "release"]
        /\ allocated' = allocated
    BY <1>3 DEF StartSharedRelease
  <2>3. \A v \in Threads : Releasing(v)' = IF v \in {t, u} THEN {b} ELSE Releasing(v)
    BY <1>t, <2>1, <2>2
  <2> HIDE DEF Releasing
  <2> QED
    BY <2>1, <2>2, <2>3
<1>4. ASSUME NEW t \in Threads, Mark(t) PROVE UserMarked'
  <2>1. buf[t] \notin allocated
    BY <1>4 DEF Mark, Inv, Unmarked, Carried
  <2> QED
    BY <1>4, <1>t, <2>1 DEF Mark
<1>5. ASSUME NEW t \in Threads, Remark(t) PROVE UserMarked'
  BY <1>5, <1>t DEF Remark
<1>6. ASSUME NEW t \in Threads, StartRelease(t) PROVE UserMarked'
  BY <1>6, <1>t DEF StartRelease, InUse
<1>7. ASSUME NEW t \in Threads, TestAndClear(t) PROVE UserMarked'
  BY <1>7, <1>t DEF TestAndClear
<1>8. ASSUME NEW t \in Threads,
             \/ StartAcquire(t) \/ PopBatch(t) \/ Lock(t) \/ Recheck(t) \/ Expand(t)
             \/ Retry(t) \/ Overflow(t)
      PROVE  UserMarked'
  BY <1>8, <1>t DEF StartAcquire, PopBatch, Lock, Recheck, Expand, Retry, Overflow
<1> QED
  BY <1>1, <1>2, <1>3, <1>4, <1>5, <1>6, <1>7, <1>8 DEF Next, ThreadStep

\* The users that the allocator counts.
Counted == [b \in Buffers \ Shared |-> users[b]]

LEMMA AllocatorStep ==
  ASSUME Inv, UserMarked, [Next]_vars
  PROVE  [Allocator!Next]_Counted
<1>t. users \in [Buffers -> Nat]
  BY DEF Inv, Typing, TypeOK
<1>1. CASE UNCHANGED users
  BY <1>1 DEF Counted
<1>2. ASSUME NEW t \in Threads, Mark(t)
      PROVE  \/ UNCHANGED Counted
             \/ \E b \in Buffers \ Shared : Allocator!Take(b)
  <2>1. buf[t] \in Buffers \ allocated
    BY <1>2, NullAssumption DEF Mark, Inv, Typing, TypeOK, WorkOK, Unmarked, Carried, OnlyMade, Made
  <2>2. users' = [users EXCEPT ![buf[t]] = IF buf[t] \in Shared THEN 1 ELSE @ + 1]
    BY <1>2 DEF Mark
  <2>3. CASE buf[t] \in Shared
    BY <1>t, <2>2, <2>3 DEF Counted
  <2>4. CASE buf[t] \notin Shared
    <3>1. users[buf[t]] = 0
      BY <1>t, <2>1, <2>4 DEF UserMarked, InUse
    <3>2. \A b \in Buffers \ Shared : users'[b] = IF b = buf[t] THEN 1 ELSE users[b]
      BY <1>t, <2>1, <2>2, <2>4, <3>1
    <3>3. Counted' = [Counted EXCEPT ![buf[t]] = 1]
      BY <3>2 DEF Counted
    <3> QED
      BY <2>1, <2>4, <3>1, <3>3 DEF Allocator!Take, Counted
  <2> QED
    BY <2>3, <2>4
<1>3. ASSUME NEW b \in InUse, users' = [users EXCEPT ![b] = @ - 1], b \notin Shared => users[b] = 1
      PROVE  \/ UNCHANGED Counted
             \/ \E c \in Buffers \ Shared : Allocator!Give(c)
  <2>1. b \in Buffers
    BY DEF InUse
  <2>2. CASE b \in Shared
    BY <1>t, <1>3, <2>2 DEF Counted
  <2>3. CASE b \notin Shared
    <3>1. \A c \in Buffers \ Shared : users'[c] = IF c = b THEN 0 ELSE users[c]
      BY <1>t, <1>3, <2>1, <2>3
    <3>2. Counted' = [Counted EXCEPT ![b] = 0]
      BY <3>1 DEF Counted
    <3> QED
      BY <1>3, <2>1, <2>3, <3>2 DEF Allocator!Give, Counted
  <2> QED
    BY <2>2, <2>3
<1>4. ASSUME NEW t \in Threads, NEW u \in Threads, StartSharedRelease(t, u) \/ StartRelease(t)
      PROVE  \E b \in InUse : users' = [users EXCEPT ![b] = @ - 1]
  BY <1>4 DEF StartSharedRelease, StartRelease
<1>5. \/ UNCHANGED users
      \/ \E t \in Threads : Mark(t)
      \/ \E t, u \in Threads : StartSharedRelease(t, u) \/ StartRelease(t)
  BY DEF Next, ThreadStep, vars, Shutdown, StartAcquire, PopBatch, Lock, Recheck, Remark,
         Expand, Retry, TestAndClear, Overflow
<1>6. \A b \in InUse : b \notin Shared => users[b] = 1
  BY <1>t DEF UserMarked, InUse
<1> QED
  BY <1>1, <1>2, <1>3, <1>4, <1>5, <1>6 DEF Allocator!Next, Counted

\* The buffers that no two threads release at once are an exclusive allocator: Acquire never
\* returns one that is in use, from wherever it comes and whatever becomes of the others.
THEOREM PoolAllocatesExclusively == Spec => AllocatesExclusively
<1>1. Init => Inv /\ UserMarked /\ Allocator!Init
  <2>1. Init => UserMarked
    BY DEF Init, UserMarked, Releasing, InUse
  <2> QED
    BY InitInv, <2>1 DEF Init, Allocator!Init, Counted
<1>2. Inv /\ UserMarked /\ [Next]_vars => Inv' /\ UserMarked' /\ [Allocator!Next]_Counted
  BY InvStep, UserStep, AllocatorStep
<1> QED
  BY <1>1, <1>2, PTL DEF Spec, AllocatesExclusively, Allocator!Spec, Counted

--------------------------------------------------------------------------------
(* What UseCount counts                                                           *)

CountInv == pages > 0 => IsFiniteSet(allocated) /\ useCount = Cardinality(allocated) + pages

LEMMA CountStep == ASSUME Inv, CountInv, [Next]_vars PROVE CountInv'
<1> USE SizeAssumption, NullAssumption DEF CountInv
<1>t. pages \in Nat /\ useCount \in Int
  BY DEF Inv, Typing, TypeOK
<1>f. pages > 0 => Cardinality(allocated) \in Nat
  BY FS_CardinalityType
<1>1. CASE UNCHANGED <<allocated, pages, useCount>>
  BY <1>1
<1>2. CASE Shutdown
  BY <1>2 DEF Shutdown
<1>3. ASSUME NEW t \in Threads, Mark(t) \/ Remark(t) PROVE CountInv'
  <2>1. buf[t] \notin allocated /\ pages > 0
    BY <1>3, <1>t DEF Mark, Remark, Inv, Unmarked, Carried, Typing, WorkOK
  <2>2. /\ IsFiniteSet(allocated \cup {buf[t]})
        /\ Cardinality(allocated \cup {buf[t]}) = Cardinality(allocated) + 1
    BY <2>1, FS_AddElement
  <2>3. /\ allocated' = allocated \cup {buf[t]} /\ useCount' = useCount + 1 /\ pages' = pages
    BY <1>3 DEF Mark, Remark
  <2>4. useCount' = Cardinality(allocated') + pages'
    <3>1. /\ Cardinality(allocated') = Cardinality(allocated) + 1
          /\ useCount = Cardinality(allocated) + pages
      BY <2>1, <2>2, <2>3
    <3> QED
      BY <1>t, <1>f, <2>1, <2>3, <3>1
  <2> QED
    BY <2>2, <2>3, <2>4
<1>4. ASSUME NEW t \in Threads, TestAndClear(t) PROVE CountInv'
  <2>1. pages > 0
    BY <1>4, <1>t DEF TestAndClear, Inv, Typing, WorkOK
  <2>2. CASE buf[t] \in allocated
    <3>1. /\ IsFiniteSet(allocated \ {buf[t]})
          /\ Cardinality(allocated \ {buf[t]}) = Cardinality(allocated) - 1
      BY <2>1, <2>2, FS_RemoveElement
    <3>2. /\ allocated' = allocated \ {buf[t]} /\ useCount' = useCount - 1 /\ pages' = pages
      BY <1>4, <2>2 DEF TestAndClear
    <3>3. useCount' = Cardinality(allocated') + pages'
      <4>1. /\ Cardinality(allocated') = Cardinality(allocated) - 1
            /\ useCount = Cardinality(allocated) + pages
        BY <2>1, <3>1, <3>2
      <4> QED
        BY <1>t, <1>f, <2>1, <3>2, <4>1
    <3> QED
      BY <3>1, <3>2, <3>3
  <2> QED
    BY <1>4, <2>2 DEF TestAndClear
<1>5. ASSUME NEW t \in Threads, Expand(t) PROVE CountInv'
  <2>1. pages > 0
    BY <1>5, <1>t DEF Expand, Inv, Typing, WorkOK
  <2> QED
    BY <1>5, <1>t, <1>f, <2>1 DEF Expand
<1> QED
  BY <1>1, <1>2, <1>3, <1>4, <1>5
     DEF Next, ThreadStep, vars, StartSharedRelease, StartAcquire, PopBatch, Lock, Recheck,
         Retry, StartRelease, Overflow

\* GetFreeCount is the number of unmarked buffers less the number of pages, whatever races:
\* UseCount is one too high for each page that was ever made.
THEOREM UseCountIsOffByPages == Spec => []UseCountDrifts
<1>1. Init => CountInv
  BY FS_EmptySet DEF Init, CountInv
<1>2. CountInv => UseCountDrifts
  BY DEF CountInv, UseCountDrifts
<1> QED
  BY InitInv, InvStep, CountStep, <1>1, <1>2, PTL DEF Spec

--------------------------------------------------------------------------------
(* What is lost                                                                   *)

\* A buffer that is not marked is in the pool: Release forgets none that it finds unmarked.
UnmarkedIsPooled == pages > 0 => Made \ allocated \subseteq Pooled

\* One buffer for each expansion that is over, and one for the expansion that has forgotten
\* what it popped and has not made its page yet.
Expanding == \E t \in Threads : pc[t] = "expand"
LostOK == pages > 0 => Cardinality(Lost) <= pages - 1 + (IF Expanding THEN 1 ELSE 0)

\* Where a buffer is that is not lost.
Somewhere(b) ==
  \/ b \in free \/ users[b] > 0
  \/ \E t \in Threads : b \in cache[t] \/ b \in Carried(t) \/ b \in Releasing(t)

LEMMA LostIsNowhere ==
  ASSUME Typing PROVE Lost = {b \in Made : ~Somewhere(b)} /\ IsFiniteSet(Lost)
<1>1. pages \in Nat /\ pages * PageSize \in Nat
  BY SizeAssumption DEF Typing, TypeOK
<1>2. Made \subseteq Buffers
  <2>1. MaxPages - pages \in Nat
    BY SizeAssumption DEF Typing, TypeOK
  <2>2. (MaxPages - pages) * PageSize \in Nat
    BY <2>1, SizeAssumption
  <2>3. MaxPages * PageSize = (MaxPages - pages) * PageSize + pages * PageSize
    BY <1>1, <2>1, SizeAssumption
  <2> QED
    BY <1>1, <2>2, <2>3 DEF Made, Buffers
<1>3. Lost = {b \in Made : ~Somewhere(b)}
  BY <1>2 DEF Lost, Made, Somewhere, Pooled, InUse
<1>4. IsFiniteSet(Made)
  BY <1>1, FS_Interval DEF Made
<1> QED
  BY <1>3, <1>4, FS_Subset

LEMMA PooledIsKept ==
  ASSUME Inv, UnmarkedIsPooled, [Next]_vars PROVE UnmarkedIsPooled'
<1> USE SizeAssumption, NullAssumption DEF UnmarkedIsPooled, Goto
<1> DEFINE InPool(b) == b \in free \/ \E t \in Threads : b \in cache[t] \/ b \in Carried(t)
<1>0. \A b : b \in Pooled <=> InPool(b)
  BY DEF Pooled
<1>00. \A b : b \in Pooled' <=> InPool(b)'
  BY DEF Pooled
<1>t. /\ cache \in [Threads -> SUBSET Buffers] /\ pc \in [Threads -> Pc]
      /\ buf \in [Threads -> Buffers \cup {NoBuffer}] /\ pages \in Nat
      /\ \A t \in Threads : pc[t] \in {"mark", "remark", "overflow", "release"} => buf[t] \in Made
      /\ pages = 0 => \A t \in Threads : pc[t] = "idle"
  BY DEF Inv, Typing, TypeOK, WorkOK
<1>1. CASE Shutdown
  BY <1>1 DEF Shutdown
<1> SUFFICES ASSUME ~Shutdown, pages' > 0, NEW b \in Made', b \notin allocated' PROVE InPool(b)'
  BY <1>1, <1>00
<1>2. ASSUME NEW t \in Threads, Expand(t) PROVE InPool(b)'
  <2>1. Made' \subseteq Made \cup Page(pages + 1)
    BY <1>2, <1>t DEF Expand, Made, Page
  <2>2. CASE b \in Page(pages + 1)
    BY <1>2, <2>2 DEF Expand
  <2>3. CASE b \in Made
    <3>1. pages > 0
      BY <1>2, <1>t DEF Expand
    <3>2. InPool(b)
      BY <1>0, <1>2, <2>3, <3>1 DEF Expand
    <3> QED
      BY <1>2, <1>t, <3>2 DEF Expand, Carried
  <2> QED
    BY <2>1, <2>2, <2>3
<1> SUFFICES ASSUME \A t \in Threads : ~Expand(t) PROVE InPool(b)'
  BY <1>2
<1>3. pages' = pages
  BY DEF Next, ThreadStep, vars, StartSharedRelease, StartAcquire, PopBatch, Mark, Lock, Recheck,
         Remark, Retry, StartRelease, TestAndClear, Overflow
<1>4. b \in Made /\ (b \notin allocated => InPool(b))
  BY <1>0, <1>3 DEF Made
<1> HIDE DEF UnmarkedIsPooled
<1>5. ASSUME NEW t \in Threads, Mark(t) \/ Remark(t) PROVE InPool(b)'
  BY <1>4, <1>5, <1>t DEF Mark, Remark, Carried
<1>6. ASSUME NEW t \in Threads, TestAndClear(t) PROVE InPool(b)'
  BY <1>4, <1>6, <1>t DEF TestAndClear, Carried
<1>7. ASSUME NEW t \in Threads, StartAcquire(t) PROVE InPool(b)'
  BY <1>4, <1>7, <1>t DEF StartAcquire, Carried
<1>8. ASSUME NEW t \in Threads, PopBatch(t) PROVE InPool(b)'
  BY <1>4, <1>8, <1>t DEF PopBatch, Carried
<1>9. ASSUME NEW t \in Threads, Lock(t) \/ StartRelease(t) PROVE InPool(b)'
  BY <1>4, <1>9, <1>t DEF Lock, StartRelease, Carried
<1>10. ASSUME NEW t \in Threads, Recheck(t) PROVE InPool(b)'
  BY <1>4, <1>10, <1>t DEF Recheck, Carried
<1>11. ASSUME NEW t \in Threads, Retry(t) PROVE InPool(b)'
  BY <1>4, <1>11, <1>t DEF Retry, Carried
<1>12. ASSUME NEW t \in Threads, Overflow(t) PROVE InPool(b)'
  BY <1>4, <1>12, <1>t DEF Overflow, Carried
<1>13. ASSUME NEW t \in Threads, NEW u \in Threads, StartSharedRelease(t, u) PROVE InPool(b)'
  BY <1>4, <1>13, <1>t DEF StartSharedRelease, Carried
<1>14. CASE UNCHANGED vars
  BY <1>4, <1>14 DEF vars, Carried
<1> HIDE DEF InPool
<1> QED
  BY <1>5, <1>6, <1>7, <1>8, <1>9, <1>10, <1>11, <1>12, <1>13, <1>14 DEF Next, ThreadStep

\* Only the step after the double check forgets a buffer, and only the one it popped.
LEMMA SomewhereIsKept ==
  ASSUME Inv, UnmarkedIsPooled, [Next]_vars, pages > 0,
         NEW b \in Made, Somewhere(b), \A t \in Threads : Remark(t) => b # buf[t]
  PROVE  Somewhere(b)'
<1> USE SizeAssumption, NullAssumption DEF Goto
<1>t. /\ cache \in [Threads -> SUBSET Buffers] /\ pc \in [Threads -> Pc]
      /\ buf \in [Threads -> Buffers \cup {NoBuffer}] /\ users \in [Buffers -> Nat]
      /\ \A t \in Threads : pc[t] \in {"mark", "remark", "overflow", "release"} => buf[t] \in Made
  BY DEF Inv, Typing, TypeOK, WorkOK
<1>m. Made \subseteq Buffers
  <2>1. MaxPages - pages \in Nat /\ pages \in Nat
    BY DEF Inv, Typing, TypeOK
  <2>2. (MaxPages - pages) * PageSize \in Nat /\ pages * PageSize \in Nat
    BY <2>1
  <2>3. MaxPages * PageSize = (MaxPages - pages) * PageSize + pages * PageSize
    BY <2>1
  <2> QED
    BY <2>2, <2>3 DEF Made, Buffers
<1>1. CASE UNCHANGED vars
  BY <1>1 DEF vars, Somewhere, Carried, Releasing
<1>2. CASE Shutdown
  BY <1>2 DEF Shutdown, Somewhere, Carried, Releasing
<1>3. ASSUME NEW t \in Threads, NEW u \in Threads, StartSharedRelease(t, u) PROVE Somewhere(b)'
  <2>1. PICK c \in Buffers : /\ users' = [users EXCEPT ![c] = @ - 1]
                             /\ buf' = [buf EXCEPT ![t] = c, ![u] = c]
    BY <1>3 DEF StartSharedRelease, InUse
  <2>2. /\ pc[t] = "idle" /\ pc[u] = "idle" /\ UNCHANGED <<free, cache>>
        /\ pc' = [pc EXCEPT ![t] = "release", ![u] = "release"]
    BY <1>3 DEF StartSharedRelease
  <2>3. \A v \in Threads : v \notin {t, u} => pc'[v] = pc[v] /\ buf'[v] = buf[v]
    BY <1>t, <2>1, <2>2
  <2>4. pc'[t] = "release" /\ buf'[t] = c
    BY <1>t, <2>1, <2>2
  <2>5. CASE b = c
    BY <2>4, <2>5 DEF Somewhere, Releasing
  <2>6. CASE b # c
    <3>1. users'[b] = users[b]
      BY <1>t, <1>m, <2>1, <2>6
    <3> QED
      BY <2>2, <2>3, <3>1 DEF Somewhere, Carried, Releasing
  <2> QED
    BY <2>5, <2>6
<1>4. ASSUME NEW t \in Threads, StartAcquire(t) PROVE Somewhere(b)'
  BY <1>4, <1>t DEF StartAcquire, Somewhere, Carried, Releasing
<1>5. ASSUME NEW t \in Threads, PopBatch(t) PROVE Somewhere(b)'
  BY <1>5, <1>t DEF PopBatch, Somewhere, Carried, Releasing
<1>6. ASSUME NEW t \in Threads, Mark(t) PROVE Somewhere(b)'
  BY <1>6, <1>t, <1>m DEF Mark, Somewhere, Carried, Releasing
<1>7. ASSUME NEW t \in Threads, Lock(t) PROVE Somewhere(b)'
  BY <1>7, <1>t DEF Lock, Somewhere, Carried, Releasing
<1>8. ASSUME NEW t \in Threads, Recheck(t) PROVE Somewhere(b)'
  BY <1>8, <1>t DEF Recheck, Somewhere, Carried, Releasing
<1>9. ASSUME NEW t \in Threads, Remark(t) PROVE Somewhere(b)'
  BY <1>9, <1>t DEF Remark, Somewhere, Carried, Releasing
<1>10. ASSUME NEW t \in Threads, Expand(t) PROVE Somewhere(b)'
  BY <1>10, <1>t DEF Expand, Somewhere, Carried, Releasing
<1>11. ASSUME NEW t \in Threads, Retry(t) PROVE Somewhere(b)'
  BY <1>11, <1>t DEF Retry, Somewhere, Carried, Releasing
<1>12. ASSUME NEW t \in Threads, StartRelease(t) PROVE Somewhere(b)'
  BY <1>12, <1>t, <1>m DEF StartRelease, InUse, Somewhere, Carried, Releasing
<1>13. ASSUME NEW t \in Threads, TestAndClear(t) PROVE Somewhere(b)'
  <2>1. b \notin allocated => b \in free \/ \E v \in Threads : b \in cache[v] \/ b \in Carried(v)
    BY DEF UnmarkedIsPooled, Pooled
  <2> QED
    BY <1>13, <1>t, <2>1 DEF TestAndClear, Somewhere, Carried, Releasing
<1>14. ASSUME NEW t \in Threads, Overflow(t) PROVE Somewhere(b)'
  BY <1>14, <1>t DEF Overflow, Somewhere, Carried, Releasing
<1> QED
  BY <1>1, <1>2, <1>3, <1>4, <1>5, <1>6, <1>7, <1>8, <1>9, <1>10, <1>11, <1>12, <1>13, <1>14
     DEF Next, ThreadStep

LEMMA LostStep ==
  ASSUME Inv, Inv', UnmarkedIsPooled, LostOK, [Next]_vars PROVE LostOK'
<1> SUFFICES ASSUME pages' > 0 PROVE Cardinality(Lost') <= pages' - 1 + (IF Expanding' THEN 1 ELSE 0)
  BY DEF LostOK
<1> USE NullAssumption DEF Goto
<1>t. /\ pages \in Nat /\ pages' \in Nat /\ pc \in [Threads -> Pc]
      /\ \A t \in Threads : pc[t] \in SlowPath => pageLock = t
      /\ pages = 0 => \A t \in Threads : pc[t] = "idle"
  BY DEF Inv, Typing, TypeOK, WorkOK
<1>n. /\ Lost = {b \in Made : ~Somewhere(b)} /\ IsFiniteSet(Lost)
      /\ Lost' = {b \in Made' : ~Somewhere(b)'} /\ IsFiniteSet(Lost')
  <2>1. (Typing => Lost = {b \in Made : ~Somewhere(b)} /\ IsFiniteSet(Lost))'
    BY LostIsNowhere, PTL
  <2> QED
    BY <2>1, LostIsNowhere DEF Inv
<1>c. Cardinality(Lost) \in Nat /\ Cardinality(Lost') \in Nat
  BY <1>n, FS_CardinalityType
<1>1. ASSUME NEW t \in Threads, Remark(t)
      PROVE  Cardinality(Lost') <= pages' - 1 + (IF Expanding' THEN 1 ELSE 0)
  <2>1. pages' = pages /\ Made' = Made /\ pages > 0
    BY <1>1, <1>t DEF Remark, Made
  <2>2. ~Expanding /\ Expanding'
    BY <1>1, <1>t DEF Remark, Expanding, SlowPath
  <2>3. Lost' \subseteq Lost \cup {buf[t]}
    <3>1. \A b \in Made : Somewhere(b) /\ b # buf[t] => Somewhere(b)'
      <4>1. \A u \in Threads : Remark(u) => u = t
        BY <1>1, <1>t DEF Remark, SlowPath
      <4> QED
        BY <2>1, <4>1, SomewhereIsKept
    <3> QED
      BY <1>n, <2>1, <3>1
  <2>4. /\ IsFiniteSet(Lost \cup {buf[t]})
        /\ Cardinality(Lost \cup {buf[t]}) <= Cardinality(Lost) + 1
    <3>1. CASE buf[t] \in Lost
      <4>1. Lost \cup {buf[t]} = Lost
        BY <3>1
      <4> QED
        BY <1>n, <1>c, <4>1
    <3>2. CASE buf[t] \notin Lost
      <4>1. IsFiniteSet(Lost)
        BY <1>n
      <4>2. /\ IsFiniteSet(Lost \cup {buf[t]})
            /\ Cardinality(Lost \cup {buf[t]}) = Cardinality(Lost) + 1
        BY <3>2, <4>1, FS_AddElement
      <4> QED
        BY <1>c, <4>2
    <3> QED
      BY <3>1, <3>2
  <2>5. Cardinality(Lost') <= Cardinality(Lost) + 1
    BY <1>c, <2>3, <2>4, FS_Subset, FS_CardinalityType
  <2> QED
    BY <1>t, <1>c, <2>1, <2>2, <2>5 DEF LostOK
<1>2. ASSUME \A t \in Threads : ~Remark(t), pages > 0 PROVE Cardinality(Lost') <= Cardinality(Lost)
  <2>1. \A b \in Made : Somewhere(b) => Somewhere(b)'
    BY <1>2, SomewhereIsKept
  <2>2. \A b \in Made' \ Made : Somewhere(b)'
    <3>1. Made' = Made \/ \E t \in Threads : Expand(t)
      BY <1>2, <1>t DEF Made, Next, ThreadStep, vars, StartSharedRelease, StartAcquire, PopBatch, Mark, Lock,
             Recheck, Retry, StartRelease, TestAndClear, Overflow, Shutdown
    <3>2. ASSUME NEW t \in Threads, Expand(t) PROVE Made' \ Made \subseteq free'
      BY <1>t, <3>2, SizeAssumption DEF Expand, Made, Page
    <3> QED
      BY <3>1, <3>2 DEF Somewhere
  <2> QED
    BY <1>n, <2>1, <2>2, FS_Subset
<1>3. ASSUME NEW t \in Threads, Expand(t)
      PROVE  Cardinality(Lost') <= pages' - 1 + (IF Expanding' THEN 1 ELSE 0)
  <2>1. pages' = pages + 1 /\ pages > 0 /\ Expanding /\ ~Expanding'
    BY <1>3, <1>t DEF Expand, Expanding, SlowPath
  <2>2. \A u \in Threads : ~Remark(u)
    BY <1>3, <1>t DEF Expand, Remark, SlowPath
  <2> QED
    BY <1>2, <1>t, <1>c, <2>1, <2>2 DEF LostOK
<1>4. ASSUME \A t \in Threads : ~Remark(t) /\ ~Expand(t)
      PROVE  Cardinality(Lost') <= pages' - 1 + (IF Expanding' THEN 1 ELSE 0)
  <2>1. pages' = pages
    BY <1>4 DEF Next, ThreadStep, vars, StartSharedRelease, StartAcquire, PopBatch, Mark, Lock,
             Recheck, Retry, StartRelease, TestAndClear, Overflow, Shutdown
  <2>2. Expanding => Expanding'
    <3>1. ASSUME NEW u \in Threads, pc[u] = "expand" PROVE pc'[u] = "expand"
      BY <1>4, <1>t, <3>1 DEF Next, ThreadStep, vars, StartSharedRelease, StartAcquire, PopBatch, Mark, Lock,
             Recheck, Retry, StartRelease, TestAndClear, Overflow, Shutdown
    <3> QED
      BY <3>1 DEF Expanding
  <2> QED
    BY <1>2, <1>4, <1>t, <1>c, <2>1, <2>2 DEF LostOK
<1> QED
  BY <1>1, <1>3, <1>4

\* AllocateNewPageAndPop forgets the buffer it popped under the lock, once for each page it
\* then makes; nothing else in the pool loses one, whoever releases what and how often.
THEOREM OneLostPerExpansion == Spec => []LostPerExpansion
<1>1. Init => UnmarkedIsPooled /\ LostOK
  <2> SUFFICES ASSUME Init PROVE UnmarkedIsPooled /\ LostOK
    OBVIOUS
  <2>1. Made \subseteq free
    BY SizeAssumption DEF Init, Made, Page
  <2>2. Lost = {}
    BY <2>1 DEF Lost, Made, Pooled
  <2> QED
    BY <2>1, <2>2, FS_EmptySet DEF Init, UnmarkedIsPooled, LostOK, Pooled
<1>2. Inv /\ Inv' /\ UnmarkedIsPooled /\ LostOK /\ [Next]_vars => UnmarkedIsPooled' /\ LostOK'
  BY PooledIsKept, LostStep
<1>3. Inv /\ LostOK => LostPerExpansion
  <2> SUFFICES ASSUME Inv, LostOK, pages > 0
               PROVE  Cardinality(Lost) <= pages - 1 + (IF pageLock = NoThread THEN 0 ELSE 1)
    BY DEF LostPerExpansion
  <2>1. pages \in Nat /\ Cardinality(Lost) \in Nat
    BY LostIsNowhere, FS_CardinalityType DEF Inv, Typing, TypeOK
  <2>2. Expanding => pageLock # NoThread
    BY NullAssumption DEF Expanding, Inv, Typing, WorkOK, SlowPath
  <2> QED
    BY <2>1, <2>2 DEF LostOK
<1> QED
  BY InitInv, InvStep, <1>1, <1>2, <1>3, PTL DEF Spec
================================================================================
