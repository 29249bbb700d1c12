--------------------------- MODULE PacketBufferPool ---------------------------
(* CPacketBufferPool (Core/Common/Buffer.h and Buffer.cpp): packet buffers are handed *)
(* out from a cache that each thread keeps for itself, from a free list that the      *)
(* threads share under a spin lock, and from pages of new buffers, which are made     *)
(* under PageLock.  Any thread may release a buffer that another has acquired.        *)
(*                                                                                    *)
(* A step is what a thread does between two points where another thread can see the   *)
(* difference: an operation on the free list, which its spin lock makes atomic, an    *)
(* access to IsAllocated or UseCount, taking and leaving PageLock.  The vectors are   *)
(* sets here: which of the free buffers is given out makes no difference.             *)
EXTENDS Integers, FiniteSets

CONSTANTS
  Threads,
  PageSize,       \* BUFFER_POOL_EXPAND_SIZE; Initialize makes the first page as large
  CacheCapacity,  \* LOCAL_CACHE_CAPACITY
  BatchSize,      \* BATCH_SIZE
  Retries,        \* how often AllocateNewPageAndPop tries to pop after it has expanded
  MaxPages,       \* bound: no more pages are made than this
  Shared,         \* the buffers that two threads may release at the same time
  NoBuffer, NoThread

ASSUME SizeAssumption ==
  /\ PageSize \in Nat \ {0} /\ CacheCapacity \in Nat \ {0} /\ BatchSize \in Nat \ {0}
  /\ Retries \in Nat /\ MaxPages \in Nat \ {0}
ASSUME SharedAssumption == Shared \subseteq Nat
ASSUME NullAssumption == NoBuffer \notin Nat /\ NoThread \notin Threads

VARIABLES
  free,       \* FreeList
  cache,      \* t_LocalCache of each thread
  allocated,  \* the buffers whose IsAllocated is set
  pages,      \* Pages.size(); TotalBufferSize is pages * PageSize
  useCount,   \* UseCount
  pageLock,   \* the thread that holds PageLock, or NoThread
  pc,         \* where each thread is in Acquire and Release
  buf,        \* its local buf, or the argument of Release
  tries,      \* the pops it has left after expanding
  users       \* how often Acquire has returned each buffer and nobody has begun to release it
              \* (of a shared buffer, whether: who releases it is not told apart)

vars == <<free, cache, allocated, pages, useCount, pageLock, pc, buf, tries, users>>

Buffers == 1 .. MaxPages * PageSize
InUse == {b \in Buffers : users[b] > 0}
Page(n) == (n - 1) * PageSize + 1 .. n * PageSize

\* Where a thread is: between calls; in Acquire about to ask the free list, to enter the
\* slow path, to check again, to expand, to pop from the new page, to mark what it popped
\* (remark: what it popped when it checked again); in Release about to test and clear the
\* mark, to empty half of a full cache.
Pc == {"idle", "popBatch", "lock", "recheck", "remark", "expand", "retry", "mark",
       "release", "overflow"}
SlowPath == {"recheck", "remark", "expand", "retry"}

TypeOK ==
  /\ free \subseteq Buffers
  /\ cache \in [Threads -> SUBSET Buffers]
  /\ allocated \subseteq Buffers
  /\ pages \in 0 .. MaxPages
  /\ useCount \in Int
  /\ pageLock \in Threads \cup {NoThread}
  /\ pc \in [Threads -> Pc]
  /\ buf \in [Threads -> Buffers \cup {NoBuffer}]
  /\ tries \in [Threads -> 0 .. Retries]
  /\ users \in [Buffers -> Nat]

\* Initialize makes the first page, and counts one buffer of it as used.
Init ==
  /\ free = Page(1) /\ pages = 1 /\ useCount = 1
  /\ cache = [t \in Threads |-> {}]
  /\ allocated = {} /\ users = [b \in Buffers |-> 0]
  /\ pageLock = NoThread
  /\ pc = [t \in Threads |-> "idle"]
  /\ buf = [t \in Threads |-> NoBuffer]
  /\ tries = [t \in Threads |-> 0]

Goto(t, where) == pc' = [pc EXCEPT ![t] = where]
AtMost(n, m) == IF n < m THEN n ELSE m

--------------------------------------------------------------------------------
(* Acquire                                                                        *)

\* Acquire: the thread's own cache first.
StartAcquire(t) ==
  /\ pc[t] = "idle" /\ pages > 0
  /\ \/ /\ cache[t] = {}
        /\ Goto(t, "popBatch")
        /\ UNCHANGED <<cache, buf>>
     \/ \E b \in cache[t] :
          /\ cache' = [cache EXCEPT ![t] = @ \ {b}]
          /\ buf' = [buf EXCEPT ![t] = b]
          /\ Goto(t, "mark")
  /\ UNCHANGED <<free, allocated, pages, useCount, pageLock, tries, users>>

\* Mutant of PopBatch: the buffer that is returned stays in the cache.
PopBatchKeepingIt(t) ==
  /\ pc[t] = "popBatch"
  /\ \/ free = {} /\ Goto(t, "lock") /\ UNCHANGED <<free, cache, buf>>
     \/ \E batch \in SUBSET free, b \in free :
          /\ Cardinality(batch) = AtMost(Cardinality(free), BatchSize)
          /\ b \in batch
          /\ free' = free \ batch
          /\ cache' = [cache EXCEPT ![t] = @ \cup batch]
          /\ buf' = [buf EXCEPT ![t] = b]
          /\ Goto(t, "mark")
  /\ UNCHANGED <<allocated, pages, useCount, pageLock, tries, users>>

\* FreeList.PopBatch(t_LocalCache, BATCH_SIZE): as much as there is of a batch goes to the
\* cache, and one buffer of it is returned.
PopBatch(t) ==
  /\ pc[t] = "popBatch"
  /\ \/ /\ free = {}
        /\ Goto(t, "lock")
        /\ UNCHANGED <<free, cache, buf>>
     \/ \E batch \in SUBSET free, b \in free :
          /\ Cardinality(batch) = AtMost(Cardinality(free), BatchSize)
          /\ b \in batch
          /\ free' = free \ batch
          /\ cache' = [cache EXCEPT ![t] = @ \cup (batch \ {b})]
          /\ buf' = [buf EXCEPT ![t] = b]
          /\ Goto(t, "mark")
  /\ UNCHANGED <<allocated, pages, useCount, pageLock, tries, users>>

\* IsAllocated.store(true), UseCount.fetch_add(1), return; PageLock is left if it is held.
\* (Nobody decides by UseCount: counting is not a step of its own.)
Mark(t) ==
  /\ pc[t] = "mark"
  /\ allocated' = allocated \cup {buf[t]}
  /\ useCount' = useCount + 1
  /\ users' = [users EXCEPT ![buf[t]] = IF buf[t] \in Shared THEN 1 ELSE @ + 1]
  /\ pageLock' = IF pageLock = t THEN NoThread ELSE pageLock
  /\ buf' = [buf EXCEPT ![t] = NoBuffer]
  /\ Goto(t, "idle")
  /\ UNCHANGED <<free, cache, pages, tries>>

\* AllocateNewPageAndPop: std::lock_guard lock(PageLock).
Lock(t) ==
  /\ pc[t] = "lock" /\ pageLock = NoThread
  /\ pageLock' = t
  /\ Goto(t, "recheck")
  /\ UNCHANGED <<free, cache, allocated, pages, useCount, buf, tries, users>>

\* AllocateNewPageAndPop, the double check: a buffer returned in the meantime is popped.
Recheck(t) ==
  /\ pc[t] = "recheck"
  /\ \/ /\ free = {}
        /\ Goto(t, "expand")
        /\ UNCHANGED <<free, buf>>
     \/ \E b \in free :
          /\ free' = free \ {b}
          /\ buf' = [buf EXCEPT ![t] = b]
          /\ Goto(t, "remark")
  /\ UNCHANGED <<cache, allocated, pages, useCount, pageLock, tries, users>>

\* It is marked and counted, and there is no return: the next pop overwrites buf.
Remark(t) ==
  /\ pc[t] = "remark"
  /\ allocated' = allocated \cup {buf[t]}
  /\ useCount' = useCount + 1
  /\ buf' = [buf EXCEPT ![t] = NoBuffer]
  /\ Goto(t, "expand")
  /\ UNCHANGED <<free, cache, pages, pageLock, tries, users>>

\* AllocateNewPageInternal: nobody sees the new page before it is pushed to the free list;
\* one buffer is counted as used.
Expand(t) ==
  /\ pc[t] = "expand" /\ pages < MaxPages
  /\ pages' = pages + 1
  /\ free' = free \cup Page(pages + 1)
  /\ useCount' = useCount + 1
  /\ tries' = [tries EXCEPT ![t] = Retries]
  /\ Goto(t, "retry")
  /\ UNCHANGED <<cache, allocated, pageLock, buf, users>>

\* Mutant of Retry: the loop runs once too often.
RetryTooOften(t) ==
  /\ pc[t] = "retry" /\ free = {}
  /\ tries' = [tries EXCEPT ![t] = @ - 1]
  /\ IF tries[t] < 0
     THEN Goto(t, "idle") /\ pageLock' = NoThread
     ELSE UNCHANGED <<pc, pageLock>>
  /\ UNCHANGED <<free, cache, allocated, pages, useCount, buf, users>>

\* The pops after expanding: the free list may be empty again; after the last of them
\* nullptr is returned, and PageLock is left.
Retry(t) ==
  /\ pc[t] = "retry"
  /\ \/ /\ tries[t] > 0
        /\ \E b \in free :
             /\ free' = free \ {b}
             /\ buf' = [buf EXCEPT ![t] = b]
        /\ Goto(t, "mark")
        /\ UNCHANGED <<pageLock, tries>>
     \/ /\ tries[t] > 0 /\ free = {}
        /\ tries' = [tries EXCEPT ![t] = @ - 1]
        /\ UNCHANGED <<free, pageLock, pc, buf>>
     \/ /\ tries[t] = 0
        /\ pageLock' = NoThread
        /\ Goto(t, "idle")
        /\ UNCHANGED <<free, buf, tries>>
  /\ UNCHANGED <<cache, allocated, pages, useCount, users>>

--------------------------------------------------------------------------------
(* Release and Shutdown                                                           *)

\* A thread calls Release for a buffer that some thread has acquired.
StartRelease(t) ==
  /\ pc[t] = "idle" /\ pages > 0
  /\ \E b \in InUse :
       /\ users' = [users EXCEPT ![b] = @ - 1]
       /\ buf' = [buf EXCEPT ![t] = b]
  /\ Goto(t, "release")
  /\ UNCHANGED <<free, cache, allocated, pages, useCount, pageLock, tries>>

\* Two threads that have read the same entry of CSocket::SendBatch, Close in one and
\* OnWriteComplete in the other, both go on to release it.
StartSharedRelease(t, u) ==
  /\ t # u
  /\ pc[t] = "idle" /\ pc[u] = "idle" /\ pages > 0
  /\ \E b \in InUse \cap Shared :
       /\ users' = [users EXCEPT ![b] = @ - 1]
       /\ buf' = [buf EXCEPT ![t] = b, ![u] = b]
  /\ pc' = [pc EXCEPT ![t] = "release", ![u] = "release"]
  /\ UNCHANGED <<free, cache, allocated, pages, useCount, pageLock, tries>>

\* Mutant of TestAndClear: IsAllocated is not tested.
ClearOnly(t) ==
  /\ pc[t] = "release"
  /\ allocated' = allocated \ {buf[t]}
  /\ useCount' = useCount - 1
  /\ IF Cardinality(cache[t]) < CacheCapacity
     THEN /\ cache' = [cache EXCEPT ![t] = @ \cup {buf[t]}]
          /\ buf' = [buf EXCEPT ![t] = NoBuffer]
          /\ Goto(t, "idle")
     ELSE Goto(t, "overflow") /\ UNCHANGED <<cache, buf>>
  /\ UNCHANGED <<free, pages, pageLock, tries, users>>

\* Mutant of TestAndClear: the count goes down before the test.
CountBeforeTest(t) ==
  /\ pc[t] = "release"
  /\ useCount' = useCount - 1
  /\ allocated' = allocated \ {buf[t]}
  /\ IF buf[t] \in allocated
     THEN cache' = [cache EXCEPT ![t] = @ \cup {buf[t]}]
     ELSE UNCHANGED cache
  /\ buf' = [buf EXCEPT ![t] = NoBuffer]
  /\ Goto(t, "idle")
  /\ UNCHANGED <<free, pages, pageLock, tries, users>>

\* Release: IsAllocated.compare_exchange_strong(true, false); a buffer that was not marked
\* is left alone.  It goes to the cache of the thread if that has room.
TestAndClear(t) ==
  /\ pc[t] = "release"
  /\ IF buf[t] \in allocated
     THEN /\ allocated' = allocated \ {buf[t]}
          /\ useCount' = useCount - 1
          /\ IF Cardinality(cache[t]) < CacheCapacity
             THEN /\ cache' = [cache EXCEPT ![t] = @ \cup {buf[t]}]
                  /\ buf' = [buf EXCEPT ![t] = NoBuffer]
                  /\ Goto(t, "idle")
             ELSE /\ Goto(t, "overflow")
                  /\ UNCHANGED <<cache, buf>>
     ELSE /\ buf' = [buf EXCEPT ![t] = NoBuffer]
          /\ Goto(t, "idle")
          /\ UNCHANGED <<allocated, useCount, cache>>
  /\ UNCHANGED <<free, pages, pageLock, tries, users>>

\* Mutant of Overflow: the batch does not reach the free list.
OverflowToNowhere(t) ==
  /\ pc[t] = "overflow"
  /\ \E batch \in SUBSET cache[t] :
       /\ Cardinality(batch) = AtMost(Cardinality(cache[t]), BatchSize)
       /\ cache' = [cache EXCEPT ![t] = (@ \ batch) \cup {buf[t]}]
  /\ buf' = [buf EXCEPT ![t] = NoBuffer]
  /\ Goto(t, "idle")
  /\ UNCHANGED <<free, allocated, pages, useCount, pageLock, tries, users>>

\* Release with a full cache: FreeList.PushBatch of a batch of it, then the buffer goes to
\* the cache.
Overflow(t) ==
  /\ pc[t] = "overflow"
  /\ \E batch \in SUBSET cache[t] :
       /\ Cardinality(batch) = AtMost(Cardinality(cache[t]), BatchSize)
       /\ free' = free \cup batch
       /\ cache' = [cache EXCEPT ![t] = (@ \ batch) \cup {buf[t]}]
  /\ buf' = [buf EXCEPT ![t] = NoBuffer]
  /\ Goto(t, "idle")
  /\ UNCHANGED <<allocated, pages, useCount, pageLock, tries, users>>

\* Shutdown deletes the pages; main calls it when it has joined every thread.  The free
\* list and the caches keep their pointers.
Shutdown ==
  /\ pages > 0 /\ pageLock = NoThread
  /\ \A t \in Threads : pc[t] = "idle"
  /\ pages' = 0
  /\ UNCHANGED <<free, cache, allocated, useCount, pageLock, pc, buf, tries, users>>

ThreadStep(t) ==
  \/ StartAcquire(t) \/ PopBatch(t) \/ Mark(t) \/ Lock(t) \/ Recheck(t) \/ Remark(t)
  \/ Expand(t) \/ Retry(t) \/ StartRelease(t) \/ TestAndClear(t) \/ Overflow(t)

Next ==
  \/ \E t \in Threads : ThreadStep(t) \/ \E u \in Threads : StartSharedRelease(t, u)
  \/ Shutdown

Spec == Init /\ [][Next]_vars

--------------------------------------------------------------------------------
(* Properties                                                                     *)

\* What thread t has taken out of the pool or is about to put back into it.
Carried(t) == IF pc[t] \in {"mark", "remark", "overflow"} THEN {buf[t]} ELSE {}

\* What thread t has been asked to release.
Releasing(t) == IF pc[t] = "release" THEN {buf[t]} ELSE {}

\* What the pool has: nobody outside may be using it.
Pooled == free \cup UNION {cache[t] \cup Carried(t) : t \in Threads}

\* Acquire and Release move pointers between the free list, the caches and the threads with
\* no lock around the whole: each buffer is in at most one of these places, or two callers
\* of Acquire would be given the same one.  It must hold even when two threads release a
\* buffer at once, which is what IsAllocated is for.
OnePlace ==
  /\ \A t \in Threads : free \cap (cache[t] \cup Carried(t)) = {}
  /\ \A t \in Threads : cache[t] \cap Carried(t) = {}
  /\ \A t, u \in Threads :
       t # u => (cache[t] \cup Carried(t)) \cap (cache[u] \cup Carried(u)) = {}

\* The buffers that have been made and are nowhere: not in the pool, not in use, not being
\* released.
Lost == (1 .. pages * PageSize) \ (Pooled \cup InUse \cup UNION {Releasing(t) : t \in Threads})

\* The double check (Buffer.cpp:295, "while the lock was awaited another thread may have
\* returned one, so check again") pops a buffer, and AllocateNewPageAndPop forgets it when it
\* goes on to expand.  Each call loses one buffer at most, and nothing else does: expanding
\* always wins more than it loses.
LostPerExpansion ==
  pages > 0 => Cardinality(Lost) <= pages - 1 + (IF pageLock = NoThread THEN 0 ELSE 1)

\* GetFreeCount subtracts UseCount from the total.  UseCount is adjusted in four places, by
\* threads that race; it is the number of buffers marked as allocated, and one more for each
\* page, which AllocateNewPageInternal adds.
UseCountDrifts == pages > 0 => useCount = Cardinality(allocated) + pages

\* The pool gives each buffer to one user at a time, whatever page, list or cache it comes
\* from, and takes back only what it has given.  That is not so for a buffer that two threads
\* release at once: the later release may come after the buffer has found a new user.  But
\* it does no harm to any other buffer.
Allocator ==
  INSTANCE BufferAllocator WITH
    Buffers <- Buffers \ Shared, users <- [b \in Buffers \ Shared |-> users[b]]
AllocatesExclusively == Allocator!Spec
================================================================================
