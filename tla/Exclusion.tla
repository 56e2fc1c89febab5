----------------------------- MODULE Exclusion -----------------------------
(***************************************************************************)
(* The promise of mutex_lock and mutex_unlock (src/kernel/process.c:215-   *)
(* 247), without the word they swap, the locker field and the wait queue:  *)
(* a thread returns from its try_lock loop only when no thread is inside,  *)
(* and is inside until it unlocks.  No step lets two in, or puts out a     *)
(* thread that has not unlocked.                                           *)
(***************************************************************************)
CONSTANT Threads

VARIABLE inside   \* the threads that have locked and not yet unlocked

\* mutex_init: lock->lock = 1.
Unlocked == inside = {}

\* t has the lock, and nobody else: what mutex_lock leads to from Unlocked, and
\* the only state from which a thread unlocks.
LockedBy(t) == inside = {t}

mutex_lock(t)   == Unlocked /\ LockedBy(t)'
mutex_unlock(t) == LockedBy(t) /\ Unlocked'

OneAtATime == /\ Unlocked
              /\ [][\E t \in Threads : mutex_lock(t) \/ mutex_unlock(t)]_inside
=============================================================================
