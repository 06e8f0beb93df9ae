------------------------------ MODULE SprMutex ------------------------------
(***************************************************************************)
(* The mutex of lib/thread/spr_mutex.c as spr_pool_create1 asks for it:    *)
(* recursive, POSIX.  Unlocking a mutex the thread does not hold fails     *)
(* with an error and changes nothing.                                      *)
(***************************************************************************)
EXTENDS Integers

CONSTANTS Threads, NULL

ASSUME ThreadsAssumption == NULL \notin Threads

VARIABLES
  holder,  \* the thread that holds the mutex, or NULL
  depth    \* how often it has locked it

MutexInit == holder = NULL /\ depth = 0

(* Mutant: a mutex that is not recursive.                                  *)
LockNotRecursive(t) ==
  /\ holder = NULL
  /\ holder' = t
  /\ depth' = depth + 1

spr_mutex_lock(t) ==
  /\ holder \in {t, NULL}
  /\ holder' = t
  /\ depth' = depth + 1

(* Mutant: the first unlock gives up all of the thread's locks.            *)
UnlockAll(t) ==
  \/ holder = t /\ holder' = NULL /\ depth' = 0
  \/ holder # t /\ UNCHANGED <<holder, depth>>

spr_mutex_unlock(t) ==
  \/ /\ holder = t
     /\ depth' = depth - 1
     /\ holder' = IF depth = 1 THEN NULL ELSE t
  \/ /\ holder # t
     /\ UNCHANGED <<holder, depth>>
=============================================================================
