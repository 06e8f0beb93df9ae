--------------------------- MODULE SprSyncProofs ----------------------------
(***************************************************************************)
(* Proofs about SprSync for every set of workers, every number of rounds   *)
(* and every initial value and maximum of the semaphore, in all variants.  *)
(***************************************************************************)
EXTENDS SprSync, FiniteSetTheorems, TLAPS

(***************************************************************************)
(* Where a worker is in its life: created once, at rest until then, and    *)
(* running, with a handle or reported as failed, while it is in a round.   *)
(***************************************************************************)
LifeInv ==
  /\ fresh \cap (created \cup failed) = {}
  /\ main = "thread_attr" => target \in Threads \ (created \cup failed \cup fresh)
  /\ main \in {"mutex", "mutex_attr", "semaphore"} => created = {} /\ "semaphore" \notin alive
  /\ main = "semaphore" => alive = {"mutex"}
  /\ main \in {"start", "thread_attr", "join"} => alive = {"mutex", "semaphore"}
  /\ known \cup running \subseteq created
  /\ running \subseteq known \cup (IF Posix THEN {} ELSE failed)
  /\ main = "done" => known = {}
  /\ \A w \in Threads : w \notin created => pc[w] = "rest"
  /\ \A w \in Threads : pc[w] \notin {"rest", "wait"} => w \in running \cup killed

(* How often a worker at a label has locked the mutex.                     *)
Times(label) == IF label = "nested" THEN 2 ELSE 1

(***************************************************************************)
(* The mutex and the labels of the workers agree.                          *)
(***************************************************************************)
HolderInv ==
  /\ holder = NULL <=> depth = 0
  /\ \A w \in running : pc[w] \in Entered => holder = w /\ depth >= Times(pc[w])
  /\ \A w \in Threads : pc[w] \in {"again", "nested"} => recursive
  /\ killed = {} =>
       \A w \in Threads : holder = w => pc[w] \in Entered /\ depth = Times(pc[w])

(***************************************************************************)
(* Win32 refuses a semaphore whose value is above its maximum, so that no  *)
(* post is refused later.                                                  *)
(***************************************************************************)
UnitsInv ==
  "semaphore" \in alive =>
    /\ build = "win32" => value <= maxval
    /\ count + Cardinality(Inside) = value

(***************************************************************************)
(* The attribute object of the call that is under way is one more than     *)
(* those that failed calls have left.                                      *)
(***************************************************************************)
AttrsInv ==
  /\ main = "mutex" => attrs = 0
  /\ main = "mutex_attr" => attrs = 1
  /\ main = "thread_attr" => attrs \in 1..(Cardinality(failed) + 1)
  /\ AttrsReleased
  /\ main # "misled" => misled = {}
  /\ misled # {} => Posix /\ errno = 0

IInv == TypeOK /\ LifeInv /\ HolderInv /\ UnitsInv /\ AttrsInv

-----------------------------------------------------------------------------
(* What the steps of each kind leave alone.                                *)

MainCall ==
  \/ mutex_attr_init \/ posix_mutex_init \/ win32_mutex_init \/ AllStarted \/ Fini
  \/ \E w \in Threads : spr_thread_join(w)

SemaphoreCall == posix_semaphore_init \/ gcd_semaphore_init \/ win32_semaphore_init

(* spr_semaphore_init makes the semaphore or changes nothing of it.        *)
LEMMA SemaphoreCases ==
  ASSUME SemaphoreCall
  PROVE  /\ main = "semaphore"
         /\ \/ SemaphoreMade /\ (build = "win32" => value <= maxval)
            \/ SemaphoreRefused(errno) \/ SemaphoreRefused(1)
            \/ Posix /\ SemaphoreFails
BY DEF SemaphoreCall, posix_semaphore_init, gcd_semaphore_init, win32_semaphore_init, Posix

(* The steps of a worker, by what they do.                                 *)
WorkerStep(w) ==
  \/ NewRound(w) \/ Exit(w)
  \/ semaphore_wait(w) \/ semaphore_trywait(w) \/ semaphore_post(w)
  \/ MutexLock(w) \/ mutex_trylock(w) \/ win32_mutex_abandoned(w)
  \/ Nest(w) \/ Unnest(w) \/ MutexUnlock(w)
  \/ semaphore_interrupted(w) \/ CancelledAtWait(w)

(* Every step of the program is one of these.                              *)
LEMMA StepCases ==
  ASSUME [Next]_vars
  PROVE  \/ MainCall /\ UNCHANGED <<params, lockVars, cancelled, count, workVars>>
         \/ SemaphoreCall /\ UNCHANGED <<params, lockVars, cancelled, workVars>>
         \/ posix_thread_init /\ UNCHANGED <<params, lockVars, cancelled, count>>
         \/ \E w \in Threads :
              /\ thread_attr_init(w) \/ win32_thread_init(w)
              /\ UNCHANGED <<params, lockVars, cancelled, count>>
         \/ \E w \in Threads :
              /\ posix_thread_cancel(w) \/ win32_thread_cancel(w)
              /\ UNCHANGED <<params, lockVars, count>>
         \/ \E w \in Threads : WorkerStep(w) /\ UNCHANGED <<params, mainVars, cancelled>>
         \/ \E w \in Threads : /\ thread_join_fails(w)
                               /\ UNCHANGED <<params, lockVars, cancelled, count, workVars>>
         \/ UNCHANGED vars
BY DEF Next, Main, Cancel, Progress, Other, JoinFails, MainCall, SemaphoreCall, WorkerStep

-----------------------------------------------------------------------------

(* A failed pthread call that leaves at most one attribute object of its   *)
(* own is accounted for, by the failed threads or by the one misled about. *)
LEMMA FailAccounts ==
  ASSUME TypeOK, Posix, UNCHANGED build, misled = {},
         NEW object, NEW told \in {"start", "failed"}, PthreadFails(object, told),
         attrs' <= Cardinality(failed) + (IF object \in Threads \ failed THEN 1 ELSE 0),
         attrs' \in Nat
  PROVE  AttrsInv'
<1>1. IsFiniteSet(failed) /\ Cardinality(failed) \in Nat
  BY SyncAssumption, FS_Subset, FS_CardinalityType DEF SyncAssumption, TypeOK
<1>2. CASE misled' = {object} /\ main' = "misled" /\ failed' = failed /\ errno' = 0
  <2>1. misled' \cap Threads = IF object \in Threads THEN {object} ELSE {}
    BY <1>2
  <2>2. Cardinality(misled' \cap Threads) = IF object \in Threads THEN 1 ELSE 0
    BY <2>1, FS_Singleton, FS_EmptySet
  <2> QED
    BY <1>1, <1>2, <2>2 DEF AttrsInv, AttrsReleased, Posix
<1>3. CASE /\ misled' = {} /\ main' = told
           /\ failed' = IF object \in Threads THEN failed \cup {object} ELSE failed
  <2>1. Cardinality(failed \cup {object}) =
          IF object \in failed THEN Cardinality(failed) ELSE Cardinality(failed) + 1
    BY <1>1, FS_AddElement
  <2>2. misled' \cap Threads = {}
    BY <1>3
  <2>3. attrs' <= Cardinality(failed') + Cardinality(misled' \cap Threads)
    BY <1>1, <1>3, <2>1, <2>2, FS_EmptySet
  <2> QED
    BY <1>3, <2>3 DEF AttrsInv, AttrsReleased
<1> QED
  BY <1>2, <1>3 DEF PthreadFails, Fails

(* spr_mutex_init and spr_thread_init account for their attribute objects. *)
LEMMA AttrsStep ==
  ASSUME IInv, [Next]_vars
  PROVE  AttrsInv'
<1> USE DEF AttrsInv, AttrsReleased
<1>0. UNCHANGED build /\ (Posix' <=> Posix)
  BY StepCases DEF params, vars, Posix
<1>1. /\ IsFiniteSet(failed) /\ Cardinality(failed) \in Nat
      /\ TypeOK /\ AttrsInv /\ attrs \in Nat
  BY SyncAssumption, FS_Subset, FS_CardinalityType DEF SyncAssumption, IInv, TypeOK
<1>2. main # "misled" => attrs <= Cardinality(failed) + (IF main \in {"mutex_attr", "thread_attr"} THEN 1 ELSE 0)
  <2>1. {} \cap Threads = {}
    OBVIOUS
  <2> QED
    BY <1>1, <2>1, FS_EmptySet
<1>3. IsFiniteSet(misled \cap Threads) /\ Cardinality(misled \cap Threads) \in Nat
  BY SyncAssumption, FS_Subset, FS_CardinalityType DEF SyncAssumption
<1>4. CASE mutex_attr_init
  <2>1. CASE PthreadFails("mutex", "failed")
    BY <1>0, <1>1, <1>4, <2>1, FailAccounts DEF mutex_attr_init
  <2> QED
    BY <1>0, <1>1, <1>4, <2>1 DEF mutex_attr_init
<1>5. CASE posix_mutex_init
  <2>0. attrs' = 0 /\ misled = {} /\ Posix
    BY <1>1, <1>5 DEF posix_mutex_init
  <2>1. CASE PthreadFails("mutex", "failed")
    <3>1. /\ attrs' <= Cardinality(failed) + (IF "mutex" \in Threads \ failed THEN 1 ELSE 0)
          /\ attrs' \in Nat
      BY <1>1, <2>0
    <3> HIDE DEF AttrsInv, AttrsReleased
    <3> QED
      BY <1>0, <1>1, <2>0, <2>1, <3>1, FailAccounts
  <2>2. CASE main' = "semaphore" /\ UNCHANGED <<errno, misled, failed>>
    BY <1>0, <1>1, <1>3, <2>0, <2>2
  <2> QED
    BY <1>5, <2>1, <2>2 DEF posix_mutex_init
<1>6. CASE win32_mutex_init
  BY <1>0, <1>1, <1>3, <1>6 DEF win32_mutex_init
<1>7. CASE AllStarted \/ Fini \/ \E w \in Threads : spr_thread_join(w)
  BY <1>0, <1>1, <1>7 DEF AllStarted, Fini, spr_thread_join
<1>8. CASE SemaphoreCall
  <2>1. CASE Posix /\ SemaphoreFails
    <3>1. /\ attrs' = attrs /\ failed' = failed /\ misled' \cap Threads = {} /\ main = "semaphore"
          /\ (misled' = {} \/ (main' = "misled" /\ errno' = 0)) /\ main' \in {"failed", "misled"}
      BY <1>1, <1>8, <2>1, SemaphoreCases, SyncAssumption DEF SyncAssumption, SemaphoreFails, Fails
    <3>2. Cardinality(misled' \cap Threads) = 0
      BY <3>1, FS_EmptySet
    <3> QED
      BY <1>0, <1>1, <1>2, <2>1, <3>1, <3>2
  <2> QED
    BY <1>0, <1>1, <1>8, <2>1, SemaphoreCases DEF SemaphoreMade, SemaphoreRefused
<1>9. CASE posix_thread_init
  <2>1. target \in Threads \ failed
    BY <1>9 DEF posix_thread_init, IInv, LifeInv
  <2>2. CASE PthreadFails(target, "start") /\ UNCHANGED attrs
    BY <1>0, <1>1, <1>2, <1>9, <2>1, <2>2, FailAccounts DEF posix_thread_init
  <2>3. CASE attrs' = attrs - 1 /\ main' = "start" /\ UNCHANGED <<errno, misled, failed>>
    <3>1. attrs' <= Cardinality(failed)
      BY <1>1, <1>9, <2>3 DEF posix_thread_init
    <3> QED
      BY <1>0, <1>1, <1>3, <1>9, <2>3, <3>1 DEF posix_thread_init
  <2> QED
    BY <1>9, <2>2, <2>3 DEF posix_thread_init
<1>10. ASSUME NEW w \in Threads, thread_attr_init(w)
       PROVE  AttrsInv'
  <2>1. CASE PthreadFails(w, "start") /\ UNCHANGED attrs
    BY <1>0, <1>1, <1>2, <1>10, <2>1, FailAccounts DEF thread_attr_init
  <2> QED
    BY <1>0, <1>1, <1>2, <1>10, <2>1 DEF thread_attr_init
<1>11. ASSUME NEW w \in Threads, win32_thread_init(w)
       PROVE  AttrsInv'
  <2>1. Cardinality(failed \cup {w}) =
          IF w \in failed THEN Cardinality(failed) ELSE Cardinality(failed) + 1
    BY <1>1, FS_AddElement
  <2>2. main' = "start" /\ main = "start" /\ UNCHANGED <<attrs, misled>> /\ misled = {}
    BY <1>1, <1>11 DEF win32_thread_init
  <2>3. Cardinality(failed') \in Nat /\ Cardinality(failed) <= Cardinality(failed')
    BY <1>1, <1>11, <2>1 DEF win32_thread_init
  <2> QED
    BY <1>0, <1>1, <1>3, <2>2, <2>3
<1>12. CASE UNCHANGED <<params, mainVars>>
  BY <1>0, <1>1, <1>12 DEF params, mainVars
<1>13. ASSUME NEW w \in Threads, thread_join_fails(w)
       PROVE  AttrsInv'
  <2>1. /\ attrs' = attrs /\ failed' = failed /\ misled' \cap Threads = {} /\ main = "join"
        /\ (misled' = {} \/ (main' = "misled" /\ errno' = 0 /\ Posix))
        /\ main' \in {"failed", "misled"}
    BY <1>1, <1>13, SyncAssumption DEF SyncAssumption, thread_join_fails, Fails
  <2>2. Cardinality(misled' \cap Threads) = 0
    BY <2>1, FS_EmptySet
  <2> QED
    BY <1>0, <1>1, <1>2, <2>1, <2>2
<1> QED
  BY StepCases, <1>4, <1>5, <1>6, <1>7, <1>8, <1>9, <1>10, <1>11, <1>12, <1>13
     DEF MainCall, posix_thread_cancel, win32_thread_cancel, vars

-----------------------------------------------------------------------------

(* The lives of the workers.                                               *)
LEMMA LifeStep ==
  ASSUME IInv, [Next]_vars
  PROVE  LifeInv'
<1> USE DEF LifeInv, Posix
<1>1. TypeOK /\ LifeInv
  BY DEF IInv
<1>2. CASE MainCall /\ UNCHANGED <<params, workVars>>
  <2>1. CASE mutex_attr_init
    BY <1>1, <1>2, <2>1, SyncAssumption
       DEF SyncAssumption, TypeOK, mutex_attr_init, PthreadFails, Fails, params, workVars
  <2>2. CASE posix_mutex_init
    BY <1>1, <1>2, <2>2, SyncAssumption
       DEF SyncAssumption, TypeOK, posix_mutex_init, PthreadFails, Fails, params, workVars
  <2>3. CASE win32_mutex_init
    BY <1>1, <1>2, <2>3 DEF TypeOK, win32_mutex_init, params, workVars
  <2>4. CASE AllStarted \/ Fini \/ \E w \in Threads : spr_thread_join(w)
    BY <1>1, <1>2, <2>4 DEF TypeOK, AllStarted, Fini, spr_thread_join, params, workVars
  <2> QED
    BY <1>2, <2>1, <2>2, <2>3, <2>4 DEF MainCall
<1>3. CASE SemaphoreCall /\ UNCHANGED <<params, workVars>>
  BY <1>1, <1>3, SemaphoreCases
     DEF TypeOK, SemaphoreMade, SemaphoreRefused, SemaphoreFails, Fails, params, workVars
<1>4. CASE posix_thread_init /\ UNCHANGED params
  BY <1>1, <1>4 DEF TypeOK, posix_thread_init, PthreadFails, Fails, Begin, params, workVars
<1>5. ASSUME NEW w \in Threads, thread_attr_init(w), UNCHANGED params
      PROVE  LifeInv'
  BY <1>1, <1>5 DEF TypeOK, thread_attr_init, PthreadFails, Fails, params, workVars
<1>6. ASSUME NEW w \in Threads, win32_thread_init(w), UNCHANGED params
      PROVE  LifeInv'
  BY <1>1, <1>6 DEF TypeOK, win32_thread_init, Begin, params, workVars
<1>7. ASSUME NEW w \in Threads, posix_thread_cancel(w) \/ win32_thread_cancel(w),
             UNCHANGED params
      PROVE  LifeInv'
  BY <1>1, <1>7 DEF TypeOK, posix_thread_cancel, win32_thread_cancel, params, mainVars, workVars
<1>8. ASSUME NEW w \in Threads, WorkerStep(w), UNCHANGED <<params, mainVars>>
      PROVE  LifeInv'
  <2>1. UNCHANGED <<created, killed>> /\ w \in running /\ main \notin {"mutex", "mutex_attr", "semaphore"}
    BY <1>1, <1>8 DEF WorkerStep, NewRound, Exit, End, semaphore_wait, semaphore_trywait,
       semaphore_post, MutexLock, mutex_trylock, win32_mutex_abandoned, Nest, Unnest,
       MutexUnlock, semaphore_interrupted, CancelledAtWait, Goto, At
  <2>2. CASE End(w) /\ pc[w] \in {"rest", "wait"}
    BY <1>1, <1>8, <2>1, <2>2 DEF TypeOK, End, params, mainVars
  <2>3. CASE UNCHANGED running /\ \E label : pc' = [pc EXCEPT ![w] = label]
    BY <1>1, <1>8, <2>1, <2>3 DEF TypeOK, params, mainVars
  <2> QED
    BY <1>8, <2>2, <2>3 DEF WorkerStep, NewRound, Exit, semaphore_wait, semaphore_trywait,
       semaphore_post, MutexLock, mutex_trylock, win32_mutex_abandoned, Nest, Unnest,
       MutexUnlock, semaphore_interrupted, CancelledAtWait, Goto, At
<1>9. CASE UNCHANGED vars
  BY <1>1, <1>9 DEF vars, params, mainVars, workVars
<1>10. ASSUME NEW w \in Threads, thread_join_fails(w), UNCHANGED <<params, workVars>>
       PROVE  LifeInv'
  BY <1>1, <1>10 DEF TypeOK, thread_join_fails, Fails, params, workVars
<1> QED
  BY StepCases, <1>2, <1>3, <1>4, <1>5, <1>6, <1>7, <1>8, <1>9, <1>10

(* The mutex stays with the worker that has entered.                       *)
LEMMA HolderStep ==
  ASSUME IInv, [Next]_vars
  PROVE  HolderInv'
<1> USE DEF HolderInv, Entered, Times
<1>1. TypeOK /\ LifeInv /\ HolderInv /\ NULL \notin Threads
  BY ThreadsAssumption DEF IInv, ThreadsAssumption
<1>2. ASSUME UNCHANGED <<recursive, holder, depth, pc, killed>>,
             \A w \in running' \ running : pc[w] = "rest"
      PROVE  HolderInv'
  BY <1>1, <1>2
<1>3. CASE UNCHANGED <<params, lockVars, workVars>>
  BY <1>2, <1>3 DEF params, lockVars, workVars
<1>4. CASE posix_thread_init /\ UNCHANGED <<params, lockVars>>
  BY <1>1, <1>2, <1>4 DEF posix_thread_init, Begin, params, lockVars, workVars, LifeInv
<1>5. ASSUME NEW w \in Threads, thread_attr_init(w) \/ win32_thread_init(w),
             UNCHANGED <<params, lockVars>>
      PROVE  HolderInv'
  BY <1>1, <1>2, <1>5 DEF thread_attr_init, win32_thread_init, Begin, params, lockVars, workVars,
     LifeInv
<1>6. ASSUME NEW w \in Threads, posix_thread_cancel(w) \/ win32_thread_cancel(w),
             UNCHANGED <<params, lockVars>>
      PROVE  HolderInv'
  BY <1>1, <1>6 DEF posix_thread_cancel, win32_thread_cancel, params, lockVars, workVars
<1>7. ASSUME NEW w \in Threads, WorkerStep(w), UNCHANGED <<params, mainVars>>
      PROVE  HolderInv'
  <2> USE DEF At, Goto, TypeOK
  <2>1. CASE NewRound(w) \/ semaphore_wait(w) \/ semaphore_trywait(w) \/ semaphore_post(w)
             \/ semaphore_interrupted(w)
    BY <1>1, <1>7, <2>1 DEF NewRound, semaphore_wait, semaphore_trywait, semaphore_post,
       semaphore_interrupted, lockVars, params
  <2>2. CASE Exit(w) \/ CancelledAtWait(w)
    BY <1>1, <1>7, <2>2 DEF Exit, CancelledAtWait, End, lockVars, params
  <2>3. CASE MutexLock(w)
    BY <1>1, <1>7, <2>3 DEF MutexLock, Locked, posix_mutex_lock, win32_mutex_lock,
       spr_mutex_lock, params
  <2>4. CASE mutex_trylock(w)
    BY <1>1, <1>7, <2>4 DEF mutex_trylock, Locked, posix_mutex_lock, win32_mutex_lock,
       spr_mutex_lock, lockVars, params
  <2>5. CASE win32_mutex_abandoned(w)
    BY <1>1, <1>7, <2>5 DEF win32_mutex_abandoned, LifeInv, params
  <2>6. CASE Nest(w)
    BY <1>1, <1>7, <2>6 DEF Nest, Locked, posix_mutex_lock, win32_mutex_lock,
       spr_mutex_lock, params
  <2>7. CASE Unnest(w)
    BY <1>1, <1>7, <2>7 DEF Unnest, spr_mutex_unlock, params
  <2>8. CASE MutexUnlock(w)
    BY <1>1, <1>7, <2>8 DEF MutexUnlock, spr_mutex_unlock, params
  <2> QED
    BY <1>7, <2>1, <2>2, <2>3, <2>4, <2>5, <2>6, <2>7, <2>8 DEF WorkerStep
<1>8. CASE UNCHANGED vars
  BY <1>3, <1>8 DEF vars
<1> QED
  BY StepCases, <1>3, <1>4, <1>5, <1>6, <1>7, <1>8

-----------------------------------------------------------------------------

(* 1 for the label of a worker that has a unit of the semaphore.           *)
Unit(label) == IF label \in Entered \cup {"lock", "trylock", "post"} THEN 1 ELSE 0

(* A worker that moves from one label to another takes its unit along.     *)
LEMMA InsideMoves ==
  ASSUME TypeOK, NEW w \in Threads, pc' = [pc EXCEPT ![w] = pc'[w]]
  PROVE  /\ Cardinality(Inside') = Cardinality(Inside) + Unit(pc'[w]) - Unit(pc[w])
         /\ Cardinality(Inside) >= Unit(pc[w])
<1>1. IsFiniteSet(Inside) /\ Cardinality(Inside) \in Nat
  BY SyncAssumption, FS_Subset, FS_CardinalityType DEF SyncAssumption, Inside
<1>2. /\ Inside' = IF Unit(pc'[w]) = 1 THEN Inside \cup {w} ELSE Inside \ {w}
      /\ w \in Inside <=> Unit(pc[w]) = 1
  BY DEF Inside, TypeOK, Unit
<1>3. /\ Cardinality(Inside \cup {w}) =
           IF w \in Inside THEN Cardinality(Inside) ELSE Cardinality(Inside) + 1
      /\ Cardinality(Inside \ {w}) =
           IF w \in Inside THEN Cardinality(Inside) - 1 ELSE Cardinality(Inside)
      /\ w \in Inside => Cardinality(Inside) # 0
  BY <1>1, FS_AddElement, FS_RemoveElement, FS_EmptySet
<1>4. Unit(pc'[w]) \in {0, 1} /\ Unit(pc[w]) \in {0, 1}
  BY DEF Unit
<1> QED
  BY <1>1, <1>2, <1>3, <1>4

(* Units of the semaphore are neither lost nor made.                       *)
LEMMA UnitsStep ==
  ASSUME IInv, [Next]_vars
  PROVE  UnitsInv'
<1> USE DEF UnitsInv
<1>1. /\ TypeOK /\ LifeInv /\ UnitsInv /\ Cardinality(Inside) \in Nat
      /\ count \in Nat /\ value \in Nat /\ maxval \in Nat
  BY SyncAssumption, FS_Subset, FS_CardinalityType DEF IInv, SyncAssumption, Inside, TypeOK
<1>2. ASSUME UNCHANGED <<params, count, pc>>, "semaphore" \in alive' => "semaphore" \in alive
      PROVE  UnitsInv'
  BY <1>1, <1>2 DEF params, Inside
<1>3. CASE MainCall /\ UNCHANGED <<params, count, workVars>>
  BY <1>2, <1>3 DEF MainCall, mutex_attr_init, posix_mutex_init, win32_mutex_init, AllStarted,
     Fini, spr_thread_join, params, workVars
<1>4. CASE SemaphoreCall /\ UNCHANGED <<params, workVars>>
  <2>1. CASE SemaphoreMade /\ (build = "win32" => value <= maxval)
    <3>1. Inside' = {}
      BY <1>1, <1>4, SemaphoreCases DEF LifeInv, Inside, Entered, workVars, TypeOK
    <3> QED
      BY <1>1, <1>4, <2>1, <3>1, FS_EmptySet DEF SemaphoreMade, params
  <2>2. CASE SemaphoreRefused(errno) \/ SemaphoreRefused(1) \/ SemaphoreFails
    BY <1>2, <1>4, <2>2 DEF SemaphoreRefused, SemaphoreFails, params, workVars
  <2> QED
    BY <1>4, <2>1, <2>2, SemaphoreCases
<1>5. CASE posix_thread_init /\ UNCHANGED <<params, count>>
  BY <1>2, <1>5 DEF posix_thread_init, Begin, params, workVars
<1>6. ASSUME NEW w \in Threads, UNCHANGED <<params, count>>,
             \/ thread_attr_init(w) \/ win32_thread_init(w)
             \/ posix_thread_cancel(w) \/ win32_thread_cancel(w)
      PROVE  UnitsInv'
  BY <1>2, <1>6 DEF thread_attr_init, win32_thread_init, Begin, posix_thread_cancel,
     win32_thread_cancel, params, mainVars, workVars
<1>7. ASSUME NEW w \in Threads, WorkerStep(w), UNCHANGED <<params, mainVars>>
      PROVE  UnitsInv'
  <2> USE DEF At, Goto
  <2>0. /\ UNCHANGED <<build, value, maxval, alive>>
        /\ pc \in [Threads -> {"rest", "wait", "trywait", "lock", "trylock", "in", "again",
                               "nested", "post"}]
    BY <1>1, <1>7 DEF params, mainVars, TypeOK
  <2>1. ASSUME UNCHANGED count, pc' = [pc EXCEPT ![w] = pc'[w]], Unit(pc'[w]) = Unit(pc[w])
        PROVE  UnitsInv'
    <3>1. Unit(pc[w]) \in {0, 1}
      BY DEF Unit
    <3> QED
      BY <1>1, <2>0, <2>1, <3>1, InsideMoves
  <2>2. CASE Exit(w) \/ CancelledAtWait(w)
    BY <1>2, <1>7, <2>2 DEF Exit, CancelledAtWait, End, mainVars
  <2>3. CASE semaphore_wait(w) \/ (count > 0 /\ semaphore_trywait(w))
    <3>1. /\ pc' = [pc EXCEPT ![w] = pc'[w]] /\ Unit(pc'[w]) = 1 /\ Unit(pc[w]) = 0
          /\ count' = count - 1
      BY <1>1, <2>0, <2>3 DEF semaphore_wait, semaphore_trywait, Unit, Entered
    <3> QED
      BY <1>1, <2>0, <3>1, InsideMoves
  <2>4. CASE semaphore_post(w)
    <3>1. /\ pc' = [pc EXCEPT ![w] = pc'[w]] /\ Unit(pc'[w]) = 0 /\ Unit(pc[w]) = 1
          /\ count' = IF build = "win32" /\ count >= maxval THEN count ELSE count + 1
      BY <1>1, <2>0, <2>4 DEF semaphore_post, Unit, Entered
    <3> QED
      BY <1>1, <2>0, <3>1, InsideMoves
  <2>5. CASE NewRound(w) \/ semaphore_interrupted(w) \/ (count = 0 /\ semaphore_trywait(w))
    BY <1>1, <2>0, <2>1, <2>5 DEF NewRound, semaphore_interrupted, semaphore_trywait, Unit, Entered
  <2>6. CASE MutexLock(w) \/ mutex_trylock(w) \/ win32_mutex_abandoned(w)
    BY <2>0, <2>1, <2>6 DEF MutexLock, mutex_trylock, win32_mutex_abandoned, Unit, Entered
  <2>7. CASE Nest(w) \/ Unnest(w) \/ MutexUnlock(w)
    BY <2>0, <2>1, <2>7 DEF Nest, Unnest, MutexUnlock, Unit, Entered
  <2> QED
    BY <1>7, <2>2, <2>3, <2>4, <2>5, <2>6, <2>7 DEF WorkerStep, semaphore_trywait
<1>8. CASE UNCHANGED vars
  BY <1>2, <1>8 DEF vars, mainVars, workVars
<1>9. ASSUME NEW w \in Threads, thread_join_fails(w), UNCHANGED <<params, count, workVars>>
      PROVE  UnitsInv'
  BY <1>2, <1>9 DEF thread_join_fails, workVars
<1> QED
  BY StepCases, <1>3, <1>4, <1>5, <1>6, <1>7, <1>8, <1>9

(* The types, where the other parts keep the counters from going below 0.  *)
LEMMA TypeStep ==
  ASSUME IInv, [Next]_vars
  PROVE  TypeOK'
<1> USE DEF TypeOK
<1>1. TypeOK /\ LifeInv /\ HolderInv /\ AttrsInv
  BY DEF IInv
<1>2. CASE MainCall /\ UNCHANGED <<params, lockVars, cancelled, count, workVars>>
  <2> USE DEF params, lockVars, workVars
  <2>1. CASE mutex_attr_init
    BY <1>1, <1>2, <2>1 DEF mutex_attr_init, PthreadFails, Fails
  <2>2. CASE posix_mutex_init
    <3>1. attrs' = 0
      BY <1>1, <2>2 DEF posix_mutex_init, AttrsInv
    <3>2. UNCHANGED <<target, fresh, known>>
      BY <2>2 DEF posix_mutex_init
    <3>3. CASE PthreadFails("mutex", "failed") /\ UNCHANGED alive
      BY <1>1, <1>2, <3>1, <3>2, <3>3 DEF PthreadFails, Fails
    <3>4. CASE alive' = {"mutex"} /\ main' = "semaphore" /\ UNCHANGED <<errno, misled, failed>>
      BY <1>1, <1>2, <3>1, <3>2, <3>4
    <3> QED
      BY <2>2, <3>3, <3>4 DEF posix_mutex_init
  <2>3. CASE win32_mutex_init
    BY <1>1, <1>2, <2>3 DEF win32_mutex_init
  <2>4. CASE AllStarted \/ Fini \/ \E w \in Threads : spr_thread_join(w)
    BY <1>1, <1>2, <2>4, ZenonT(30) DEF AllStarted, Fini, spr_thread_join
  <2> QED
    BY <1>2, <2>1, <2>2, <2>3, <2>4 DEF MainCall
<1>3. CASE SemaphoreCall /\ UNCHANGED <<params, lockVars, cancelled, workVars>>
  BY <1>1, <1>3, SemaphoreCases, SyncAssumption
     DEF SyncAssumption, SemaphoreMade, SemaphoreRefused, SemaphoreFails, Fails, params, lockVars,
         workVars
<1>4. CASE posix_thread_init /\ UNCHANGED <<params, lockVars, cancelled, count>>
  <2> USE DEF params, lockVars, workVars
  <2>1. target \in Threads /\ attrs \in Nat \ {0}
    BY <1>1, <1>4 DEF posix_thread_init, LifeInv, AttrsInv
  <2>2. CASE PthreadFails(target, "start") /\ UNCHANGED <<attrs, known, workVars>>
    BY <1>1, <1>4, <2>1, <2>2 DEF posix_thread_init, PthreadFails, Fails
  <2>3. CASE /\ attrs' = attrs - 1 /\ known' = known \cup {target} /\ main' = "start"
             /\ Begin(target) /\ UNCHANGED <<errno, misled, failed>>
    BY <1>1, <1>4, <2>1, <2>3 DEF posix_thread_init, Begin
  <2> QED
    BY <1>4, <2>2, <2>3 DEF posix_thread_init
<1>5. ASSUME NEW w \in Threads, UNCHANGED <<params, lockVars, cancelled, count>>,
             thread_attr_init(w) \/ win32_thread_init(w)
      PROVE  TypeOK'
  <2> USE DEF params, lockVars, workVars
  <2>1. CASE thread_attr_init(w)
    BY <1>1, <1>5, <2>1 DEF thread_attr_init, PthreadFails, Fails
  <2>2. CASE win32_thread_init(w)
    BY <1>1, <1>5, <2>2 DEF win32_thread_init, Begin
  <2> QED
    BY <1>5, <2>1, <2>2
<1>6. ASSUME NEW w \in Threads, UNCHANGED <<params, lockVars, count>>,
             posix_thread_cancel(w) \/ win32_thread_cancel(w)
      PROVE  TypeOK'
  BY <1>1, <1>6, ZenonT(30) DEF posix_thread_cancel, win32_thread_cancel, params, mainVars, lockVars, workVars
<1>7. ASSUME NEW w \in Threads, WorkerStep(w), UNCHANGED <<params, mainVars, cancelled>>
      PROVE  TypeOK'
  <2> USE DEF At, Goto, params, mainVars, lockVars
  <2>1. CASE NewRound(w) \/ semaphore_interrupted(w)
    <3>1. left' \in [Threads -> 0..Rounds]
      BY <1>1, <2>1, SyncAssumption DEF SyncAssumption, NewRound, semaphore_interrupted
    <3> QED
      BY <1>1, <1>7, <2>1, <3>1 DEF NewRound, semaphore_interrupted
  <2>2. CASE Exit(w) \/ CancelledAtWait(w)
    BY <1>1, <1>7, <2>2 DEF Exit, CancelledAtWait, End
  <2>3. CASE semaphore_wait(w) \/ semaphore_trywait(w) \/ semaphore_post(w)
    BY <1>1, <1>7, <2>3 DEF semaphore_wait, semaphore_trywait, semaphore_post
  <2>4. CASE MutexLock(w) \/ mutex_trylock(w) \/ Nest(w)
    BY <1>1, <1>7, <2>4 DEF MutexLock, mutex_trylock, Nest, Locked, posix_mutex_lock,
       win32_mutex_lock, spr_mutex_lock
  <2>5. CASE win32_mutex_abandoned(w)
    BY <1>1, <1>7, <2>5 DEF win32_mutex_abandoned
  <2>6. CASE Unnest(w) \/ MutexUnlock(w)
    BY <1>1, <1>7, <2>6, ThreadsAssumption
       DEF Unnest, MutexUnlock, spr_mutex_unlock, HolderInv, ThreadsAssumption
  <2> QED
    BY <1>7, <2>1, <2>2, <2>3, <2>4, <2>5, <2>6 DEF WorkerStep
<1>8. CASE UNCHANGED vars
  BY <1>1, <1>8 DEF vars, params, mainVars, lockVars, workVars
<1>9. ASSUME NEW w \in Threads, thread_join_fails(w),
             UNCHANGED <<params, lockVars, cancelled, count, workVars>>
      PROVE  TypeOK'
  BY <1>1, <1>9 DEF thread_join_fails, Fails, params, lockVars, workVars
<1> QED
  BY StepCases, <1>2, <1>3, <1>4, <1>5, <1>6, <1>7, <1>8, <1>9

-----------------------------------------------------------------------------

(* The invariant holds at first.                                           *)
LEMMA InitInv == Init => IInv
<1> SUFFICES ASSUME Init PROVE IInv
  OBVIOUS
<1> USE DEF Init, MutexInit
<1>1. TypeOK
  BY SyncAssumption DEF SyncAssumption, TypeOK
<1>2. LifeInv
  BY DEF LifeInv
<1>3. HolderInv
  BY ThreadsAssumption DEF ThreadsAssumption, HolderInv, Entered
<1>4. UnitsInv
  BY DEF UnitsInv
<1>5. AttrsInv
  <2>1. Cardinality(failed) = 0 /\ Cardinality(misled \cap Threads) = 0
    <3>1. {} \cap Threads = {}
      OBVIOUS
    <3> QED
      BY <3>1, FS_EmptySet
  <2> QED
    BY <2>1 DEF AttrsInv, AttrsReleased
<1> QED
  BY <1>1, <1>2, <1>3, <1>4, <1>5 DEF IInv

(* The invariant is inductive.                                             *)
LEMMA Inductive == Spec => []IInv
<1>1. IInv /\ [Next]_vars => IInv'
  BY TypeStep, LifeStep, HolderStep, UnitsStep, AttrsStep DEF IInv
<1> QED
  BY InitInv, <1>1, PTL DEF Spec

(***************************************************************************)
(* spr_mutex_lock and spr_mutex_trylock exclude: any number of workers, on *)
(* every system, with or without recursion, interrupted or terminated.     *)
(***************************************************************************)
THEOREM MutexExcludes == Spec => []LockInv
<1>1. IInv => LockInv
  BY DEF IInv, LockInv, Exclusive, HolderInv
<1> QED
  BY Inductive, <1>1, PTL

(***************************************************************************)
(* The units of a semaphore are conserved, also where Win32 could refuse   *)
(* a post because of the maximum.                                          *)
(***************************************************************************)
THEOREM SemaphoreConserves == Spec => []UnitsConserved
<1>1. IInv => UnitsConserved
  BY DEF IInv, UnitsInv, UnitsConserved
<1> QED
  BY Inductive, <1>1, PTL

(***************************************************************************)
(* No worker runs when mutex and semaphore are taken down, except a Win32  *)
(* thread that spr_thread_init has reported as failed.                     *)
(***************************************************************************)
THEOREM JoinedBeforeFini == Spec => []DoneBeforeFini
<1>1. IInv => DoneBeforeFini
  BY DEF IInv, LifeInv, DoneBeforeFini
<1> QED
  BY Inductive, <1>1, PTL

(***************************************************************************)
(* What spr_mutex_init, spr_semaphore_init, spr_thread_init and            *)
(* spr_thread_join report is what they have done.  Excepted are the calls  *)
(* that fail without setting errno, pthread's and dispatch_semaphore_      *)
(* create, while errno is 0: these are told as SPR_OK.                     *)
(***************************************************************************)
THEOREM InitsAreWhole == Spec => []NothingHalfMade
<1>1. IInv => NothingHalfMade
  BY DEF IInv, LifeInv, AttrsInv, NothingHalfMade, HandlesReal
<1> QED
  BY Inductive, <1>1, PTL
=============================================================================
