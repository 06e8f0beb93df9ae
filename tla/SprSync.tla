------------------------------ MODULE SprSync -------------------------------
(***************************************************************************)
(* The threads, mutexes and semaphores of lib/thread/ in the use they are  *)
(* made for: a main thread initialises a mutex and a semaphore, starts     *)
(* workers that enter under both, may cancel some, joins them and takes    *)
(* everything down.  All variants of the three files are modelled: POSIX   *)
(* threads with sem_t or with GCD semaphores, and Win32.  What the system  *)
(* calls may answer is a choice; what spr makes of the answer is the model.*)
(*                                                                         *)
(* pthread and GCD functions need not set errno, which is what spr returns *)
(* when they fail: with errno still 0 a failure is told as SPR_OK.  The    *)
(* model stops there, with what the failure was about among the misled.    *)
(***************************************************************************)
EXTENDS SprMutex, FiniteSets

CONSTANTS
  Values,     \* what value and maxval of spr_semaphore_init may be
  Rounds      \* how often a worker enters at most

ASSUME SyncAssumption ==
  /\ Values \subseteq Nat /\ Rounds \in Nat \ {0}
  /\ IsFiniteSet(Threads) /\ Threads \cap {"mutex", "semaphore", "join"} = {}

VARIABLES
  build,           \* posix, gcd or win32
  recursive,       \* the parameters: SPR_MUTEX_RECURSIVE,
  value, maxval,   \* initial count and maximum of the semaphore
  main,            \* where the main thread is
  errno,           \* its errno is 0 or not
  attrs,           \* pthread attribute objects that exist
  target, fresh,   \* the worker being started, those not yet tried
  failed,          \* those reported as not created
  known,           \* those with a handle main has not joined
  misled,          \* what was reported as made, or as joined, and was not
  alive,           \* mutex and semaphore between init and fini
  count,           \* of the semaphore
  running, pc,     \* the workers
  created,         \* those that have ever run
  left,            \* rounds a worker may still start
  cancelled, killed

params   == <<build, recursive, value, maxval>>
mainVars == <<main, errno, attrs, target, fresh, failed, known, misled, alive>>
lockVars == <<holder, depth>>
workVars == <<running, pc, created, left, killed>>
vars     == <<params, mainVars, lockVars, count, workVars, cancelled>>

Posix == build # "win32"

Init ==
  /\ build \in {"posix", "gcd", "win32"}
  /\ recursive \in BOOLEAN /\ value \in Values /\ maxval \in Values
  /\ main = "mutex" /\ errno \in {0, 1} /\ attrs = 0
  /\ target = NULL /\ fresh = Threads /\ failed = {} /\ known = {} /\ misled = {}
  /\ alive = {} /\ count = 0 /\ MutexInit
  /\ running = {} /\ created = {} /\ pc = [w \in Threads |-> "rest"]
  /\ left = [w \in Threads |-> Rounds] /\ cancelled = {} /\ killed = {}

(* A call of the system has failed and spr returns errno, whatever it is:  *)
(* only on Win32 the failure is sure to have set it.                       *)
Fails(object, told) ==
  \E e \in IF Posix THEN {errno, 1} ELSE {1} :
    /\ errno' = e
    /\ IF e = 0 THEN misled' = {object} /\ main' = "misled"
       ELSE main' = told /\ UNCHANGED misled

PthreadFails(object, told) ==
  /\ Fails(object, told)
  /\ failed' = IF errno' # 0 /\ object \in Threads THEN failed \cup {object} ELSE failed

-----------------------------------------------------------------------------

(* spr_mutex_init: the attribute object, then its settings and the mutex.  *)
mutex_attr_init ==
  /\ Posix /\ main = "mutex"
  /\ \/ main' = "mutex_attr" /\ attrs' = attrs + 1 /\ UNCHANGED <<errno, misled, failed>>
     \/ PthreadFails("mutex", "failed") /\ UNCHANGED attrs
  /\ UNCHANGED <<target, fresh, known, alive>>

posix_mutex_init ==
  /\ Posix /\ main = "mutex_attr"
  /\ attrs' = attrs - 1
  /\ \/ alive' = {"mutex"} /\ main' = "semaphore" /\ UNCHANGED <<errno, misled, failed>>
     \/ PthreadFails("mutex", "failed") /\ UNCHANGED alive
  /\ UNCHANGED <<target, fresh, known>>

win32_mutex_init ==
  /\ ~ Posix /\ main = "mutex"
  /\ \/ alive' = {"mutex"} /\ main' = "semaphore" /\ UNCHANGED errno
     \/ ~ recursive /\ main' = "failed" /\ errno' = 1 /\ UNCHANGED alive
  /\ UNCHANGED <<attrs, target, fresh, failed, known, misled>>

(* spr_semaphore_init.  sem_init and CreateSemaphore set errno when they   *)
(* fail, dispatch_semaphore_create need not.                               *)
SemaphoreMade ==
  /\ count' = value /\ alive' = alive \cup {"semaphore"} /\ main' = "start"
  /\ UNCHANGED <<errno, attrs, target, fresh, failed, known, misled>>

SemaphoreRefused(e) ==
  /\ main' = "failed" /\ errno' = e
  /\ UNCHANGED <<count, alive, attrs, target, fresh, failed, known, misled>>

SemaphoreFails ==
  /\ Fails("semaphore", "failed")
  /\ UNCHANGED <<count, alive, attrs, target, fresh, failed, known>>

posix_semaphore_init ==
  /\ build = "posix" /\ main = "semaphore"
  /\ \E shared, private \in BOOLEAN :
       \/ shared /\ private /\ SemaphoreRefused(errno)
       \/ ~ (shared /\ private) /\ (SemaphoreMade \/ SemaphoreRefused(1))

gcd_semaphore_init ==
  /\ build = "gcd" /\ main = "semaphore"
  /\ SemaphoreMade \/ SemaphoreFails

win32_semaphore_init ==
  /\ build = "win32" /\ main = "semaphore"
  /\ (value <= maxval /\ SemaphoreMade) \/ SemaphoreRefused(1)

-----------------------------------------------------------------------------

Begin(w) ==
  running' = running \cup {w} /\ created' = created \cup {w} /\ UNCHANGED <<pc, left, killed>>

(* spr_thread_init: the attribute object, then its settings and the        *)
(* thread; the error paths do not destroy the attribute object.            *)
thread_attr_init(w) ==
  /\ Posix /\ main = "start" /\ w \in fresh
  /\ fresh' = fresh \ {w}
  /\ \/ /\ main' = "thread_attr" /\ target' = w /\ attrs' = attrs + 1
        /\ UNCHANGED <<errno, misled, failed>>
     \/ PthreadFails(w, "start") /\ UNCHANGED <<target, attrs>>
  /\ UNCHANGED <<known, alive, workVars>>

(* Mutant: the result of pthread_create is not looked at.                  *)
ThreadInitUnchecked ==
  /\ Posix /\ main = "thread_attr"
  /\ attrs' = attrs - 1 /\ known' = known \cup {target} /\ main' = "start"
  /\ Begin(target) \/ UNCHANGED workVars
  /\ UNCHANGED <<errno, misled, failed, target, fresh, alive>>

posix_thread_init ==
  /\ Posix /\ main = "thread_attr"
  /\ \/ /\ attrs' = attrs - 1 /\ known' = known \cup {target} /\ main' = "start"
        /\ Begin(target)
        /\ UNCHANGED <<errno, misled, failed>>
     \/ PthreadFails(target, "start") /\ UNCHANGED <<attrs, known, workVars>>
  /\ UNCHANGED <<target, fresh, alive>>

(* A thread whose priority cannot be set runs, but is reported as failed.  *)
win32_thread_init(w) ==
  /\ ~ Posix /\ main = "start" /\ w \in fresh
  /\ fresh' = fresh \ {w}
  /\ \/ Begin(w) /\ known' = known \cup {w} /\ UNCHANGED <<errno, failed>>
     \/ Begin(w) /\ errno' = 1 /\ failed' = failed \cup {w} /\ UNCHANGED known
     \/ errno' = 1 /\ failed' = failed \cup {w} /\ UNCHANGED <<known, workVars>>
  /\ UNCHANGED <<main, attrs, target, misled, alive>>

(* Cancelling a POSIX thread takes effect where it waits for the           *)
(* semaphore; a Win32 thread is terminated wherever it is.                 *)
posix_thread_cancel(w) ==
  /\ Posix /\ main \in {"start", "join"} /\ w \in known
  /\ cancelled' = cancelled \cup {w}
  /\ UNCHANGED <<mainVars, workVars>>

win32_thread_cancel(w) ==
  /\ ~ Posix /\ main \in {"start", "join"} /\ w \in known \cap running
  /\ cancelled' = cancelled \cup {w} /\ killed' = killed \cup {w}
  /\ running' = running \ {w}
  /\ UNCHANGED <<mainVars, pc, created, left>>

AllStarted ==
  /\ main = "start" /\ fresh = {} /\ main' = "join"
  /\ UNCHANGED <<errno, attrs, target, fresh, failed, known, misled, alive>>

(* Mutant: the handle is given up without waiting.                         *)
JoinWithoutWaiting(w) ==
  /\ main = "join" /\ w \in known
  /\ known' = known \ {w}
  /\ UNCHANGED <<main, errno, attrs, target, fresh, failed, misled, alive>>

(* spr_thread_join, and spr_thread_fini after it.                          *)
spr_thread_join(w) ==
  /\ main = "join" /\ w \in known \ running
  /\ known' = known \ {w}
  /\ UNCHANGED <<main, errno, attrs, target, fresh, failed, misled, alive>>

(* pthread_join fails, for a thread created detached for instance, or      *)
(* WaitForSingleObject does: the main thread gives up, if it is told.      *)
thread_join_fails(w) ==
  /\ main = "join" /\ w \in known
  /\ Fails("join", "failed")
  /\ UNCHANGED <<attrs, target, fresh, failed, known, alive>>

(* spr_mutex_fini and spr_semaphore_fini, when all handles are joined.     *)
Fini ==
  /\ main = "join" /\ known = {}
  /\ main' = "done" /\ alive' = {}
  /\ UNCHANGED <<errno, attrs, target, fresh, failed, known, misled>>

Main ==
  /\ UNCHANGED <<params, lockVars, cancelled>>
  /\ \/ /\ \/ mutex_attr_init \/ posix_mutex_init \/ win32_mutex_init
           \/ AllStarted \/ Fini
           \/ \E w \in Threads : spr_thread_join(w)
        /\ UNCHANGED <<count, workVars>>
     \/ /\ posix_semaphore_init \/ gcd_semaphore_init \/ win32_semaphore_init
        /\ UNCHANGED workVars
     \/ /\ \/ posix_thread_init
           \/ \E w \in Threads : thread_attr_init(w) \/ win32_thread_init(w)
        /\ UNCHANGED count

-----------------------------------------------------------------------------

At(w, label) == w \in running /\ alive = {"mutex", "semaphore"} /\ pc[w] = label
Goto(w, label) == pc' = [pc EXCEPT ![w] = label] /\ UNCHANGED <<running, created, left, killed>>

NewRound(w) ==
  /\ At(w, "rest") /\ left[w] > 0
  /\ left' = [left EXCEPT ![w] = @ - 1]
  /\ \E label \in {"wait", "trywait"} : pc' = [pc EXCEPT ![w] = label]
  /\ UNCHANGED <<running, created, killed, count, lockVars>>

End(w) ==
  /\ running' = running \ {w}
  /\ UNCHANGED <<pc, created, left, killed, count, lockVars>>

Exit(w)           == At(w, "rest") /\ End(w)
CancelledAtWait(w) == build = "posix" /\ w \in cancelled /\ At(w, "wait") /\ End(w)

(* spr_semaphore_wait, which a signal may interrupt.                       *)
semaphore_wait(w) ==
  /\ At(w, "wait") /\ count > 0
  /\ count' = count - 1
  /\ \E label \in {"lock", "trylock"} : Goto(w, label)
  /\ UNCHANGED lockVars

semaphore_interrupted(w) ==
  /\ build = "posix" /\ At(w, "wait") /\ Goto(w, "rest")
  /\ UNCHANGED <<count, lockVars>>

(* Mutant: a unit is taken although the semaphore is reported busy.        *)
TrywaitTakes(w) ==
  /\ At(w, "trywait") /\ Goto(w, "rest")
  /\ count' = IF count > 0 THEN count - 1 ELSE 0
  /\ UNCHANGED lockVars

(* spr_semaphore_trywait, which answers SPR_BUSY for all errors.           *)
semaphore_trywait(w) ==
  /\ At(w, "trywait")
  /\ \/ count > 0 /\ count' = count - 1 /\ Goto(w, "lock")
     \/ count = 0 /\ Goto(w, "rest") /\ UNCHANGED count
  /\ UNCHANGED lockVars

(* Mutant: a semaphore that never gets its unit back.                      *)
PostNothing(w) ==
  /\ At(w, "post") /\ Goto(w, "rest")
  /\ UNCHANGED <<count, lockVars>>

(* On Win32 a post beyond the maximum fails and changes nothing.           *)
semaphore_post(w) ==
  /\ At(w, "post") /\ Goto(w, "rest")
  /\ count' = IF build = "win32" /\ count >= maxval THEN count ELSE count + 1
  /\ UNCHANGED lockVars

posix_mutex_lock(w) ==
  /\ Posix /\ (recursive \/ holder = NULL)
  /\ spr_mutex_lock(w)

(* Both kinds of Win32 mutex are recursive.                                *)
win32_mutex_lock(w) == ~ Posix /\ spr_mutex_lock(w)

Locked(w) == posix_mutex_lock(w) \/ win32_mutex_lock(w)

(* Some workers lock a recursive mutex twice.                              *)
MutexLock(w) ==
  /\ At(w, "lock") /\ Locked(w) /\ UNCHANGED count
  /\ Goto(w, "in") \/ (recursive /\ Goto(w, "again"))

(* Mutant: what spr_mutex_trylock answers is ignored.                      *)
TrylockEnters(w) ==
  /\ At(w, "trylock") /\ Goto(w, "in")
  /\ Locked(w) \/ (holder # NULL /\ UNCHANGED lockVars)
  /\ UNCHANGED count

mutex_trylock(w) ==
  /\ At(w, "trylock")
  /\ \/ Locked(w) /\ Goto(w, "in")
     \/ holder # NULL /\ Goto(w, "post") /\ UNCHANGED lockVars
  /\ UNCHANGED count

(* A Win32 mutex whose holder is gone is handed over with WAIT_ABANDONED,  *)
(* which spr takes for a failure: the thread has it and does not know.     *)
win32_mutex_abandoned(w) ==
  /\ ~ Posix /\ ~ recursive /\ (At(w, "lock") \/ At(w, "trylock"))
  /\ holder \in Threads \ running
  /\ holder' = w /\ depth' = 1 /\ Goto(w, "post")
  /\ UNCHANGED count

Nest(w)   == At(w, "again") /\ Locked(w) /\ Goto(w, "nested") /\ UNCHANGED count
Unnest(w) == At(w, "nested") /\ spr_mutex_unlock(w) /\ Goto(w, "in") /\ UNCHANGED count

MutexUnlock(w) ==
  /\ At(w, "in") /\ spr_mutex_unlock(w) /\ Goto(w, "post")
  /\ UNCHANGED count

(* What a worker does of its own accord, and what may happen to it.        *)
Progress(w) ==
  /\ \/ NewRound(w) \/ Exit(w)
     \/ semaphore_wait(w) \/ semaphore_trywait(w) \/ semaphore_post(w)
     \/ MutexLock(w) \/ mutex_trylock(w) \/ win32_mutex_abandoned(w)
     \/ Nest(w) \/ Unnest(w) \/ MutexUnlock(w)
  /\ UNCHANGED <<params, mainVars, cancelled>>

Other(w) ==
  /\ semaphore_interrupted(w) \/ CancelledAtWait(w)
  /\ UNCHANGED <<params, mainVars, cancelled>>

Cancel(w) ==
  /\ posix_thread_cancel(w) \/ win32_thread_cancel(w)
  /\ UNCHANGED <<params, lockVars, count>>

(* Not a step of Main, whose fairness must not be met by a failure.        *)
JoinFails(w) ==
  thread_join_fails(w) /\ UNCHANGED <<params, lockVars, count, workVars, cancelled>>

Next == Main \/ \E w \in Threads : Cancel(w) \/ Progress(w) \/ Other(w) \/ JoinFails(w)

Spec == Init /\ [][Next]_vars

(* Every thread whose next step can be taken is scheduled some time.       *)
FairSpec == Spec /\ WF_vars(Main) /\ \A w \in Threads : WF_vars(Progress(w))

-----------------------------------------------------------------------------

Entered == {"in", "again", "nested"}
Inside  == {w \in Threads : pc[w] \in Entered \cup {"lock", "trylock", "post"}}

(***************************************************************************)
(* Every variable has its type.                                            *)
(***************************************************************************)
TypeOK ==
  /\ build \in {"posix", "gcd", "win32"} /\ recursive \in BOOLEAN
  /\ {value, maxval} \subseteq Values
  /\ main \in {"mutex", "mutex_attr", "semaphore", "start", "thread_attr", "join",
               "done", "failed", "misled"}
  /\ errno \in {0, 1} /\ {attrs, count, depth} \subseteq Nat
  /\ {target, holder} \subseteq Threads \cup {NULL}
  /\ \A s \in {fresh, failed, known, running, created, cancelled, killed} : s \subseteq Threads
  /\ misled \subseteq Threads \cup {"mutex", "semaphore", "join"}
  /\ alive \subseteq {"mutex", "semaphore"}
  /\ pc \in [Threads -> {"rest", "wait", "trywait", "lock", "trylock", "in", "again", "nested",
                         "post"}]
  /\ left \in [Threads -> 0..Rounds]

(***************************************************************************)
(* At most one worker is past spr_mutex_lock or a trylock that succeeded;  *)
(* unless a thread was terminated, the mutex is held by exactly that one.  *)
(***************************************************************************)
Exclusive ==
  \A w \in Threads :
    /\ pc[w] \in Entered /\ w \in running => holder = w
    /\ killed = {} /\ holder = w => pc[w] \in Entered

(***************************************************************************)
(* The count of the semaphore and the workers past spr_semaphore_wait add  *)
(* up to the initial value, also when waits are interrupted or refused and *)
(* threads cancelled; no more workers are ever inside than it allows.      *)
(***************************************************************************)
UnitsConserved == "semaphore" \in alive => count + Cardinality(Inside) = value

(***************************************************************************)
(* When the main thread takes mutex and semaphore down, no worker runs any *)
(* more, except a Win32 thread reported as not created because its         *)
(* priority could not be set.  The main thread does not get there when a   *)
(* join fails, told or (with errno 0) not told.                            *)
(***************************************************************************)
DoneBeforeFini ==
  main = "done" => \A w \in running : ~ Posix /\ w \in failed

(***************************************************************************)
(* spr_mutex_init destroys its attribute object on all paths, and one of   *)
(* spr_thread_init is left over only for a thread that was not created.    *)
(***************************************************************************)
AttrsReleased ==
  main \notin {"mutex_attr", "thread_attr"} =>
    attrs <= Cardinality(failed) + Cardinality(misled \cap Threads)

(***************************************************************************)
(* A thread with a handle has been created, and threads are started only   *)
(* under a mutex and a semaphore that exist.  The exception is a pthread   *)
(* or GCD call, dispatch_semaphore_create included, that fails while errno *)
(* is 0: spr then returns SPR_OK with nothing made, or nothing joined.     *)
(* Where errno was set before, and on Win32, it never does.                *)
(***************************************************************************)
HandlesReal ==
  /\ known \subseteq created
  /\ main \in {"start", "thread_attr", "join"} => alive = {"mutex", "semaphore"}
  /\ misled # {} => Posix /\ errno = 0

(***************************************************************************)
(* The main thread comes to its end: no worker waits for ever for the      *)
(* semaphore, the mutex or a cancellation.  Excepted are Win32 programs    *)
(* that terminate threads, which may take a unit or the mutex with them,   *)
(* the programs that are misled, and those an init or a join has failed.   *)
(***************************************************************************)
AllJoined == <>(main \in {"done", "failed", "misled"} \/ killed # {})

(***************************************************************************)
(* The mutex excludes, in every variant and for both ways to lock it.      *)
(***************************************************************************)
LockInv == TypeOK /\ Exclusive

(***************************************************************************)
(* What an init function reports is what it has made: no attribute object  *)
(* is left over but that of a thread that was not created, and no handle   *)
(* or object is without what it stands for but where a call failed that    *)
(* does not set errno and errno was 0.                                     *)
(***************************************************************************)
NothingHalfMade == AttrsReleased /\ HandlesReal
=============================================================================
