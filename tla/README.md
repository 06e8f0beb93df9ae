# A TLA+ model of SPR

SPR (Simplified Portable Runtime) is a C library that wraps what differs between
operating systems: memory, region-based pools, threads, mutexes, semaphores,
files, sockets, shared objects, strings, lists and arrays. The core is the memory
pool (`lib/memory/spr_pool.c`), on which the containers are built; around it lie
functions of a few system calls each, whose difficulty is in what happens between
the calls, in what the system may answer, and in the variants for each system.
This project models them from their source, checks them with TLC on small
instances, and proves its safety with TLAPS for all instances: the pool, alone, shared
by threads and in trees, the list, the mutex, semaphore and threads, the files and
directories, the sockets, and the functions on strings.

Paths below are relative to the repository. A definition that translates a C
function has the function's name.

## 1. Inventory

| Component | State | Operations | Hard behaviour | What makes it correct |
|---|---|---|---|---|
| Pool (`spr_pool.c`) | memnodes in 20 slots by size, bytes left in each, cleanup list, reserve of cleanup nodes, parent/child/brother, mutex, owner | create, palloc, pcalloc, cleanup add/run/remove, clear, destroy, size queries | handlers that call the pool back; sizes at page and word boundaries; threads sharing the mutex; nested locking | blocks lie in memnodes and are disjoint; every memnode and every oversized block is freed once; handlers run once, last first; the mutex covers every access and is given back |
| Mutex (`spr_mutex.c`) | holder, depth | init, lock, trylock, unlock, fini | recursion, unlock by a thread that does not hold it | exclusion; unlocks match locks |
| List (`spr_list.c`) | head, tail, free nodes, size, capacity, node links | create, push front/back, reserve, remove by node or data, clear | boundaries: empty, one, two elements; stale fields in reused nodes | the two chains agree, no node lost, behaves as a sequence |
| Array (`spr_array.c`) | data, element size, total, current | create, push, clear | the limit; use after clear | elements stay inside the block and keep their order |
| Memory (`spr_memory.c`) | counter of allocated bytes | malloc, calloc, free, page size | counter shared by all threads | counter equals what was allocated |
| Files (`spr_filesys.c`) | descriptor and its position, offset in the struct, directory and glob streams | open, read, write, size, info, close, dir/glob open, read, close; conversions of paths and modes | short writes, errors after a part, a position shared by threads, stale errno at the end of a directory, files that disappear | bytes land where asked; the result says what was written; a listing is complete; iteration ends |
| Thread (`spr_thread.c`) | attributes, handle | init, join, cancel, current, equal | failure between two steps of creation; termination of a thread that holds something | created or not, never half |
| Semaphore (`spr_semaphore.c`) | count | init, wait, trywait, post, fini | interrupted waits; the maximum, differing per system | units are conserved |
| Sockets (`spr_socket.c`, `spr_sockopt.c`) | descriptors, mode and options of each socket | init, bind, listen, accept, connect, shutdown, close; nopush, push, blocking, nonblocking | a mode set in two calls; descriptors that are used again | no descriptor lost; mode and flags as asked |
| Strings (`spr_string.c`), error texts (`spr_errno.c`, `spr_dso.c`) | none | copy, compare, search, convert | buffer limits, number boundaries | agree with a reference |
| Addresses, time, cpuinfo, version | none, or the system's | one call each | none of their own | – |

How they interact: every container allocates from a pool; a pool calls the system
allocator or `mmap` for memnodes and `spr_malloc` for oversized requests, for which
it registers `spr_free` as a cleanup handler in itself; a pool without a parent has
a recursive mutex in its own memory, which its descendants share; cleanup handlers
are callbacks into client code that may call the pool again. `PROJECT.json` lists
the hazards line by line.

## 2. Modules

| Module | Models |
|---|---|
| `PoolSizes` | alignment and page arithmetic on `size_t`, modulo `Word` |
| `Pool` | one pool from creation to destruction: memnodes, slots, blocks, cleanup list, reserve; handlers that call back |
| `CleanupStack` | abstract specification: what registering, running and removing handlers promises |
| `PoolCleanup` | the mapping of `Pool` to `CleanupStack` |
| `PoolStats` | the three size queries |
| `SprMutex` | the recursive mutex that pools ask for |
| `PoolLock` | threads that call one pool, with steps between lock, accesses and unlock; composes `SprMutex` |
| `PoolTree` | trees of pools and threads that create, clear and destroy them; the owner check, the shared mutex, the unlocked list of children |
| `SprSync` | mutex, semaphore and threads together, in all variants; composes `SprMutex` |
| `SprFile` | transfers on one file through the handles of several threads |
| `SprDir` | directory and glob streams and file information, with errno |
| `SprSocket` | sockets, their descriptors, modes and options |
| `SprText` | strings, error texts, conversions of paths and access modes, as operators |
| `SprList` | the list, pointer by pointer |
| `Pointers` | the walk along a pointer field, which the list, the cleanup list and the children of a pool share |
| `...Proofs` | theorems on the module of that name; `SprFilesysProofs` on `SprFile` and `SprDir`, `SprDataProofs` on `SprList` and `SprText` |
| `MC...` | instances for TLC, one for each of the modules with runs |

### Pool

An address is a memnode and an offset. `heap` maps each allocated memnode to its
fields, as offsets: `begin`, `first_avail`, `size`, `size_avail`, and its number of
pages. `nodes` is the slot table, a sequence of memnodes per slot. `cleanups` and
`free_cleanups` are sequences, the entries with the address of their cleanup node,
so that TLC can tell when an allocation covers one. `spr_palloc`'s search, its new
memnode and its registration are `FirstFit`, `TakeBytes` and `Register`. The array
of slots is followed in memory by the field `parent`, which `Register` writes when
the index is one too large.

Calls are atomic except where they call a client's handler: `spr_pool_cleanup_run1`
and the loop of `spr_pool_cleanup_run_all` stop at the call (`pc = "handler"`), the
handler may make the calls in `HandlerOps`, and `ReturnToRun1` or `ReturnToRunAll`
goes on with the local variables of the C code (`rest` is `temp1`, `cur` is
`temp2` or `node`, `i` tells whether `prev` was set). `spr_pool_destroy` frees slot
by slot (`FreeSlot`). Undefined behaviour sets `fault` and ends the behaviour:
`"overlap"` (a block covers a cleanup node in use), `"null"` (unchecked result of
`spr_palloc`), `"wild"` (uninitialised `prev`), `"header"` (freed pool header read).

### PoolLock

A step is one use of shared data. A thread has a running procedure with its locals
(`me`) and a stack of callers, because `spr_pool_cleanup_add1` calls `spr_palloc`,
an oversized `spr_palloc` calls `spr_pool_cleanup_add1`, and handlers call both.
The pool's memory is a row of cells, a cleanup node is a cell with a `next` and a
`data` field, so that lists can be corrupted as they would be in C. Unlocking a
recursive POSIX mutex one does not hold fails and changes nothing; the result is
ignored by the pool. A cell stands for the slots and memnodes that the C search goes
through: `spr_palloc` takes one that is free, or has no memory left (`palloc_fails`)
and returns NULL after unlocking.

### SprList

Nodes are numbered; `next`, `prev` and `data` are functions of them, with `Wild` for
uninitialised fields. A removed node keeps its fields when it is taken again. A
client may call whatever it likes on a list that is `Linked`; once a call has broken
the links, nothing further is modelled. `spr_list_clear` hands nodes to
`spr_list_remove`, which compares them with data, so that it removes nothing from a
list of three or more elements and follows NULL in a shorter one; the model does the
same.

### PoolTree

A thread has a stack of procedures, as `spr_pool_clear` and `spr_pool_destroy`
recurse. `enter` is the owner check with the lock, `walk` one child of the list, whose
brother is read before the child is visited, and `clear_finish` and `destroy_finish`
the rest. `Owned` is the comparison of thread handles: on Win32 that of a pseudo
handle with itself, which is always true. `spr_pool_add_child` is two steps, with what
it has read of the parent in between. A pool that was freed is never used again for
another one, and a behaviour ends (`fault`) where one is touched. The properties name
what the code does not survive: a child destroyed before its parent, pools of several
threads in one tree (`mixed`), two threads that add children at the same time
(`raced`). Handlers and memnodes of a pool are `Pool`'s.

### SprSync

A main thread initialises a mutex and a semaphore, starts workers, may cancel them,
joins them and takes everything down; each worker waits or tries, locks or tries,
perhaps twice, and posts. `build` chooses the variant: POSIX with `sem_t`, POSIX with
GCD semaphores, Win32. Initialisation is split after the attribute object. Pthread
functions return their error, and `dispatch_semaphore_create` returns NULL, while spr
returns `errno`: such a failure (`Fails`) may thus be reported as success when `errno`
is 0, and the program is `misled`, where the behaviour ends. Joins fail the same way.
`pthread_cancel` takes effect at `sem_wait`, `TerminateThread` anywhere.

### SprFile

The file is the sequence of its bytes; a byte carries the position it was meant for,
or the handle and the number of the byte when it is appended. POSIX functions are
split at every system call, with the position of the descriptor as shared state;
Win32 functions are one call with an offset, of which the high half is not
initialised: a write may go astray (`stray`). A transfer takes any part of what
was asked for, or fails. Handles with overlapping calls are `shared`. A path that the
Win32 `spr_file_open` did not convert opens another file (`win32_elsewhere`), which the
calls on that handle then work on.

### SprDir

A stream has the names it is about, those to come and those reported. `errno` is a
variable that successful calls leave alone. Files may be removed at any time, and a
stream may or may not still give them; the order in which the system lists files is
the constant `Listing`, and any will do. `system` chooses between one with `d_type`, one
where `stat` is called for each entry, and Win32, where `FindFirstFile` takes the
first entry. A `stat` whose result is ignored leaves any type, and a Win32 path that
is not UTF-8 (`NotUtf8`) tells the attributes of another one. Where a path is written
over the end of its buffer, the call returns `"overflow"` and the behaviour ends:
`fullpath` with a name in `Long`, the three characters that the Win32 `spr_dir_open`
adds (`Fits`), and the `wpath` of `spr_file_info_by_path`.

### SprSocket

Descriptors are used again once closed. The mode calls of Linux are two steps
(`mode_get`, `mode_set`), between which a close and a new socket may come; the other
systems need one. An accepted socket may or may not inherit the option of the
listening one. `mixed` are the descriptors with overlapping calls.

### SprText

One step is one call with one input, all inputs up to a length; the invariants
compare the result with a definition that does not loop. A loop that is left at the
first position with some property is `First`; one that computes something is a
recursive function on the number of turns, such as `Turn` for the one of
`spr_path_to_wchar`. A block of memory that is written has one byte behind its
end that must not change, a write in front of it adds an offset to it, and what is read
behind a string is `Foreign`.

## 3. Runs

| Run | Shows |
|---|---|
| `pool` | every call, handlers that allocate: accounting of memnodes, blocks inside memnodes and disjoint, slot table right, every memnode reachable and freed, oversized blocks owned once, cleanup nodes used once, size queries conserve bytes, and `Pool` implements `CleanupStack` |
| `pool_no_clear` | with handlers that allocate, register and ask for oversized blocks: a pool that is not cleared never hands out memory of its own cleanup nodes |
| `lock_allocators` | threads that allocate and register: critical sections are protected, the mutex is given back, no cell lost or doubled, every call returns |
| `lock_remover` | one thread that also runs and removes, next to one that allocates: lists intact, handlers run at most once |
| `list` | the list reads backwards, its free nodes are counted, it obeys the laws of a sequence |
| `tree` | on trees of pools: no access to a freed pool and everything freed, for trees of one thread destroyed from the root; no child lost unless two threads link at once; the mutex locked as often as pools are being cleared; only the owner frees; clear reaches all; calls return |
| `sync` | exclusion, units conserved, nothing taken down in use, attribute objects released, no handle of a thread that does not exist, and the program ends |
| `file` | bytes where they were meant to be, complete writes, true sizes, offsets that count what was told, and a write loop that ends |
| `dirs` | listings complete, errors explained, types and information true, streams that end |
| `sockets` | no descriptor lost, mode as asked, other flags kept, push undoes nopush |
| `text` | nine groups of functions against their references |

Properties that belong together are checked as one, a conjunction of parts that are
defined and explained just before it: `SlotTable` and `CleanupNodesOwned`
of `Pool`, `SizesTrue` of `PoolStats`, `LockInv` of `PoolLock`,
`PoolTree` and `SprSync`, `FreedOnce` and `RecursionRight` of `PoolTree`,
`NothingHalfMade` of `SprSync`, `FileInv` and `TransfersRight` of `SprFile`, `DirRight`
and `FilesTrue` of `SprDir`, `SocketsHeld` and `SetAsAsked` of `SprSocket`, `NodesKept` of
`SprList`, and the three properties of `SprText`.

`lock_not_found` ends in a counterexample, against a line of the repository (quoted in
`PROJECT.json`): a search of the cleanup list without success returns with the mutex
locked.

### Exceptions

The properties of the passing runs name, in their comments, the cases they leave
out because the code does not cope with them. Those, and what `Pool`, `PoolLock` and
`SprList` reach with other constants or end at, are:

- `spr_palloc` registers a memnode of one page more than there are slots behind the
  slot table (size 30 in `MCPool`; `AllNodesRegistered` fails).
- After `spr_pool_clear` the reserve keeps cleanup nodes in memory that is handed out
  again (`NoOverlap` fails when `pool_no_clear` may clear).
- What handlers register while the pool is cleared is forgotten, oversized blocks
  included (`LargeOwnership` fails when handlers may ask for them).
- `spr_pool_destroy` reads the slot table after freeing the memnode that holds it
  (fault `"header"`).
- The head of the cleanup list is read before the mutex is locked: two threads may
  run one handler twice (`RunsOnce` fails when two threads run handlers).
- A handler that asks for an oversized block gives up the mutex of the call it runs
  in, because `spr_palloc` unlocks at `done` what that path has not locked.
- A request so close to 2^w that adding the memnode header wraps around gets one
  page (the theorems assume `SizesFit`).
- `spr_list_push_front` on an empty list leaves `next` of the element unset; removing
  the only element leaves `tail` at a free node.
- Trees of pools: see `PoolTree` above. On Win32 the owner check always passes, as
  `GetCurrentThread` is the same in all threads: there `RecursionRight` promises only
  of the trees of one thread that nobody else frees their pools.
- What a pthread function or `dispatch_semaphore_create` refuses may be told as `SPR_OK`,
  when `errno` is 0 (`NothingHalfMade` says that this is the only way).
- Win32 paths that are not UTF-8: the NULL of `spr_path_to_wchar` is ignored, and another
  file is opened or asked about. `TransfersRight`, `SizeTrue` and `FilesTrue` hold of
  all other paths, and the file that should have been opened stays as `FileInv` says.
- Long paths: `fullpath`, the pattern of the Win32 `spr_dir_open`, and the `wpath` of the
  functions that pass its size in bytes are written over their ends. `SprDir` stops
  there; `SprFile`, where a handle has no name, does not have this.
- Buffers of no bytes: `spr_strerror` and `spr_dlerror` write to the byte before them.
  `spr_pstrndup` reads behind a text shorter than `n`. `BuffersKept` says that this is what
  they do in these cases, and that no other input does it.
- Win32: a thread whose priority cannot be set runs although it is reported as
  failed; a mutex whose holder was terminated is taken for an error; the high half
  of offsets is not initialised; a failed `GetFileInformationByHandle` goes
  unnoticed; `spr_dir_open` loses the first entry, which is `.` except in a root.
- A directory ends with the error of an earlier call; a Win32 glob does when it goes
  on.
- FreeBSD: `spr_socket_push` sets the option it should clear.

### Bounds

`MCPool`: pages of 16 bytes, alignment 2, headers of 4, 4 and 2 bytes, cleanup nodes
of 6, two slots, and a 7-bit `size_t`. The sizes asked for are one that fits a page
beside others (5), one that takes a memnode of the second slot (20), one that is
oversized (44) and one that cannot be aligned (127). Two memnodes and one oversized
block are enough for a second memnode in a slot, a refusal, and reuse after clear;
`MaxCleanups` bounds the cleanup list. Memnodes are interchangeable, so symmetry on
them is sound; no run with a liveness property uses symmetry.

`MCPoolLock`: two threads, up to 3 or 4 calls each (`MaxCalls`), three objects of
which one is an oversized block. Nesting reaches its maximum, an oversized request in
a handler whose registration needs a new cell, with one call. `MCSprList`: four
nodes in chunks of two and two elements, which includes lists of 0 to 4 elements
with duplicates, and every order of the free nodes. Deadlock is not checked where
clients run out of calls, or the pool is gone; `CallsReturn` and `AllJoined` say
instead that no call is stuck.

`MCPoolTree`: two threads and three pools: a chain, two brothers, or two trees, with
every mix of owners. `MCSprSync`: two workers with two rounds each, one or two units,
maxima of one or two, so that waiting and refusal happen (the Win32 post beyond the
maximum does not, as workers post what they have taken). `MCSprFile`: two threads with
a call each and two handles, transfers of up to two bytes (one short write) and a file
of at most three, so that a write finds no room. `MCSprDir`: three names, a directory
whose name is not UTF-8, a link, and a name that is too long; two streams
(`MaxOpens`), directories with paths of 1 byte and of the two lengths around the limit
of `spr_dir_open` (262 and 263, `MaxPath` is 260). `MCSprSocket`: two descriptors, so
that they are used again, and symmetry on threads. `MCSprText`: strings of up to three
characters and a 0 anywhere, buffers of 0 to 12 bytes, `n` up to two more than the
text, numbers of up to four digits with limits of three and four digits, paths of up
to four bytes from the edges of the UTF-8 ranges.

### Fairness

`PoolLock!FairSpec` has weak fairness on the steps of each thread: the scheduler
runs every thread that can run, and a thread that waits for a mutex gets it when it
is free for good. Clients need not make calls. With a bounded number of calls,
weak fairness is enough, as a thread can be overtaken at the mutex only finitely
often. `PoolTree!FairSpec` is the same without a bound on calls; the mutex promises no
order, so that `CallsReturn` is stated there for threads that the others do not keep
getting in the way of. `SprSync!FairSpec` has weak fairness on the main thread and on
what workers do of their own accord, not on interruptions and cancellation.
`SprFile!FairSpec`: threads in a call are scheduled and system calls return; a write
fails for certain only when the file is full. `SprDir!DirFairSpec`: a caller goes on
reading what it has opened.

## 4. Proofs

The theorems hold for every value of the constants that satisfies the named
assumptions: any number of threads, pools, memnodes, list nodes and calls, all sizes,
texts of any length.

| Module | Theorem | Statement |
|---|---|---|
| `PoolProofs` | `TypeCorrect` | `Spec => []TypeOK` |
| | `AccountingHolds` | `SizesFit => (Spec => []NodeAccounting)` |
| | `BlocksStayInside` | `SizesFit => (Spec => []BlocksInNodes)` |
| | `BlocksNeverOverlap` | `SizesFit => (Spec => []BlocksDisjoint)` |
| | `SlotTableRight` | `NoExtraSlot => (Spec => []SlotTable)` |
| | `LargeBlocksOwned` | `NoLargeInHandlers => (Spec => []LargeOwnership)` |
| | `NodesDistinct` | `Spec => []CleanupNodesDistinct` |
| | `CleanupNodesSafe` | `SizesFit /\ NoClear => (Spec => []CleanupNodesOwned)` |
| | `SizesReportedRight` | `SizesFit /\ NoExtraSlot => (Spec => []SizesTrue)` |
| | `ImplementsCleanupStack` | `HandlersOnlyAlloc => (Spec => CleanupRegistry)` |
| `PoolLockProofs` | `PoolProtected` | `NoLargeInHandlers => (Spec => [](TypeOK /\ Protected))` |
| | `NoCellLost` | `NoLargeInHandlers /\ OneSearcher => (Spec => []PoolIntact)` |
| | `HandlersRunOnce` | `NoLargeInHandlers /\ OneSearcher => (Spec => []RunsOnce)` |
| | `MutexGivenBack` | `NoLargeInHandlers /\ OneSearcher /\ OnlyKnown => (Spec => []LockInv)` |
| `PoolTreeProofs` | `MutexPaired` | `Spec => []LockInv` |
| | `ChildrenFound` | `Spec => []NoChildLost` |
| | `TreeFreedOnce` | `Spec => []FreedOnce` |
| | `RecursionVisitsAll` | `Spec => RecursionRight` |
| `SprSyncProofs` | `MutexExcludes` | `Spec => []LockInv` |
| | `SemaphoreConserves` | `Spec => []UnitsConserved` |
| | `JoinedBeforeFini` | `Spec => []DoneBeforeFini` |
| | `InitsAreWhole` | `Spec => []NothingHalfMade` |
| `SprSocketProofs` | `NoSocketLost` | `Spec => []SocketsHeld` |
| | `ModesAreSet` | `Spec => []SetAsAsked` |
| `SprDataProofs` | `WayBack` | `Spec => []BackLinked` |
| | `NoNodeLost` | `Spec => []NodesKept` |
| | `ListIsSequence` | `Spec => SequenceLaws` |
| | `StringsAreRight` | `TextSpec => []StringsRight` |
| | `BuffersAreKept` | `TextSpec => []BuffersKept` |
| | `PathsAreRight` | `TextSpec => []PathsRight` |
| `SprFilesysProofs` | `BytesInPlace` | `Spec => []FileInv` |
| | `TransfersAreRight` | `Spec => TransfersRight` |
| | `SizeIsTrue` | `Spec => SizeTrue` |
| | `DirectoryRight` | `DirSpec => []DirRight` |
| | `InformationTrue` | `DirSpec => []FilesTrue` |
| | `GlobReportsAll` | `DirSpec => []GlobComplete` |

`PointersProofs` has the lemmas about walks along pointers that `PoolLockProofs`,
`PoolTreeProofs` and `SprDataProofs` rely on, and the induction that `PoolProofs` uses.

### Conditions

The conditions of the theorems are the places where the code does not keep its
promise, each shown by TLC (section 3, Exceptions):

- `SizesFit`: no requested size is so close to 2^w that rounding it up and adding the
  headers wraps around.
- `NoExtraSlot`: no request is of the size class whose slot is behind the table.
- `NoLargeInHandlers`: cleanup handlers do not ask for oversized blocks. In `Pool` the
  entry of such a block is dropped when the handler runs in `spr_pool_clear`; in
  `PoolLock` the call unlocks the mutex of the search that runs the handler.
- `NoClear`: the pool is not cleared, as the reserve would keep cleanup nodes in
  memory that is handed out again.
- `HandlersOnlyAlloc`: handlers do not register handlers, as those of a running
  `spr_pool_clear` never run.
- `OneSearcher`: one thread at most runs and removes handlers, as the head of the list
  is read before the mutex is locked.
- `OnlyKnown`: nobody asks for a handler that is not registered, as the search would
  return with the mutex locked (run `lock_not_found`).

The assumptions on constants are named in the modules that declare them, and TLC
evaluates them in the runs. `SizesAssumption` and `PoolAssumption`: the headers fit into
a page and the largest memnode is below 2^w; `NullAssumption`: `NULL` is no object;
`FileAssumption`: the bounds are positive, a transfer fits into the file, and there is a
handle; `DirAssumption`: there are finitely many names, each of some kind, among them
those that are long or not UTF-8, and the system lists each set of files in some
order, each once; `TextAssumption`: bytes are not 0 and at most 255,
characters of paths are those of Unicode, and a message of the system has no 0 in it and,
unless it is empty, more than a full stop and the end of a line; `LockAssumption`,
`TreeAssumption`, `SyncAssumption` and `SocketAssumption`: threads, objects and
descriptors are finite sets, with one thread at least where a pool needs an
owner, one descriptor where a call names one, and no thread named as the objects
that a failed call may be about.

### Arguments

None of the properties is inductive alone.

- `PoolProofs`. That a block fits needs `first_avail + size_avail` to be the size of
  the memnode, that a new memnode holds the request needs the bound on pages that
  `spr_get_npages` ensures, and that blocks are disjoint needs that each ends at or
  before `first_avail` of its memnode. `HeapInv` is the conjunction of those, with bounds
  on `pages` and `size` that rule out wrap-around. The lemmas are about the arithmetic,
  about `TakeBytes`, the one place that carves memory, and about the actions that
  leave the heap alone. The slot table needs that a memnode is in no two slots and,
  while the pool is destroyed, that the slots from the current one on hold all of them.
- `PoolProofs`, second part. The owner of oversized blocks is the cleanup list, or what is
  left of it while it is run (`Owners`); cleanup nodes are separate because those in
  use and those in the reserve never share one (`Separate`). For `CleanupStack`, every
  action is shown to be a step of it or a stuttering step; the entry whose handler
  `spr_pool_cleanup_run1` runs must be where the search found it (`EntryInv`).
- `PoolProofs`, third part. The sum of the sizes of memnodes is the sum of the bytes free
  in them and of the lengths of the blocks (`Conserved`, in `SumsInv`): a block that is
  handed out is none that was there before, because those end before `first_avail` and
  have a length. `PoolStats` walks the slots, so that the memnodes are counted by their
  place in the table, which `SlotTable` makes a bijection. The sums are the library's
  folds over sets, which take elements in an order of their own; that the order does
  not matter is proved by induction over the subsets. The code adds modulo 2^w.
- `PoolLockProofs`. A stack of suspended procedures has one of a few shapes
  (`ShapeInv`), and the mutex is held at least as deep as the stack has procedures
  between lock and unlock (`HeldInv`). Every cell is in one of four places: the
  cleanup list, the reserve, a client's block, or on its way (`ListInv`), which is
  where the two lists are shown to be lists, without cycles, in memory that any thread
  may corrupt when the mutex fails. `ExactInv` and `AheadInv` (what a search looks
  for is still ahead of it) exclude the path that returns locked.
- `PoolTreeProofs`. `BaseInv` says how the pools of a tree point to each other
  (parents are older than children, and all share the root's mutex), that a stack is
  one branch of one tree, and that the mutex is as deep as the stack has frames that
  clear pools. `CreateInv` says that the children of a pool are a list along the brothers
  as they will be when `spr_pool_add_child` is through with its second assignment.
  `CleanInv` says of each tree that one thread uses: what is below a freed pool is
  freed, a pool is freed before its parent only while the parent is being destroyed,
  and each frame of the recursion has a list of live children still to visit, all
  others being finished. On Win32 any thread gets past the owner check: that a pool is
  freed by its owner is proved from the check on POSIX, and from `CleanInv` for the
  trees of one thread on Win32.
- `SprSyncProofs`. Where each worker is in its life (`LifeInv`), what it holds
  (`HolderInv`), and units as the sum of the count and what workers have taken
  (`UnitsInv`, over the cardinality of a set of workers). Where `NothingHalfMade` allows
  a success that is none, `errno` is 0, which a failure that was told never leaves.
- `SprSocketProofs`. A call on a descriptor that is not `mixed` is alone on it
  (`CallsInv`), so that what `mode_get` has read is true when `mode_set` uses it.
- `SprDataProofs`, `SprList`. There are two sequences of nodes, the list and the free nodes, that
  the pointers follow and that share all nodes supplied (`Kept`): the forward chain of
  the list is not part of it where the code breaks it.
- `SprFilesysProofs`, `SprFile`. A call on a handle that is not `shared` is alone on
  it (`AloneInv`), so that the descriptor stands where the call has put it: behind
  what is written of a write, at the offset of a read, at its old place before and
  after the detour of `spr_file_size` (`PosInv`). The offset field is what was told
  plus what the write under way has written (`CountInv`). For the bytes (`ByteInv`), a
  write puts each at its offset or, appending, numbers it above all bytes of the
  handle in the file (`TakenInv`), and what a write has taken stays in the file until
  it returns (`DoneInv`). `WriteComplete` promises the bytes only when no handle at
  all is shared: two threads that race on one handle can overwrite what a third has
  written through a handle of its own (the run has two threads and cannot show this;
  the proof does).
- `SprFilesysProofs`, `SprDir`. What a stream has still to give is a suffix of the listing
  it was opened on, and what it has told is, in the same order, what it has given
  except for the names that `spr_dir_read` skips (`DirInv`). Everything a glob stream
  was opened on and has not told is still to come, gone from the disk, or the entry that
  `FindFirstFile` takes on Win32 (`GlobInv`). That the end of a directory is told from an
  error rests on what `errno` was when the stream was read (`KindsInv`, `DirInv`).
- `SprDataProofs`, `SprText`. A call is a step, so that the theorems follow from lemmas
  about the functions, for all arguments. `First` is the first hit (`FirstIs`): a function
  that satisfies its recursion is exhibited, and there is only one. The other loops are
  taken apart the same way and followed by induction on the number of turns, an
  induction over a set of numbers. The limit of `Parse` is compared digit by digit, and
  a value once above it never comes back below, as `Decimal` only grows. A copy is a
  function on offsets that is followed write by write (`CopiesWhole`). For paths, a number
  that `spr_utf8_decode` accepts was read from bytes above 127 only, so that a turn of
  the loop (`TurnIs`) keeps the ASCII characters read equal to those written (`Safe`); a
  character that is decoded from its own bytes is itself (`DecodesUtf8`), so that turn k
  has written the units of the first k characters, or there is no room (`Written`).

Walks along pointers, and the sets of `PoolTree!Below`, are recursive functions. The
library's induction theorems cannot be instantiated, so `SetInduction` states
induction for sets of numbers, and is proved from the well-foundedness of the strict
subset ordering on finite sets.

### Only model-checked

Liveness (`CallsReturn`, `AllJoined`, `StreamsEnd`) needs fairness, which is out of the
prover's reach. All other properties of the passing runs are theorems.

## 5. Plan

Nothing of the plan is left.

## 6. Not modelled

- Arrays: `spr_array_push` advances the element size where it means the number of
  elements; every push writes to the first element and the limit is never reached,
  so that there is no promise left to check.
- The counter of allocated bytes: only raised, never lowered, and used by nothing.
- The macros that are one system call: rename, delete, mkdir, chmod, fsync, opening
  shared objects; writing to stdout and stderr.
- `spr_is_path_has_wildcard` and `spr_check_absolute_path`, one look at a string each;
  socket addresses, clocks, processor count, version, type definitions.
- Failures of `fini` functions and of `lseek` to sizes beyond the modelled file, signals
  other than the interruption of a wait, and memory orders weaker than
  sequential consistency.
