------------------------------ MODULE SprFile -------------------------------
(***************************************************************************)
(* The file functions of lib/spr_filesys.c on one file: threads read,      *)
(* write and measure it through spr_file_t handles, their own or shared    *)
(* ones.  POSIX works with the position of the descriptor, in several      *)
(* system calls each, Win32 with an offset in every call.                  *)
(*                                                                         *)
(* The bytes of a write at an offset carry the position they are meant     *)
(* for, those of an appending write a number that counts the bytes of the  *)
(* handle.  The system may transfer less than asked for, or fail; the file *)
(* has room for MaxLen bytes.                                              *)
(***************************************************************************)
EXTENDS Integers, Sequences, FiniteSets, FiniteSetsExt

CONSTANTS
  Threads, Handles,
  Builds,      \* posix, win32
  Modes,       \* how handles are opened: open, truncate, append
  Calls,       \* what threads call: write, read, size, fd
  MaxSize,     \* bound on the size of a transfer
  MaxLen,      \* bound on the length of the file
  MaxCalls     \* bound on the calls of a thread

ASSUME FileAssumption ==
  /\ Builds \subseteq {"posix", "win32"}
  /\ Modes \subseteq {"open", "truncate", "append"}
  /\ Calls \subseteq {"write", "read", "size", "fd"}
  /\ {MaxSize, MaxLen, MaxCalls} \subseteq Nat \ {0} /\ MaxSize <= MaxLen
  /\ Handles # {} /\ {"at", "hole"} \cap Handles = {}

VARIABLES
  build,
  content,    \* the bytes of the file
  mode,       \* of each handle, or "closed"; "other": it is of another file
  pos,        \* the position of its descriptor
  offset,     \* spr_file_s.offset
  me,         \* the call each thread is in: pc and locals
  calls,      \* the calls each thread may still make
  sent,       \* bytes numbered so far for each appending handle
  told,       \* bytes that calls have reported as transferred
  torn,       \* handles with a write that failed after a part of it
  shared,     \* handles on which two calls have overlapped
  stray       \* a Win32 write went to an uninitialised high offset

kernel == <<content, mode, pos>>
ghosts == <<sent, told, torn, shared, stray>>
vars   == <<build, kernel, offset, me, calls, ghosts>>

Frame == [pc: {"idle", "w_seek", "w_write", "r_seek", "r_read", "s_cur", "s_end", "s_set"},
          h: Handles, off: 0..MaxLen, req: 0..MaxSize, written: 0..MaxSize,
          was: 0..MaxLen, len: 0..MaxLen, ret: -1..MaxLen]

Idle(h, ret) ==
  [pc |-> "idle", h |-> h, off |-> 0, req |-> 0, written |-> 0, was |-> 0, len |-> 0, ret |-> ret]

At(t, pc) == me[t].pc = pc
Set(t, f) == me' = [me EXCEPT ![t] = f]
Open(h)   == mode[h] # "closed"
Elsewhere(t) == mode[me[t].h] = "other"
Busy(h)   == \E t \in Threads : me[t].h = h /\ ~ At(t, "idle")

Init ==
  /\ build \in Builds
  /\ content = <<>>
  /\ mode = [h \in Handles |-> "closed"]
  /\ pos = [h \in Handles |-> 0] /\ offset = pos
  /\ me = [t \in Threads |-> Idle(CHOOSE h \in Handles : TRUE, 0)]
  /\ calls = [t \in Threads |-> MaxCalls]
  /\ sent = pos /\ told = pos /\ torn = {} /\ shared = {} /\ stray = FALSE

(* The call of t ends and returns ret.                                     *)
Return(t, ret) == Set(t, Idle(me[t].h, ret))

-----------------------------------------------------------------------------

(* What the system does.  Byte i of the request of thread t.               *)
Byte(f, i) == IF mode[f.h] = "append" THEN <<f.h, sent[f.h] - f.req + i>>
              ELSE <<"at", f.off + i>>

Hole == <<"hole", 0>>

(* The file with the bytes s at position p.                                *)
Overwritten(p, s) ==
  [k \in 1..Max({Len(content), IF s = <<>> THEN 0 ELSE p + Len(s)}) |->
     IF k \in (p + 1)..(p + Len(s)) THEN s[k - p]
     ELSE IF k <= Len(content) THEN content[k] ELSE Hole]

(* Where a write(2) goes: an append handle writes at the end.              *)
Place(h) == IF mode[h] = "append" THEN Len(content) ELSE pos[h]

Room(p)           == IF MaxLen > p THEN MaxLen - p ELSE 0
Transfers(n, max) == IF n = 0 \/ max = 0 THEN {0} \cap {n} ELSE 1..Min({n, max})

-----------------------------------------------------------------------------

(* The file is opened in mode m for handle h, which is one of mode as;     *)
(* files are truncated between calls only.                                 *)
Opens(h, m, as) ==
  /\ ~ Open(h)
  /\ m = "truncate" => \A t \in Threads : At(t, "idle")
  /\ mode' = [mode EXCEPT ![h] = as]
  /\ content' = IF m = "truncate" THEN <<>> ELSE content
  /\ pos' = [pos EXCEPT ![h] = 0] /\ offset' = [offset EXCEPT ![h] = 0]
  /\ told' = [told EXCEPT ![h] = 0] /\ torn' = torn \ {h}
  /\ UNCHANGED <<build, me, calls, sent, shared, stray>>

spr_file_open(h, m) == build = "posix" /\ Opens(h, m, m)

(* The Win32 spr_file_open, for one handle of a file at a time, whose      *)
(* append mode is to open.  It does not look at what spr_path_to_wchar     *)
(* returns: for a path that is no UTF-8 CreateFileW is given the part that *)
(* was converted and what was on the stack, and may open another file.     *)
win32_file_open(h, m) ==
  /\ build = "win32"
  /\ \/ (\A g \in Handles : mode[g] \in {"closed", "other"}) /\ Opens(h, m, "open")
     \/ m = "open" /\ Opens(h, m, "other")

spr_file_close(h) ==
  /\ Open(h) /\ ~ Busy(h)
  /\ mode' = [mode EXCEPT ![h] = "closed"]
  /\ offset' = [offset EXCEPT ![h] = 0] /\ told' = [told EXCEPT ![h] = 0]
  /\ UNCHANGED <<build, content, pos, me, calls, sent, torn, shared, stray>>

(* A thread calls spr_file_write, spr_file_read or spr_file_size.          *)
Start(t, h, pc, off, req) ==
  /\ At(t, "idle") /\ calls[t] > 0 /\ Open(h)
  /\ calls' = [calls EXCEPT ![t] = @ - 1]
  /\ Set(t, [Idle(h, 0) EXCEPT !.pc = pc, !.off = off, !.req = req,
                                !.was = pos[h], !.len = Len(content)])
  /\ sent' = IF pc = "w_seek" /\ mode[h] = "append"
             THEN [sent EXCEPT ![h] = @ + req] ELSE sent
  /\ shared' = IF Busy(h) THEN shared \cup {h} ELSE shared
  /\ UNCHANGED <<build, kernel, offset, told, torn, stray>>

(* Offsets at which a transfer of MaxSize bytes has room.                  *)
Offsets == 0..(MaxLen - MaxSize)

StartAny(t) ==
  \E h \in Handles :
    \/ /\ "write" \in Calls
       /\ \E off \in Offsets, req \in 0..MaxSize : Start(t, h, "w_seek", off, req)
    \/ /\ "read" \in Calls
       /\ \E off \in Offsets, req \in 1..MaxSize : Start(t, h, "r_seek", off, req)
    \/ "size" \in Calls /\ Start(t, h, "s_cur", 0, 0)

(* A system call of t has failed.                                          *)
Fail(t) ==
  /\ Return(t, -1)
  /\ torn' = IF me[t].written > 0 THEN torn \cup {me[t].h} ELSE torn
  /\ UNCHANGED <<build, kernel, offset, calls, sent, told, shared, stray>>

(* lseek to the offset asked for.                                          *)
Seek(t, from, to) ==
  /\ build = "posix" /\ At(t, from)
  /\ \/ /\ pos' = [pos EXCEPT ![me[t].h] = me[t].off]
        /\ Set(t, [me[t] EXCEPT !.pc = to])
        /\ UNCHANGED <<build, content, mode, offset, calls, ghosts>>
     \/ Fail(t)

Tell(h, n) == told' = [told EXCEPT ![h] = @ + n]

(* One write(2) of at most size bytes of the buffer from byte first on,     *)
(* which ends the call when it takes one of the numbers in ends.           *)
WriteSome(t, size, first, ends) ==
  LET f == me[t]
      h == f.h
      p == Place(h)
  IN  /\ build = "posix" /\ At(t, "w_write")
      /\ \E n \in Transfers(size, Room(p)) :
           /\ content' = Overwritten(p, [i \in 1..n |-> Byte(f, first + i)])
           /\ pos' = [pos EXCEPT ![h] = p + n]
           /\ offset' = [offset EXCEPT ![h] = @ + n]
           /\ IF n \in ends
              THEN Return(t, f.written + n) /\ Tell(h, f.written + n)
              ELSE Set(t, [f EXCEPT !.written = @ + n]) /\ UNCHANGED told
      /\ UNCHANGED <<build, mode, calls, sent, torn, shared, stray>>

Rest(t) == me[t].req - me[t].written

(* Mutants: every write(2) begins at the first byte of the buffer; a short *)
(* write ends the loop; the loop ends when one write(2) has taken all.     *)
WriteFromStart(t)   == WriteSome(t, Rest(t), 0, {Rest(t)})
WriteOnce(t)        == WriteSome(t, Rest(t), me[t].written, 0..Rest(t))
WriteUntilWhole(t)  == WriteSome(t, Rest(t), me[t].written, {me[t].req})

(* One round of the loop of spr_file_write.                                *)
write_round(t) == WriteSome(t, Rest(t), me[t].written, {Rest(t)})

write_fails(t) == build = "posix" /\ At(t, "w_write") /\ Fail(t)

(* The read(2) of spr_file_read; a handle opened to append cannot read.    *)
read_bytes(t) ==
  LET f == me[t]
      h == f.h
  IN  /\ build = "posix" /\ At(t, "r_read")
      /\ \/ /\ mode[h] # "append"
            /\ \E n \in Transfers(f.req, Len(content) - Min({pos[h], Len(content)})) \cup
                        IF pos[h] >= Len(content) THEN {0} ELSE {} :
                 /\ pos' = [pos EXCEPT ![h] = @ + n]
                 /\ offset' = [offset EXCEPT ![h] = @ + n]
                 /\ Return(t, n) /\ Tell(h, n)
            /\ UNCHANGED <<build, content, mode, calls, sent, torn, shared, stray>>
         \/ Fail(t)

-----------------------------------------------------------------------------

(* spr_file_size: where the descriptor is, its end, and back.              *)
size_cur(t) ==
  /\ build = "posix" /\ At(t, "s_cur")
  /\ \/ /\ Set(t, [me[t] EXCEPT !.pc = "s_end", !.off = pos[me[t].h]])
        /\ UNCHANGED <<build, kernel, offset, calls, ghosts>>
     \/ Fail(t)

size_end(t) ==
  /\ build = "posix" /\ At(t, "s_end")
  /\ \/ /\ pos' = [pos EXCEPT ![me[t].h] = Len(content)]
        /\ Set(t, [me[t] EXCEPT !.pc = "s_set", !.ret = Len(content)])
        /\ UNCHANGED <<build, content, mode, offset, calls, ghosts>>
     \/ Fail(t)

(* Mutant: the descriptor goes to the beginning of the file.               *)
SizeRewinds(t) ==
  /\ build = "posix" /\ At(t, "s_set")
  /\ pos' = [pos EXCEPT ![me[t].h] = 0]
  /\ Return(t, me[t].ret)
  /\ UNCHANGED <<build, content, mode, offset, calls, ghosts>>

size_set(t) ==
  /\ build = "posix" /\ At(t, "s_set")
  /\ \/ /\ pos' = [pos EXCEPT ![me[t].h] = me[t].off]
        /\ Return(t, me[t].ret)
        /\ UNCHANGED <<build, content, mode, offset, calls, ghosts>>
     \/ Fail(t)

-----------------------------------------------------------------------------

(* The Win32 functions.  The high half of the offset is not initialised:   *)
(* a write that goes astray succeeds far behind the modelled part of the   *)
(* file, whose length is out of bounds from then on; a read that does      *)
(* fails.                                                                  *)
win32_write_strays(t) ==
  /\ build = "win32" /\ At(t, "w_seek") /\ ~ Elsewhere(t) /\ stray' = TRUE
  /\ Return(t, me[t].req) /\ Tell(me[t].h, me[t].req)
  /\ offset' = [offset EXCEPT ![me[t].h] = @ + me[t].req]
  /\ UNCHANGED <<build, kernel, calls, sent, torn, shared>>

win32_file_write(t) ==
  LET f == me[t]
  IN  /\ build = "win32" /\ At(t, "w_seek") /\ ~ Elsewhere(t)
      /\ \/ \E n \in Transfers(f.req, Room(f.off)) :
              /\ content' = Overwritten(f.off, [i \in 1..n |-> Byte(f, i)])
              /\ pos' = [pos EXCEPT ![f.h] = f.off + n]
              /\ \/ /\ n = f.req /\ Return(t, n) /\ Tell(f.h, n)
                    /\ offset' = [offset EXCEPT ![f.h] = @ + n]
                 \/ n # f.req /\ Return(t, -1) /\ UNCHANGED <<told, offset>>
              /\ UNCHANGED <<build, mode, calls, sent, torn, shared, stray>>
         \/ Fail(t)

win32_file_read(t) ==
  LET f == me[t]
  IN  /\ build = "win32" /\ At(t, "r_seek") /\ ~ Elsewhere(t)
      /\ \/ \E n \in Transfers(f.req, Len(content) - f.off) :
              /\ f.off < Len(content)
              /\ pos' = [pos EXCEPT ![f.h] = f.off + n]
              /\ offset' = [offset EXCEPT ![f.h] = @ + n]
              /\ Return(t, n) /\ Tell(f.h, n)
              /\ UNCHANGED <<build, content, mode, calls, sent, torn, shared, stray>>
         \/ Fail(t)

win32_file_size(t) ==
  /\ build = "win32" /\ At(t, "s_cur") /\ ~ Elsewhere(t)
  /\ \/ ~ stray /\ Return(t, Len(content)) /\ UNCHANGED <<build, kernel, offset, calls, ghosts>>
     \/ Fail(t)

(* A call on a handle of another file, of which nothing is known.          *)
win32_elsewhere(t) ==
  LET f == me[t]
  IN  /\ build = "win32" /\ Elsewhere(t)
      /\ \/ \E n \in 0..f.req :
              /\ (At(t, "r_seek") /\ n > 0) \/ (At(t, "w_seek") /\ n = f.req)
              /\ offset' = [offset EXCEPT ![f.h] = @ + n]
              /\ Return(t, n) /\ Tell(f.h, n)
              /\ UNCHANGED <<build, kernel, calls, sent, torn, shared, stray>>
         \/ /\ At(t, "s_cur") /\ \E n \in 0..MaxLen : Return(t, n)
            /\ UNCHANGED <<build, kernel, offset, calls, ghosts>>
         \/ ~ At(t, "idle") /\ Fail(t)

-----------------------------------------------------------------------------

(* spr_read_fd and spr_write_fd: one transfer where the descriptor stands. *)
spr_read_fd(t, h) ==
  /\ "fd" \in Calls /\ At(t, "idle") /\ calls[t] > 0
  /\ mode[h] \in {"open", "truncate"} /\ ~ Busy(h) /\ pos[h] < Len(content)
  /\ \E n \in 1..Min({MaxSize, Len(content) - pos[h]}) : pos' = [pos EXCEPT ![h] = @ + n]
  /\ calls' = [calls EXCEPT ![t] = @ - 1]
  /\ UNCHANGED <<build, content, mode, offset, me, ghosts>>

spr_write_fd(t, h) ==
  /\ "fd" \in Calls /\ At(t, "idle") /\ calls[t] > 0
  /\ mode[h] \in {"open", "truncate"} /\ ~ Busy(h) /\ Room(pos[h]) > 0
  /\ \E n \in 1..Min({MaxSize, Room(pos[h])}) :
       /\ content' = Overwritten(pos[h], [i \in 1..n |-> <<"at", pos[h] + i>>])
       /\ pos' = [pos EXCEPT ![h] = @ + n]
  /\ calls' = [calls EXCEPT ![t] = @ - 1]
  /\ UNCHANGED <<build, mode, offset, me, ghosts>>

Step(t) ==
  \/ Seek(t, "w_seek", "w_write") \/ write_round(t)
  \/ Seek(t, "r_seek", "r_read") \/ read_bytes(t)
  \/ size_cur(t) \/ size_end(t) \/ size_set(t)
  \/ win32_file_write(t) \/ win32_write_strays(t)
  \/ win32_file_read(t) \/ win32_file_size(t) \/ win32_elsewhere(t)

Next ==
  \/ \E h \in Handles, m \in Modes : spr_file_open(h, m) \/ win32_file_open(h, m)
  \/ \E h \in Handles : spr_file_close(h)
  \/ \E t \in Threads :
       \/ StartAny(t) \/ Step(t) \/ write_fails(t)
       \/ \E h \in Handles : spr_read_fd(t, h) \/ spr_write_fd(t, h)

Spec == Init /\ [][Next]_vars

(* Threads in a call are scheduled, system calls return, and a write(2)    *)
(* need not fail unless the file is full.                                  *)
FairSpec ==
  Spec /\ \A t \in Threads :
            WF_vars(Step(t) \/ (write_fails(t) /\ Room(Place(me[t].h)) = 0))

-----------------------------------------------------------------------------

(* Thread t returns from the call it was in, which had the descriptor to   *)
(* itself; a Win32 handle may be one of another file than it was asked to  *)
(* be, and a write may go astray, which no property says anything of.      *)
Returns(t) == ~ At(t, "idle") /\ me'[t].pc = "idle" /\ me'[t].ret >= 0
Alone(t)   == me[t].h \notin shared /\ ~ stray' /\ ~ Elsewhere(t)

(***************************************************************************)
(* Every variable has its type.                                            *)
(***************************************************************************)
TypeOK ==
  /\ build \in Builds
  /\ content \in Seq(({"at", "hole"} \cup Handles) \X Nat) /\ Len(content) <= MaxLen
  /\ mode \in [Handles -> Modes \cup {"open", "other", "closed"}]
  /\ pos \in [Handles -> 0..MaxLen] /\ {offset, sent, told} \subseteq [Handles -> Nat]
  /\ me \in [Threads -> Frame] /\ calls \in [Threads -> 0..MaxCalls]
  /\ torn \subseteq Handles /\ shared \subseteq Handles /\ stray \in BOOLEAN

(***************************************************************************)
(* While no two calls overlap on one handle, every byte of a write at an   *)
(* offset is where it was meant to be, however the write was cut to pieces *)
(* and whoever wrote in between through another handle, and whether or not *)
(* it failed in the end; and the bytes that one handle has appended are in *)
(* the order they were given.                                              *)
(***************************************************************************)
PlacedRight ==
  shared = {} =>
    /\ \A k \in DOMAIN content : content[k][1] = "at" => content[k][2] = k
    /\ \A j, k \in DOMAIN content :
         j < k /\ content[j][1] = content[k][1] /\ content[j][1] \in Handles =>
           content[j][2] < content[k][2]

(***************************************************************************)
(* When spr_file_write returns a size, it is the size asked for, and, when *)
(* no two calls have overlapped on a handle (two that race on another one  *)
(* may write their bytes anywhere), all the bytes are in the file.         *)
(***************************************************************************)
WriteComplete ==
  [][\A t \in Threads :
       me[t].pc \in {"w_seek", "w_write"} /\ Returns(t) /\ Alone(t) =>
         /\ me'[t].ret = me[t].req
         /\ mode[me[t].h] # "append" /\ shared = {} =>
              \A i \in 1..me[t].req :
                /\ me[t].off + i \in DOMAIN content'
                /\ content'[me[t].off + i] = <<"at", me[t].off + i>>]_vars

(***************************************************************************)
(* A read or write that succeeds leaves the descriptor right behind the    *)
(* bytes at the offset it was given.                                       *)
(***************************************************************************)
EndsBehindOffset ==
  [][\A t \in Threads :
       /\ me[t].pc \in {"w_seek", "w_write", "r_seek", "r_read"}
       /\ Returns(t) /\ Alone(t) /\ mode[me[t].h] # "append"
       => pos'[me[t].h] = me[t].off + me'[t].ret]_vars

(***************************************************************************)
(* spr_file_size returns a length the file had during the call, also with  *)
(* a handle that others use; with a handle of its own it leaves the        *)
(* descriptor where it was: "Work even we already read some bytes".        *)
(***************************************************************************)
SizeTrue ==
  [][\A t \in Threads :
       me[t].pc \in {"s_cur", "s_set"} /\ Returns(t) /\ ~ Elsewhere(t) =>
         /\ me[t].len <= me'[t].ret /\ me'[t].ret <= Len(content')
         /\ Alone(t) => pos'[me[t].h] = me[t].was]_vars

(***************************************************************************)
(* The offset field of a handle is the number of bytes that its calls have *)
(* reported; a POSIX write that fails half way has counted its first part. *)
(***************************************************************************)
OffsetCounts ==
  \A h \in Handles :
    Open(h) /\ ~ Busy(h) /\ h \notin shared =>
      IF h \in torn THEN build = "posix" /\ offset[h] > told[h] ELSE offset[h] = told[h]

(***************************************************************************)
(* Every call returns: the loop of spr_file_write ends.                    *)
(***************************************************************************)
CallsReturn == \A t \in Threads : ~ At(t, "idle") ~> At(t, "idle")

(***************************************************************************)
(* Whatever interleaving, short transfers and failures have made of the    *)
(* calls, the bytes of the file are where they belong and the handles      *)
(* count right.                                                            *)
(***************************************************************************)
FileInv == TypeOK /\ PlacedRight /\ OffsetCounts

(***************************************************************************)
(* What spr_file_read and spr_file_write return is what they have done,    *)
(* and the descriptor stands behind it.                                    *)
(***************************************************************************)
TransfersRight == WriteComplete /\ EndsBehindOffset
=============================================================================
