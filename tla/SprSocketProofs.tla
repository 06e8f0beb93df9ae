-------------------------- MODULE SprSocketProofs ---------------------------
(***************************************************************************)
(* Proofs about SprSocket for any number of threads, descriptors and       *)
(* calls, on all four systems.                                             *)
(***************************************************************************)
EXTENDS SprSocket, TLAPS

(***************************************************************************)
(* A mode call on a descriptor that is not mixed is alone on it, the       *)
(* socket is open, and the flags that F_GETFL has read are still its own.  *)
(***************************************************************************)
CallsInv ==
  \A t \in Threads :
    me[t].pc # "idle" =>
      /\ build = "linux"
      /\ me[t].clear = {"NONBLOCK"} \ me[t].set
      /\ me[t].fd \notin mixed =>
           /\ me[t].fd \in held
           /\ me[t].pc = "set" => me[t].flags = sock[me[t].fd].flags
           /\ \A u \in Threads : me[u].pc # "idle" /\ me[u].fd = me[t].fd => u = t

(***************************************************************************)
(* Solaris and Win32 have no such option, so that push has nothing to undo.*)
(***************************************************************************)
OptionInv == \A f \in Fds : sock[f].option => build \notin {"solaris", "win32"}

IInv == SocketsHeld /\ SetAsAsked /\ CallsInv /\ OptionInv

-----------------------------------------------------------------------------

Socket == [state: States, flags: SUBSET Flags, option: BOOLEAN]

(* A socket that the program holds is open, whatever else changes of it.   *)
LEMMA OpenStates ==
  ASSUME TypeOK, NoneLost, NEW f \in Fds
  PROVE  f \in held <=> sock[f].state # "free"
<1>1. f \in held <=> sock[f] # Free
  BY DEF NoneLost
<1>2. Free.state = "free"
  BY DEF Free
<1>3. sock[f].state = "free" => sock[f] = Free
  BY DEF TypeOK
<1> QED
  BY <1>1, <1>2, <1>3

(* One socket of the table changes to r.                                   *)
LEMMA OneSocket ==
  ASSUME TypeOK, NEW f \in Fds, NEW r \in Socket, r.state # "free" \/ r = Free,
         sock' = [sock EXCEPT ![f] = r]
  PROVE  /\ sock' \in [Fds -> Socket]
         /\ \A g \in Fds : sock'[g].state = "free" => sock'[g] = Free
         /\ \A g \in Fds : sock'[g] = IF g = f THEN r ELSE sock[g]
<1>1. sock \in [Fds -> Socket] /\ \A g \in Fds : sock[g].state = "free" => sock[g] = Free
  BY DEF TypeOK, Socket
<1>2. \A g \in Fds : sock'[g] = IF g = f THEN r ELSE sock[g]
  BY <1>1
<1> QED
  BY <1>1, <1>2

(* What the calls that change one field of a socket make of it.            *)
LEMMA OneField ==
  ASSUME NEW r \in Socket
  PROVE  /\ \A to \in States : [r EXCEPT !.state = to] \in Socket
         /\ \A fl \in SUBSET Flags : [r EXCEPT !.flags = fl] \in Socket
         /\ \A o \in BOOLEAN : [r EXCEPT !.option = o] \in Socket
         /\ \A to : /\ [r EXCEPT !.state = to].state = to
                    /\ [r EXCEPT !.state = to].flags = r.flags
                    /\ [r EXCEPT !.state = to].option = r.option
         /\ \A fl : /\ [r EXCEPT !.flags = fl].flags = fl
                    /\ [r EXCEPT !.flags = fl].state = r.state
                    /\ [r EXCEPT !.flags = fl].option = r.option
         /\ \A o : /\ [r EXCEPT !.option = o].option = o
                   /\ [r EXCEPT !.option = o].flags = r.flags
                   /\ [r EXCEPT !.option = o].state = r.state
BY DEF Socket

(* The steps by the part of the state they change.                         *)
Rightful(option, name) ==
  option => name = "nopush" \/ (build = "freebsd" /\ name = "push")

Making(t) ==
  /\ Calls(t)
  /\ \E f \in Fds, state \in {"new", "connected"}, flags \in SUBSET Flags, option \in BOOLEAN,
        name \in {"none", "nopush", "push"} :
       /\ Created(f, state, flags, option, name) /\ Rightful(option, name)
       /\ option => build \notin {"solaris", "win32"}
  /\ build = "win32" => started
  /\ UNCHANGED <<build, started, me>>

Moving(t) ==
  /\ Calls(t)
  /\ \E f \in held, to \in States \ {"free"} : sock' = [sock EXCEPT ![f].state = to]
  /\ UNCHANGED <<build, started, held, me, ghosts>>

ModeCalls(t) ==
  \E set \in SUBSET {"NONBLOCK"} : mode_ioctl(t, set) \/ mode_call(t, set)

LEMMA StepCases ==
  ASSUME TypeOK, NoneLost, PushUndoes, OptionInv, Next
  PROVE  \E t \in Threads :
           \/ spr_winsock_init_v22(t) \/ Making(t) \/ Moving(t) \/ spr_socket_close(t)
           \/ spr_socket_nopush(t) \/ spr_socket_push(t)
           \/ ModeCalls(t) \/ mode_get(t) \/ mode_set(t) \/ CallFails(t)
<1>1. PICK t \in Threads :
    \/ spr_winsock_init_v22(t) \/ spr_socket_init(t) \/ spr_socket_accept(t)
    \/ spr_socket_bind(t) \/ spr_socket_listen(t) \/ spr_socket_connect(t)
    \/ spr_socket_shutdown(t) \/ spr_socket_close(t)
    \/ spr_socket_nopush(t) \/ spr_socket_push(t)
    \/ spr_socket_nonblocking(t) \/ spr_socket_blocking(t)
    \/ mode_get(t) \/ mode_set(t) \/ CallFails(t)
  BY DEF Next
<1>2. CASE spr_socket_init(t)
  <2>1. PICK f \in Fds, flags \in {{}, {"ASYNC"}} : Created(f, "new", flags, FALSE, "none")
    BY <1>2 DEF spr_socket_init
  <2>2. flags \in SUBSET Flags /\ Rightful(FALSE, "none")
    BY DEF Flags, Rightful
  <2> QED
    BY <1>2, <2>1, <2>2 DEF spr_socket_init, Making
<1>3. CASE spr_socket_accept(t)
  <2>1. PICK l \in held, f \in Fds, option \in BOOLEAN :
          /\ option => sock[l].option
          /\ Created(f, "connected", IF build = "linux" THEN {} ELSE sock[l].flags,
                     option, IF option THEN pushed[l] ELSE "none")
    BY <1>3 DEF spr_socket_accept
  <2> DEFINE flags == IF build = "linux" THEN {} ELSE sock[l].flags
             name  == IF option THEN pushed[l] ELSE "none"
  <2>2. flags \in SUBSET Flags /\ name \in {"none", "nopush", "push"} /\ l \in Fds
    BY DEF TypeOK
  <2>3. Rightful(option, name) /\ (option => build \notin {"solaris", "win32"})
    BY <2>1, <2>2 DEF Rightful, PushUndoes, OptionInv
  <2>4. Created(f, "connected", flags, option, name) /\ (build = "win32" => started)
    BY <1>3, <2>1 DEF spr_socket_accept, NoneLost
  <2> HIDE DEF flags, name
  <2> QED
    BY <1>3, <2>2, <2>3, <2>4 DEF spr_socket_accept, Making
<1>4. CASE spr_socket_bind(t) \/ spr_socket_listen(t) \/ spr_socket_connect(t) \/ spr_socket_shutdown(t)
  BY <1>4 DEF spr_socket_bind, spr_socket_listen, spr_socket_connect, spr_socket_shutdown, Moves,
     Moving, States
<1>5. CASE spr_socket_nonblocking(t) \/ spr_socket_blocking(t)
  BY <1>5 DEF spr_socket_nonblocking, spr_socket_blocking, ModeCalls
<1> QED
  BY <1>1, <1>2, <1>3, <1>4, <1>5

-----------------------------------------------------------------------------

(* Calls(t) counts a call of thread t.                                     *)
LEMMA CallsType ==
  ASSUME TypeOK, NEW t \in Threads, Calls(t)
  PROVE  calls' \in [Threads -> 0..MaxCalls]
BY SocketAssumption DEF TypeOK, Calls, SocketAssumption

(* A new socket.                                                           *)
LEMMA MakingStep ==
  ASSUME IInv, NEW t \in Threads, Making(t)
  PROVE  IInv'
<1>1. TypeOK /\ NoneLost /\ SetAsAsked /\ CallsInv /\ OptionInv
  BY DEF IInv, SocketsHeld
<1>2. PICK f \in Fds, state \in {"new", "connected"}, flags \in SUBSET Flags, option \in BOOLEAN,
           name \in {"none", "nopush", "push"} :
        /\ Created(f, state, flags, option, name) /\ Rightful(option, name)
        /\ option => build \notin {"solaris", "win32"}
  BY DEF Making
<1> DEFINE r == [state |-> state, flags |-> flags, option |-> option]
<1>3. /\ r \in Socket /\ r.state = state /\ state # "free" /\ r.flags = flags
      /\ r.option = option
  BY DEF Socket, States
<1>4. sock' = [sock EXCEPT ![f] = r] /\ sock[f] = Free /\ f \notin held
  BY <1>1, <1>2 DEF Created, NoneLost
<1> HIDE DEF r
<1>5. /\ sock' \in [Fds -> Socket]
      /\ \A g \in Fds : sock'[g].state = "free" => sock'[g] = Free
      /\ \A g \in Fds : sock'[g] = IF g = f THEN r ELSE sock[g]
  BY <1>1, <1>3, <1>4, OneSocket
<1>6. TypeOK'
  <2>1. calls' \in [Threads -> 0..MaxCalls]
    BY <1>1, CallsType DEF Making
  <2> QED
    BY <1>1, <1>2, <1>5, <2>1 DEF TypeOK, Socket, Making, Created
<1>7. NoneLost'
  <2>1. r # Free
    BY <1>3 DEF Free
  <2> QED
    BY <1>1, <1>2, <1>5, <2>1 DEF NoneLost, Making, Created
<1>8. SetAsAsked'
  <2>1. /\ asked' = [asked EXCEPT ![f] = "none"] /\ pushed' = [pushed EXCEPT ![f] = name]
        /\ given' = [given EXCEPT ![f] = flags \ {"NONBLOCK"}] /\ UNCHANGED build
        /\ held' = held \cup {f} /\ \A g \in Fds \ {f} : g \in mixed' <=> g \in mixed
    BY <1>2 DEF Making, Created
  <2>2. ModeAsAsked'
    BY <1>1, <1>5, <2>1 DEF SetAsAsked, ModeAsAsked, TypeOK
  <2>3. FlagsKept'
    BY <1>1, <1>3, <1>5, <2>1 DEF SetAsAsked, FlagsKept, TypeOK
  <2>4. PushUndoes'
    BY <1>1, <1>2, <1>3, <1>5, <2>1 DEF SetAsAsked, PushUndoes, TypeOK, Rightful
  <2> QED
    BY <2>2, <2>3, <2>4 DEF SetAsAsked
<1>9. CallsInv'
  BY <1>1, <1>2, <1>4, <1>5 DEF CallsInv, Making, Created, InCall, TypeOK
<1>10. OptionInv'
  BY <1>1, <1>2, <1>3, <1>5 DEF OptionInv, Making
<1> QED
  BY <1>6, <1>7, <1>8, <1>9, <1>10 DEF IInv, SocketsHeld

(* bind, listen, connect and shutdown.                                     *)
LEMMA MovingStep ==
  ASSUME IInv, NEW t \in Threads, Moving(t)
  PROVE  IInv'
<1>1. TypeOK /\ NoneLost /\ SetAsAsked /\ CallsInv /\ OptionInv
  BY DEF IInv, SocketsHeld
<1>2. PICK f \in held, to \in States \ {"free"} : sock' = [sock EXCEPT ![f].state = to]
  BY DEF Moving
<1> DEFINE r == [sock[f] EXCEPT !.state = to]
<1>3. f \in Fds /\ sock[f] \in Socket
  BY <1>1, <1>2 DEF TypeOK, Socket
<1>4. /\ r \in Socket /\ r.state # "free" /\ r.flags = sock[f].flags
      /\ r.option = sock[f].option
  BY <1>2, <1>3, OneField
<1>5. sock' = [sock EXCEPT ![f] = r]
  BY <1>2
<1> HIDE DEF r
<1>6. /\ sock' \in [Fds -> Socket]
      /\ \A g \in Fds : sock'[g].state = "free" => sock'[g] = Free
      /\ \A g \in Fds : sock'[g] = IF g = f THEN r ELSE sock[g]
  BY <1>1, <1>3, <1>4, <1>5, OneSocket
<1>7. TypeOK'
  <2>1. calls' \in [Threads -> 0..MaxCalls]
    BY <1>1, CallsType DEF Moving
  <2> QED
    BY <1>1, <1>6, <2>1 DEF TypeOK, Socket, Moving, ghosts
<1>8. NoneLost'
  <2>1. r # Free
    BY <1>4 DEF Free
  <2> QED
    BY <1>1, <1>2, <1>6, <2>1 DEF NoneLost, Moving
<1>9. SetAsAsked'
  BY <1>1, <1>3, <1>4, <1>6
     DEF SetAsAsked, ModeAsAsked, FlagsKept, PushUndoes, TypeOK, Moving, ghosts
<1>10. CallsInv'
  BY <1>1, <1>4, <1>6 DEF CallsInv, Moving, ghosts, TypeOK
<1>11. OptionInv'
  BY <1>1, <1>3, <1>4, <1>6 DEF OptionInv, Moving
<1> QED
  BY <1>7, <1>8, <1>9, <1>10, <1>11 DEF IInv, SocketsHeld

(* The descriptor is free again; a call that is in it is mixed up.         *)
LEMMA ClosingStep ==
  ASSUME IInv, NEW t \in Threads, spr_socket_close(t)
  PROVE  IInv'
<1>1. TypeOK /\ NoneLost /\ SetAsAsked /\ CallsInv /\ OptionInv
  BY DEF IInv, SocketsHeld
<1>2. PICK f \in held :
       /\ sock' = [sock EXCEPT ![f] = Free] /\ held' = held \ {f}
       /\ asked' = [asked EXCEPT ![f] = "none"] /\ pushed' = [pushed EXCEPT ![f] = "none"]
       /\ given' = [given EXCEPT ![f] = {}]
       /\ mixed' = IF InCall(f) THEN mixed \cup {f} ELSE mixed
  BY DEF spr_socket_close
<1>3. UNCHANGED <<build, started, me>> /\ calls' \in [Threads -> 0..MaxCalls] /\ f \in Fds
  BY <1>1, <1>2, CallsType DEF spr_socket_close, TypeOK
<1>4. Free \in Socket
  BY DEF Free, Socket, States
<1>5. /\ sock' \in [Fds -> Socket]
      /\ \A g \in Fds : sock'[g].state = "free" => sock'[g] = Free
      /\ \A g \in Fds : sock'[g] = IF g = f THEN Free ELSE sock[g]
  BY <1>1, <1>2, <1>3, <1>4, OneSocket
<1>6. TypeOK'
  BY <1>1, <1>2, <1>3, <1>5 DEF TypeOK, Socket
<1>7. NoneLost'
  BY <1>1, <1>2, <1>3, <1>5 DEF NoneLost
<1>8. SetAsAsked'
  BY <1>1, <1>2, <1>3, <1>5 DEF SetAsAsked, ModeAsAsked, FlagsKept, PushUndoes, TypeOK
<1>9. CallsInv'
  BY <1>1, <1>2, <1>3, <1>5 DEF CallsInv, InCall, TypeOK
<1>10. OptionInv'
  BY <1>1, <1>3, <1>5 DEF OptionInv, Free
<1> QED
  BY <1>6, <1>7, <1>8, <1>9, <1>10 DEF IInv, SocketsHeld

(* spr_socket_nopush and spr_socket_push.                                  *)
LEMMA OptionStep ==
  ASSUME IInv, NEW t \in Threads, spr_socket_nopush(t) \/ spr_socket_push(t)
  PROVE  IInv'
<1>1. TypeOK /\ NoneLost /\ SetAsAsked /\ CallsInv /\ OptionInv
  BY DEF IInv, SocketsHeld
<1>2. PICK value \in BOOLEAN, name \in {"nopush", "push"} :
        Option(t, value, name) /\ (value => name = "nopush" \/ build = "freebsd")
  <2>1. (build = "freebsd") \in BOOLEAN
    OBVIOUS
  <2> QED
    BY <2>1 DEF spr_socket_nopush, spr_socket_push
<1>3. PICK f \in held :
        /\ sock' = IF build \in {"solaris", "win32"} THEN sock
                   ELSE [sock EXCEPT ![f].option = value]
        /\ pushed' = [pushed EXCEPT ![f] = name]
  BY <1>2 DEF Option
<1>4. /\ UNCHANGED <<build, started, held, me, asked, given, mixed>>
      /\ calls' \in [Threads -> 0..MaxCalls] /\ f \in Fds /\ sock[f] \in Socket
  BY <1>1, <1>2, <1>3, CallsType DEF Option, TypeOK, Socket
<1> DEFINE r == IF build \in {"solaris", "win32"} THEN sock[f] ELSE [sock[f] EXCEPT !.option = value]
<1>5. /\ r \in Socket /\ r.state = sock[f].state /\ r.state # "free" /\ r.flags = sock[f].flags
      /\ r.option => sock[f].option \/ value
      /\ r.option = IF build \in {"solaris", "win32"} THEN sock[f].option ELSE value
  BY <1>1, <1>4, OneField, OpenStates
<1>6. sock' = [sock EXCEPT ![f] = r]
  BY <1>1, <1>3, <1>4 DEF TypeOK
<1> HIDE DEF r
<1>7. /\ sock' \in [Fds -> Socket]
      /\ \A g \in Fds : sock'[g].state = "free" => sock'[g] = Free
      /\ \A g \in Fds : sock'[g] = IF g = f THEN r ELSE sock[g]
  BY <1>1, <1>4, <1>5, <1>6, OneSocket
<1>8. TypeOK'
  BY <1>1, <1>3, <1>4, <1>7 DEF TypeOK, Socket
<1>9. NoneLost'
  <2>1. r # Free /\ sock[f] # Free
    BY <1>5 DEF Free
  <2> QED
    BY <1>1, <1>4, <1>7, <2>1 DEF NoneLost
<1>10. ModeAsAsked'
  BY <1>1, <1>4, <1>5, <1>7 DEF SetAsAsked, ModeAsAsked, TypeOK
<1>11. FlagsKept'
  BY <1>1, <1>4, <1>5, <1>7 DEF SetAsAsked, FlagsKept, TypeOK
<1>12. OptionInv'
  BY <1>1, <1>4, <1>5, <1>7 DEF OptionInv
<1>13. PushUndoes'
  <2> SUFFICES ASSUME NEW g \in held, sock'[g].option
               PROVE  pushed'[g] = "nopush" \/ (build = "freebsd" /\ pushed'[g] = "push")
    BY <1>4 DEF PushUndoes
  <2>1. CASE g = f
    <3>1. value
      BY <1>1, <1>4, <1>5, <1>7, <2>1 DEF OptionInv
    <3> QED
      BY <1>1, <1>2, <1>3, <1>4, <2>1, <3>1 DEF TypeOK
  <2>2. CASE g # f
    BY <1>1, <1>3, <1>4, <1>7, <2>2 DEF SetAsAsked, PushUndoes, TypeOK
  <2> QED
    BY <2>1, <2>2
<1>14. CallsInv'
  BY <1>1, <1>4, <1>5, <1>7 DEF CallsInv, TypeOK
<1> QED
  BY <1>8, <1>9, <1>10, <1>11, <1>12, <1>13, <1>14 DEF IInv, SocketsHeld, SetAsAsked

(* The mode is set in one call, or F_GETFL is about to be called.          *)
LEMMA ModeCallStep ==
  ASSUME IInv, NEW t \in Threads, ModeCalls(t)
  PROVE  IInv'
<1>1. TypeOK /\ NoneLost /\ SetAsAsked /\ CallsInv /\ OptionInv
  BY DEF IInv, SocketsHeld
<1>2. PICK set \in SUBSET {"NONBLOCK"} : mode_ioctl(t, set) \/ mode_call(t, set)
  BY DEF ModeCalls
<1>3. calls' \in [Threads -> 0..MaxCalls]
  BY <1>1, <1>2, CallsType DEF mode_ioctl, mode_call
<1>4. CASE mode_ioctl(t, set)
  <2>1. PICK f \in held : SetFlags(f, (sock[f].flags \ {"NONBLOCK"}) \cup set, set)
    BY <1>4 DEF mode_ioctl
  <2>2. /\ UNCHANGED <<build, started, held, me, pushed, given, mixed>> /\ build # "linux"
        /\ f \in Fds /\ sock[f] \in Socket
    BY <1>1, <1>4 DEF mode_ioctl, TypeOK, Socket
  <2> DEFINE flags == (sock[f].flags \ {"NONBLOCK"}) \cup set
             r == [sock[f] EXCEPT !.flags = flags]
  <2>3. flags \in SUBSET Flags /\ flags \ {"NONBLOCK"} = sock[f].flags \ {"NONBLOCK"}
        /\ ("NONBLOCK" \in flags <=> set # {})
    BY <2>2 DEF Socket, Flags
  <2> HIDE DEF flags
  <2>4. /\ r \in Socket /\ r.state = sock[f].state /\ r.state # "free" /\ r.flags = flags
        /\ r.option = sock[f].option
    BY <1>1, <2>2, <2>3, OneField, OpenStates
  <2>5. sock' = [sock EXCEPT ![f] = r] /\ asked' = [asked EXCEPT ![f] = Mode(set)]
    BY <2>1 DEF SetFlags, flags
  <2> HIDE DEF r
  <2>6. /\ sock' \in [Fds -> Socket]
        /\ \A g \in Fds : sock'[g].state = "free" => sock'[g] = Free
        /\ \A g \in Fds : sock'[g] = IF g = f THEN r ELSE sock[g]
    BY <1>1, <2>2, <2>4, <2>5, OneSocket
  <2>7. TypeOK'
    BY <1>1, <1>3, <2>2, <2>5, <2>6 DEF TypeOK, Socket, Mode
  <2>8. NoneLost'
    <3>1. r # Free /\ sock[f] # Free
      BY <2>4 DEF Free
    <3> QED
      BY <1>1, <2>2, <2>6, <3>1 DEF NoneLost
  <2>9. ModeAsAsked'
    BY <1>1, <2>2, <2>3, <2>4, <2>5, <2>6 DEF SetAsAsked, ModeAsAsked, TypeOK, Mode
  <2>10. FlagsKept'
    BY <1>1, <2>2, <2>3, <2>4, <2>6 DEF SetAsAsked, FlagsKept, TypeOK
  <2>11. PushUndoes' /\ OptionInv'
    BY <1>1, <2>2, <2>4, <2>6 DEF SetAsAsked, PushUndoes, OptionInv, TypeOK
  <2>12. CallsInv'
    BY <1>1, <2>2 DEF CallsInv
  <2> QED
    BY <2>7, <2>8, <2>9, <2>10, <2>11, <2>12 DEF IInv, SocketsHeld, SetAsAsked
<1>5. CASE mode_call(t, set)
  <2>1. PICK f \in held :
       /\ me' = [me EXCEPT ![t] = [Idle EXCEPT !.pc = "get", !.fd = f, !.set = set,
                                               !.clear = {"NONBLOCK"} \ set]]
       /\ mixed' = IF InCall(f) THEN mixed \cup {f} ELSE mixed
    BY <1>5 DEF mode_call
  <2>2. /\ UNCHANGED <<build, started, sock, held, asked, pushed, given>> /\ build = "linux"
        /\ me[t].pc = "idle" /\ f \in Fds
    BY <1>1, <1>5 DEF mode_call, Calls, TypeOK
  <2> DEFINE m == [Idle EXCEPT !.pc = "get", !.fd = f, !.set = set,
                               !.clear = {"NONBLOCK"} \ set]
  <2>3. /\ m \in [pc: {"idle", "get", "set"}, fd: Fds, set: SUBSET {"NONBLOCK"},
                   clear: SUBSET {"NONBLOCK"}, flags: SUBSET Flags]
        /\ m.pc = "get" /\ m.fd = f /\ m.set = set /\ m.clear = {"NONBLOCK"} \ set
        /\ me' = [me EXCEPT ![t] = m]
    BY <2>1, <2>2 DEF Idle
  <2> HIDE DEF m
  <2>4. TypeOK'
    <3>1. me' \in [Threads -> [pc: {"idle", "get", "set"}, fd: Fds, set: SUBSET {"NONBLOCK"},
                               clear: SUBSET {"NONBLOCK"}, flags: SUBSET Flags]]
      BY <1>1, <2>3 DEF TypeOK
    <3>2. mixed' \subseteq Fds
      BY <1>1, <2>1, <2>2 DEF TypeOK
    <3>3. calls' \in [Threads -> 0..MaxCalls]
      BY <1>3
    <3> QED
      BY <1>1, <2>2, <3>1, <3>2, <3>3 DEF TypeOK
  <2>5. NoneLost' /\ OptionInv'
    BY <1>1, <2>2 DEF NoneLost, OptionInv
  <2>6. SetAsAsked'
    BY <1>1, <2>1, <2>2 DEF SetAsAsked, ModeAsAsked, FlagsKept, PushUndoes
  <2>7. CallsInv'
    BY <1>1, <2>1, <2>2, <2>3 DEF CallsInv, InCall, TypeOK
  <2> QED
    BY <2>4, <2>5, <2>6, <2>7 DEF IInv, SocketsHeld
<1> QED
  BY <1>2, <1>4, <1>5

(* F_GETFL.                                                                *)
LEMMA GetStep ==
  ASSUME IInv, NEW t \in Threads, mode_get(t)
  PROVE  IInv'
<1>1. TypeOK /\ NoneLost /\ SetAsAsked /\ CallsInv /\ OptionInv
  BY DEF IInv, SocketsHeld
<1>2. UNCHANGED <<build, started, sock, held, calls, asked, pushed, given, mixed>>
  BY DEF mode_get, ghosts
<1> DEFINE flags == IF sock[me[t].fd] = Free THEN Flags ELSE sock[me[t].fd].flags
           m == [me[t] EXCEPT !.pc = "set", !.flags = flags]
<1>3. me' = [me EXCEPT ![t] = m] /\ me[t].pc = "get"
  BY DEF mode_get
<1>4. flags \in SUBSET Flags
  BY <1>1 DEF TypeOK
<1> HIDE DEF flags
<1>5. /\ m \in [pc: {"idle", "get", "set"}, fd: Fds, set: SUBSET {"NONBLOCK"},
                 clear: SUBSET {"NONBLOCK"}, flags: SUBSET Flags]
      /\ m.pc = "set" /\ m.fd = me[t].fd /\ m.set = me[t].set /\ m.clear = me[t].clear
      /\ m.flags = flags
  BY <1>1, <1>4, ZenonT(30) DEF TypeOK
<1>6. me[t].fd \in held => flags = sock[me[t].fd].flags
  BY <1>1 DEF NoneLost, flags
<1> HIDE DEF m
<1>7. TypeOK'
  BY <1>1, <1>2, <1>3, <1>5 DEF TypeOK
<1>8. NoneLost' /\ OptionInv' /\ SetAsAsked'
  BY <1>1, <1>2 DEF NoneLost, OptionInv, SetAsAsked, ModeAsAsked, FlagsKept, PushUndoes
<1>9. CallsInv'
  <2>1. \A u \in Threads : /\ me'[u].pc # "idle" <=> me[u].pc # "idle"
                           /\ me'[u].fd = me[u].fd /\ me'[u].set = me[u].set
                           /\ me'[u].clear = me[u].clear
                           /\ u # t => me'[u] = me[u]
    BY <1>1, <1>3, <1>5 DEF TypeOK
  <2>2. me'[t].flags = flags
    BY <1>1, <1>3, <1>5 DEF TypeOK
  <2> QED
    BY <1>1, <1>2, <1>3, <1>6, <2>1, <2>2 DEF CallsInv
<1> QED
  BY <1>7, <1>8, <1>9 DEF IInv, SocketsHeld

(* F_SETFL: the socket has the flags that it had, but for the mode.        *)
LEMMA SetStep ==
  ASSUME IInv, NEW t \in Threads, mode_set(t)
  PROVE  IInv'
<1>1. TypeOK /\ NoneLost /\ SetAsAsked /\ CallsInv /\ OptionInv
  BY DEF IInv, SocketsHeld
<1> DEFINE f == me[t].fd
           flags == (me[t].flags \cup me[t].set) \ me[t].clear
           r == [sock[f] EXCEPT !.flags = flags]
<1>2. /\ UNCHANGED <<build, started, held, calls, pushed, given, mixed>>
      /\ me' = [me EXCEPT ![t] = Idle] /\ me[t].pc = "set"
  BY DEF mode_set
<1>3. /\ f \in Fds /\ sock[f] \in Socket
      /\ flags \in SUBSET Flags /\ me[t].set \in SUBSET {"NONBLOCK"}
  BY <1>1 DEF TypeOK, Socket, Flags
<1>4. /\ Idle \in [pc: {"idle", "get", "set"}, fd: Fds, set: SUBSET {"NONBLOCK"},
                    clear: SUBSET {"NONBLOCK"}, flags: SUBSET Flags]
      /\ Idle.pc = "idle"
  BY SocketAssumption DEF SocketAssumption, Idle, Flags
<1>5. CallsInv' /\ me' \in [Threads -> [pc: {"idle", "get", "set"}, fd: Fds,
               set: SUBSET {"NONBLOCK"}, clear: SUBSET {"NONBLOCK"}, flags: SUBSET Flags]]
  <2>1. \A u \in Threads : me'[u] = IF u = t THEN Idle ELSE me[u]
    BY <1>1, <1>2 DEF TypeOK
  <2>2. \A g \in Fds : g # f => sock'[g] = sock[g]
    BY <1>1, <1>3 DEF mode_set, SetFlags, TypeOK
  <2>3. \A u \in Threads : me[u].fd \in Fds
    BY <1>1 DEF TypeOK
  <2>4. CallsInv'
    BY <1>1, <1>2, <1>4, <2>1, <2>2, <2>3 DEF CallsInv
  <2> QED
    BY <1>1, <1>2, <1>4, <2>4 DEF TypeOK
<1>6. CASE UNCHANGED <<sock, asked>>
  <2>1. TypeOK' /\ NoneLost' /\ OptionInv' /\ SetAsAsked'
    BY <1>1, <1>2, <1>5, <1>6
       DEF TypeOK, NoneLost, OptionInv, SetAsAsked, ModeAsAsked, FlagsKept, PushUndoes
  <2> QED
    BY <1>5, <2>1 DEF IInv, SocketsHeld
<1>7. CASE sock[f] # Free /\ SetFlags(f, flags, me[t].set)
  <2>1. f \notin mixed =>
          /\ flags \ {"NONBLOCK"} = sock[f].flags \ {"NONBLOCK"}
          /\ "NONBLOCK" \in flags <=> me[t].set # {}
    BY <1>1, <1>2, <1>3 DEF CallsInv
  <2> HIDE DEF flags
  <2>2. f \in held
    BY <1>1, <1>3, <1>7 DEF NoneLost
  <2> HIDE DEF f
  <2>3. /\ r \in Socket /\ r.state = sock[f].state /\ r.state # "free" /\ r.flags = flags
        /\ r.option = sock[f].option
    BY <1>1, <1>3, <2>2, OneField, OpenStates
  <2>4. sock' = [sock EXCEPT ![f] = r] /\ asked' = [asked EXCEPT ![f] = Mode(me[t].set)]
    BY <1>7 DEF SetFlags
  <2> HIDE DEF r
  <2>5. /\ sock' \in [Fds -> Socket]
        /\ \A g \in Fds : sock'[g].state = "free" => sock'[g] = Free
        /\ \A g \in Fds : sock'[g] = IF g = f THEN r ELSE sock[g]
    BY <1>1, <1>3, <2>3, <2>4, OneSocket
  <2>6. TypeOK'
    BY <1>1, <1>2, <1>3, <1>5, <2>4, <2>5 DEF TypeOK, Socket, Mode
  <2>7. NoneLost'
    <3>1. r # Free /\ sock[f] # Free
      BY <2>3 DEF Free
    <3> QED
      BY <1>1, <1>2, <2>5, <3>1 DEF NoneLost
  <2>8. ModeAsAsked'
    BY <1>1, <1>2, <1>3, <2>1, <2>3, <2>4, <2>5 DEF SetAsAsked, ModeAsAsked, TypeOK, Mode
  <2>9. FlagsKept'
    BY <1>1, <1>2, <1>3, <2>1, <2>3, <2>5 DEF SetAsAsked, FlagsKept, TypeOK
  <2>10. PushUndoes' /\ OptionInv'
    BY <1>1, <1>2, <1>3, <2>3, <2>5 DEF SetAsAsked, PushUndoes, OptionInv, TypeOK
  <2> QED
    BY <1>5, <2>6, <2>7, <2>8, <2>9, <2>10 DEF IInv, SocketsHeld, SetAsAsked
<1> QED
  BY <1>6, <1>7 DEF mode_set

(* WSAStartup, and the calls that fail.                                    *)
LEMMA QuietStep ==
  ASSUME IInv, NEW t \in Threads, spr_winsock_init_v22(t) \/ CallFails(t)
  PROVE  IInv'
<1>1. TypeOK /\ NoneLost /\ SetAsAsked /\ CallsInv /\ OptionInv
  BY DEF IInv, SocketsHeld
<1>2. /\ UNCHANGED <<build, sock, held, me, asked, pushed, given, mixed>>
      /\ started' \in BOOLEAN /\ (started => started') /\ calls' \in [Threads -> 0..MaxCalls]
  BY <1>1, CallsType DEF spr_winsock_init_v22, CallFails, ghosts, TypeOK
<1>3. TypeOK' /\ NoneLost' /\ OptionInv' /\ SetAsAsked'
  BY <1>1, <1>2
     DEF TypeOK, NoneLost, OptionInv, SetAsAsked, ModeAsAsked, FlagsKept, PushUndoes
<1>4. CallsInv'
  BY <1>1, <1>2 DEF CallsInv
<1> QED
  BY <1>3, <1>4 DEF IInv, SocketsHeld

-----------------------------------------------------------------------------

(* The invariant is inductive.                                             *)
LEMMA Inductive == Spec => []IInv
<1>1. Init => IInv
  <2> SUFFICES ASSUME Init PROVE IInv
    OBVIOUS
  <2>1. /\ Idle \in [pc: {"idle", "get", "set"}, fd: Fds, set: SUBSET {"NONBLOCK"},
                      clear: SUBSET {"NONBLOCK"}, flags: SUBSET Flags]
        /\ Idle.pc = "idle"
    BY SocketAssumption DEF SocketAssumption, Idle, Flags
  <2>2. TypeOK
    <3>1. Free \in [state: States, flags: SUBSET Flags, option: BOOLEAN]
      BY DEF Free, States
    <3>2. /\ sock \in [Fds -> [state: States, flags: SUBSET Flags, option: BOOLEAN]]
          /\ \A f \in Fds : sock[f] = Free
      BY <3>1 DEF Init
    <3>3. me \in [Threads -> [pc: {"idle", "get", "set"}, fd: Fds, set: SUBSET {"NONBLOCK"},
                              clear: SUBSET {"NONBLOCK"}, flags: SUBSET Flags]]
      BY <2>1 DEF Init
    <3>4. calls \in [Threads -> 0..MaxCalls]
      <4>1. MaxCalls \in 0..MaxCalls
        BY SocketAssumption DEF SocketAssumption
      <4> QED
        BY <4>1 DEF Init
    <3>5. /\ asked \in [Fds -> {"none", "blocking", "nonblocking"}]
          /\ pushed \in [Fds -> {"none", "nopush", "push"}]
          /\ given \in [Fds -> SUBSET Flags]
          /\ build \in Builds /\ started \in BOOLEAN /\ held = {} /\ mixed = {}
      BY DEF Init
    <3> QED
      BY <3>2, <3>3, <3>4, <3>5 DEF TypeOK
  <2>3. NoneLost /\ SetAsAsked
    BY DEF Init, NoneLost, SetAsAsked, ModeAsAsked, FlagsKept, PushUndoes
  <2>4. CallsInv /\ OptionInv
    BY <2>1 DEF Init, CallsInv, OptionInv, Free
  <2> QED
    BY <2>2, <2>3, <2>4 DEF IInv, SocketsHeld
<1>2. IInv /\ [Next]_vars => IInv'
  <2> SUFFICES ASSUME IInv, [Next]_vars PROVE IInv'
    OBVIOUS
  <2>1. CASE Next
    <3>1. TypeOK /\ NoneLost /\ PushUndoes /\ OptionInv
      BY DEF IInv, SocketsHeld, SetAsAsked
    <3> QED
      BY <2>1, <3>1, StepCases, MakingStep, MovingStep, ClosingStep, OptionStep, ModeCallStep,
         GetStep, SetStep, QuietStep
  <2>2. CASE UNCHANGED vars
    BY <2>2 DEF vars, ghosts, IInv, SocketsHeld, TypeOK, NoneLost, SetAsAsked, ModeAsAsked,
       FlagsKept, PushUndoes, CallsInv, OptionInv
  <2> QED
    BY <2>1, <2>2
<1> QED
  BY <1>1, <1>2, PTL DEF Spec

(***************************************************************************)
(* The program knows exactly the sockets that are open, whatever calls     *)
(* fail and however often descriptors are used again.                      *)
(***************************************************************************)
THEOREM NoSocketLost == Spec => []SocketsHeld
<1>1. IInv => SocketsHeld
  BY DEF IInv
<1> QED
  BY Inductive, <1>1, PTL

(***************************************************************************)
(* A socket whose calls do not overlap has the mode and the flags it was   *)
(* given, though Linux reads and sets them in two calls.                   *)
(***************************************************************************)
THEOREM ModesAreSet == Spec => []SetAsAsked
<1>1. IInv => SetAsAsked
  BY DEF IInv
<1> QED
  BY Inductive, <1>1, PTL
=============================================================================
