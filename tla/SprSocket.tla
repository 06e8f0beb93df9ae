----------------------------- MODULE SprSocket ------------------------------
(***************************************************************************)
(* lib/network/spr_socket.c and spr_sockopt.c: threads open, connect, tune *)
(* and close sockets whose descriptors the system uses again.  On Linux    *)
(* the mode of a socket is changed in two system calls, elsewhere in one.  *)
(***************************************************************************)
EXTENDS Naturals, FiniteSets

CONSTANTS
  Threads, Fds,
  Builds,      \* linux, freebsd, solaris, win32
  MaxCalls     \* bound on the calls of a thread

ASSUME SocketAssumption ==
  /\ Builds \subseteq {"linux", "freebsd", "solaris", "win32"}
  /\ IsFiniteSet(Fds) /\ Fds # {} /\ MaxCalls \in Nat

VARIABLES
  build,
  started,    \* WSAStartup has been called
  sock,       \* the system's sockets: state, flags, and the option of nopush
  held,       \* descriptors that calls have handed to the program
  me,         \* the mode call that each Linux thread is in
  calls,      \* calls each thread may still make
  asked,      \* the mode last set for a descriptor
  pushed,     \* "nopush", "push" or "none": what was last called on it, or on the
              \* socket it was accepted from with the option
  given,      \* the flags that the socket was created with
  mixed       \* descriptors with overlapping calls

ghosts == <<asked, pushed, given, mixed>>
vars   == <<build, started, sock, held, me, calls, ghosts>>

Flags  == {"NONBLOCK", "ASYNC", "APPEND"}
States == {"free", "new", "bound", "listening", "connected", "shut"}
Free   == [state |-> "free", flags |-> {}, option |-> FALSE]
Idle   == [pc |-> "idle", fd |-> CHOOSE f \in Fds : TRUE, set |-> {}, clear |-> {}, flags |-> {}]

Init ==
  /\ build \in Builds
  /\ started = FALSE /\ held = {} /\ mixed = {}
  /\ sock = [f \in Fds |-> Free]
  /\ me = [t \in Threads |-> Idle]
  /\ calls = [t \in Threads |-> MaxCalls]
  /\ asked = [f \in Fds |-> "none"] /\ pushed = asked
  /\ given = [f \in Fds |-> {}]

InCall(f) == \E t \in Threads : me[t].pc # "idle" /\ me[t].fd = f

(* Thread t, in no call, makes one.                                        *)
Calls(t) ==
  /\ me[t].pc = "idle" /\ calls[t] > 0
  /\ calls' = [calls EXCEPT ![t] = @ - 1]

-----------------------------------------------------------------------------

(* The system makes a socket of descriptor f, and the call returns it.     *)
Created(f, state, flags, option, name) ==
  /\ sock[f] = Free
  /\ sock' = [sock EXCEPT ![f] = [state |-> state, flags |-> flags, option |-> option]]
  /\ held' = held \cup {f}
  /\ asked' = [asked EXCEPT ![f] = "none"] /\ pushed' = [pushed EXCEPT ![f] = name]
  /\ given' = [given EXCEPT ![f] = flags \ {"NONBLOCK"}]
  /\ mixed' = IF InCall(f) THEN mixed \cup {f} ELSE mixed \ {f}

spr_winsock_init_v22(t) ==
  /\ Calls(t) /\ build = "win32" /\ started' = TRUE
  /\ UNCHANGED <<build, sock, held, me, ghosts>>

(* Mutant: the descriptor is not stored.                                   *)
SocketInitForgets(t) ==
  /\ Calls(t) /\ (build = "win32" => started)
  /\ \E f \in Fds : sock[f] = Free /\ sock' = [sock EXCEPT ![f] = [Free EXCEPT !.state = "new"]]
  /\ UNCHANGED <<build, started, held, me, ghosts>>

spr_socket_init(t) ==
  /\ Calls(t) /\ (build = "win32" => started)
  /\ \E f \in Fds, flags \in {{}, {"ASYNC"}} : Created(f, "new", flags, FALSE, "none")
  /\ UNCHANGED <<build, started, me>>

(* The new socket takes over the flags of the listening one, except on     *)
(* Linux, and its option or not, as the protocol has it.                   *)
spr_socket_accept(t) ==
  /\ Calls(t)
  /\ \E l \in held, f \in Fds, option \in BOOLEAN :
       /\ sock[l].state = "listening" /\ (option => sock[l].option)
       /\ Created(f, "connected", IF build = "linux" THEN {} ELSE sock[l].flags,
                  option, IF option THEN pushed[l] ELSE "none")
  /\ UNCHANGED <<build, started, me>>

(* bind, listen, connect and shutdown.                                     *)
Moves(t, from, to) ==
  /\ Calls(t)
  /\ \E f \in held :
       /\ sock[f].state \in from
       /\ sock' = [sock EXCEPT ![f].state = to]
  /\ UNCHANGED <<build, started, held, me, ghosts>>

spr_socket_bind(t)     == Moves(t, {"new"}, "bound")
spr_socket_listen(t)   == Moves(t, {"bound"}, "listening")
spr_socket_connect(t)  == Moves(t, {"new", "bound"}, "connected")
spr_socket_shutdown(t) == Moves(t, {"connected"}, "shut")

(* The program closes a descriptor that was handed to it; another thread   *)
(* may be in a call on it.                                                 *)
spr_socket_close(t) ==
  /\ Calls(t)
  /\ \E f \in held :
       /\ sock' = [sock EXCEPT ![f] = Free] /\ held' = held \ {f}
       /\ asked' = [asked EXCEPT ![f] = "none"] /\ pushed' = [pushed EXCEPT ![f] = "none"]
       /\ given' = [given EXCEPT ![f] = {}]
       /\ mixed' = IF InCall(f) THEN mixed \cup {f} ELSE mixed
  /\ UNCHANGED <<build, started, me>>

-----------------------------------------------------------------------------

(* setsockopt; Solaris and Win32 do nothing.                               *)
Option(t, value, name) ==
  /\ Calls(t)
  /\ \E f \in held :
       /\ sock' = IF build \in {"solaris", "win32"} THEN sock
                  ELSE [sock EXCEPT ![f].option = value]
       /\ pushed' = [pushed EXCEPT ![f] = name]
  /\ UNCHANGED <<build, started, held, me, asked, given, mixed>>

spr_socket_nopush(t) == Option(t, TRUE, "nopush")

(* FreeBSD passes the first bytes of a function for the value 0.           *)
spr_socket_push(t) == Option(t, build = "freebsd", "push")

Mode(set) == IF set = {} THEN "blocking" ELSE "nonblocking"

(* A mode call has set the flags of descriptor f.                          *)
SetFlags(f, flags, set) ==
  /\ sock' = [sock EXCEPT ![f].flags = flags]
  /\ asked' = [asked EXCEPT ![f] = Mode(set)]

(* FIONBIO: the mode changes in one call.                                  *)
mode_ioctl(t, set) ==
  /\ Calls(t) /\ build # "linux"
  /\ \E f \in held : SetFlags(f, (sock[f].flags \ {"NONBLOCK"}) \cup set, set)
  /\ UNCHANGED <<build, started, held, me, pushed, given, mixed>>

(* F_GETFL, on a descriptor that may have been closed in the meantime: the *)
(* result -1 has all flags.                                                *)
mode_call(t, set) ==
  /\ Calls(t) /\ build = "linux"
  /\ \E f \in held :
       /\ me' = [me EXCEPT ![t] = [Idle EXCEPT !.pc = "get", !.fd = f, !.set = set,
                                               !.clear = {"NONBLOCK"} \ set]]
       /\ mixed' = IF InCall(f) THEN mixed \cup {f} ELSE mixed
  /\ UNCHANGED <<build, started, sock, held, asked, pushed, given>>

mode_get(t) ==
  /\ me[t].pc = "get"
  /\ me' = [me EXCEPT ![t].pc = "set",
                      ![t].flags = IF sock[me[t].fd] = Free THEN Flags ELSE sock[me[t].fd].flags]
  /\ UNCHANGED <<build, started, sock, held, calls, ghosts>>

(* Mutant: the other flags are dropped.                                    *)
ModeSetOnly(t) ==
  /\ me[t].pc = "set"
  /\ IF sock[me[t].fd] = Free THEN UNCHANGED <<sock, asked>>
     ELSE SetFlags(me[t].fd, me[t].set, me[t].set)
  /\ me' = [me EXCEPT ![t] = Idle]
  /\ UNCHANGED <<build, started, held, calls, pushed, given, mixed>>

(* F_SETFL, of whatever socket has the descriptor by now.                  *)
mode_set(t) ==
  /\ me[t].pc = "set"
  /\ IF sock[me[t].fd] = Free THEN UNCHANGED <<sock, asked>>
     ELSE SetFlags(me[t].fd, (me[t].flags \cup me[t].set) \ me[t].clear, me[t].set)
  /\ me' = [me EXCEPT ![t] = Idle]
  /\ UNCHANGED <<build, started, held, calls, pushed, given, mixed>>

spr_socket_nonblocking(t) == mode_ioctl(t, {"NONBLOCK"}) \/ mode_call(t, {"NONBLOCK"})
spr_socket_blocking(t)    == mode_ioctl(t, {}) \/ mode_call(t, {})

(* A call that fails returns an error and changes nothing.                 *)
CallFails(t) == Calls(t) /\ UNCHANGED <<build, started, sock, held, me, ghosts>>

Next ==
  \E t \in Threads :
    \/ spr_winsock_init_v22(t) \/ spr_socket_init(t) \/ spr_socket_accept(t)
    \/ spr_socket_bind(t) \/ spr_socket_listen(t) \/ spr_socket_connect(t)
    \/ spr_socket_shutdown(t) \/ spr_socket_close(t)
    \/ spr_socket_nopush(t) \/ spr_socket_push(t)
    \/ spr_socket_nonblocking(t) \/ spr_socket_blocking(t)
    \/ mode_get(t) \/ mode_set(t) \/ CallFails(t)

Spec == Init /\ [][Next]_vars

-----------------------------------------------------------------------------

(***************************************************************************)
(* Every variable has its type, and a socket that does not exist has       *)
(* neither flags nor options.                                              *)
(***************************************************************************)
TypeOK ==
  /\ build \in Builds /\ started \in BOOLEAN
  /\ sock \in [Fds -> [state: States, flags: SUBSET Flags, option: BOOLEAN]]
  /\ \A f \in Fds : sock[f].state = "free" => sock[f] = Free
  /\ me \in [Threads -> [pc: {"idle", "get", "set"}, fd: Fds, set: SUBSET {"NONBLOCK"},
                         clear: SUBSET {"NONBLOCK"}, flags: SUBSET Flags]]
  /\ calls \in [Threads -> 0..MaxCalls]
  /\ asked \in [Fds -> {"none", "blocking", "nonblocking"}]
  /\ pushed \in [Fds -> {"none", "nopush", "push"}]
  /\ given \in [Fds -> SUBSET Flags] /\ held \subseteq Fds /\ mixed \subseteq Fds

(***************************************************************************)
(* The program knows every socket that is open, and no other: none is lost *)
(* when a call fails, none is there on Win32 before spr_winsock_init_v22.  *)
(***************************************************************************)
NoneLost ==
  /\ {f \in Fds : sock[f] # Free} = held
  /\ build = "win32" /\ held # {} => started

(***************************************************************************)
(* Unless calls on it overlap, a socket is in the mode that the last call  *)
(* asked for, though Linux sets it in two steps.                           *)
(***************************************************************************)
ModeAsAsked ==
  \A f \in held \ mixed :
    asked[f] # "none" => (asked[f] = "nonblocking" <=> "NONBLOCK" \in sock[f].flags)

(***************************************************************************)
(* Unless calls on it overlap, a socket keeps its other flags in whatever  *)
(* mode it is put.  A mode call that is overtaken by a close may give all  *)
(* flags to a new socket with the same descriptor.                         *)
(***************************************************************************)
FlagsKept == \A f \in held \ mixed : sock[f].flags \ {"NONBLOCK"} = given[f]

(***************************************************************************)
(* spr_socket_push undoes spr_socket_nopush, except on FreeBSD, where the  *)
(* option stays set for good once either has been called; and a socket     *)
(* that is accepted has the option only from a listening one that has it.  *)
(***************************************************************************)
PushUndoes ==
  \A f \in held : sock[f].option =>
    \/ pushed[f] = "nopush"
    \/ build = "freebsd" /\ pushed[f] = "push"

(***************************************************************************)
(* No socket is lost, and none has fields that are not of their type.      *)
(***************************************************************************)
SocketsHeld == TypeOK /\ NoneLost

(***************************************************************************)
(* A socket has the mode and the options that were last asked for, and     *)
(* keeps everything else.                                                  *)
(***************************************************************************)
SetAsAsked == ModeAsAsked /\ FlagsKept /\ PushUndoes
=============================================================================
