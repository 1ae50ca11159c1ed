----------------------------- MODULE NetSockets -----------------------------
(***************************************************************************)
(* The socket calls of the game as the loader hooks them: socket_traced,   *)
(* connect_traced, getaddrinfo_traced and the tracked-descriptor table     *)
(* (source/dynlib.c), close_soloader and fcntl_soloader (reimpl/io.c).     *)
(* (ioctl_soloader, reimpl/ioctl.c, changes nothing: FIONBIO reports       *)
(* success and leaves the mode alone.)                                     *)
(*                                                                         *)
(* Threads interleave between the calls a hook makes.  A socket is used by *)
(* the thread that created it (curl's handles are not shared), but its     *)
(* number is free for anybody as soon as the real close() is done.  The    *)
(* Vita's network stack is external: descriptors, the O_NONBLOCK mode and  *)
(* the progress of a connection are modelled from how the hooks use them.  *)
(* errno is per thread; a hook stores it last, so it is part of the result.*)
(***************************************************************************)
EXTENDS Naturals, FiniteSets

CONSTANTS Threads,     \* the threads that use the network
          NoThread,    \* not a thread
          Fds,         \* the descriptor numbers of the process
          NoFd,        \* not a descriptor
          MaxTracked   \* GDASH_MAX_TRACKED_FDS

ASSUME NoThreadAssumption == NoThread \notin Threads
ASSUME FdsAssumption == Fds \subseteq Nat /\ NoFd \notin Fds
ASSUME MaxTrackedAssumption == MaxTracked \in Nat \ {0}

VARIABLES
    kind,      \* external: what a descriptor is open on, "free" if it is not
    owner,     \* the thread a descriptor belongs to
    nonblock,  \* external: the socket's SO_NONBLOCK option
    wanted,    \* history: the mode its owner last asked for
    conn,      \* external: the connection behind a socket
    g_net_hook_mutex,  \* its holder
    g_tracked_fds,     \* 0 for an empty slot, fd + 1 for a tracked fd
    pc,        \* where a thread is in a hook, "game" when outside
    op,        \* the hook it is in
    fd,        \* the hook's descriptor, argument or result
    ret,       \* the hook's result so far
    err        \* what the hook will leave in errno (sv_errno, conn_errno)

kernel == <<kind, owner, conn>>
mode   == <<nonblock, wanted>>
tables == <<g_net_hook_mutex, g_tracked_fds>>
frame  == <<op, fd, ret, err>>
local  == <<pc, frame>>
vars   == <<kernel, mode, tables, local>>

Slots  == 1..MaxTracked
Kinds  == {"free", "socket", "file"}
Conns  == {"idle", "pending", "up", "refused"}
Errors == {"none", "EMFILE", "EINPROGRESS", "ECONNREFUSED", "EALREADY",
           "EISCONN", "ETIMEDOUT"}
Hooks  == {"none", "socket", "connect", "getaddrinfo", "close"}
Places == {"game", "lock", "call", "track", "force", "poll", "soerror",
           "restore", "unlock", "untrack", "realclose"}

TypeOK ==
    /\ kind \in [Fds -> Kinds]
    /\ owner \in [Fds -> Threads \cup {NoThread}]
    /\ nonblock \in [Fds -> BOOLEAN]
    /\ wanted \in [Fds -> BOOLEAN]
    /\ conn \in [Fds -> Conns]
    /\ g_net_hook_mutex \in Threads \cup {NoThread}
    /\ g_tracked_fds \in [Slots -> Nat]
    /\ pc \in [Threads -> Places]
    /\ op \in [Threads -> Hooks]
    /\ fd \in [Threads -> Fds \cup {NoFd}]
    /\ ret \in [Threads -> {"ok", "fail"}]
    /\ err \in [Threads -> Errors]

Init ==
    /\ kind = [f \in Fds |-> "free"]
    /\ owner = [f \in Fds |-> NoThread]
    /\ nonblock = [f \in Fds |-> FALSE]
    /\ wanted = [f \in Fds |-> FALSE]
    /\ conn = [f \in Fds |-> "idle"]
    /\ g_net_hook_mutex = NoThread
    /\ g_tracked_fds = [i \in Slots |-> 0]
    /\ pc = [t \in Threads |-> "game"]
    /\ op = [t \in Threads |-> "none"]
    /\ fd = [t \in Threads |-> NoFd]
    /\ ret = [t \in Threads |-> "ok"]
    /\ err = [t \in Threads |-> "none"]

-----------------------------------------------------------------------------
(* The tracked-descriptor table.  Each operation is one critical section   *)
(* of g_tracked_fds_mutex, which nests nothing, hence one step.            *)

Holding(value) == {i \in Slots : g_tracked_fds[i] = value}
FirstOf(S) == CHOOSE i \in S : \A j \in S : i <= j

\* gdash_net_is_tracked_fd
Tracked(f) == Holding(f + 1) # {}

\* gdash_net_track_fd(f, 1).  The scan stops as "already tracked" at a slot
\* that holds f, the mark of descriptor f - 1 (or, for f = 0, no mark).
TrackFd(f) ==
    g_tracked_fds' =
        IF Holding(f) # {} \/ Holding(0) = {}
        THEN g_tracked_fds
        ELSE [g_tracked_fds EXCEPT ![FirstOf(Holding(0))] = f + 1]

\* Mutant: the slot holding f, as in the scan for "already tracked".
UntrackFd_Plain(f) ==
    g_tracked_fds' =
        IF Holding(f) # {}
        THEN [g_tracked_fds EXCEPT ![FirstOf(Holding(f))] = 0]
        ELSE g_tracked_fds

\* gdash_net_track_fd(f, 0)
UntrackFd(f) ==
    g_tracked_fds' =
        IF Tracked(f)
        THEN [g_tracked_fds EXCEPT ![FirstOf(Holding(f + 1))] = 0]
        ELSE g_tracked_fds

-----------------------------------------------------------------------------
(* Control.                                                                *)

At(t, place) == pc[t] = place
In(t, hook, place) == op[t] = hook /\ pc[t] = place
Goto(t, place) == pc' = [pc EXCEPT ![t] = place]

\* The frame of a hook is gone when it returns.
Return(t) ==
    /\ Goto(t, "game")
    /\ op' = [op EXCEPT ![t] = "none"]
    /\ fd' = [fd EXCEPT ![t] = NoFd]
    /\ ret' = [ret EXCEPT ![t] = "ok"]
    /\ err' = [err EXCEPT ![t] = "none"]

\* A hook is called; it starts by taking g_net_hook_mutex.
Enter(t, hook) ==
    /\ At(t, "game")
    /\ op' = [op EXCEPT ![t] = hook]
    /\ Goto(t, "lock")
    /\ UNCHANGED <<kernel, mode, tables, ret, err>>

Lock(t) ==
    /\ At(t, "lock")
    /\ g_net_hook_mutex = NoThread
    /\ g_net_hook_mutex' = t
    /\ Goto(t, IF op[t] = "connect" THEN "force" ELSE "call")
    /\ UNCHANGED <<kernel, mode, g_tracked_fds, frame>>

Unlock(t) ==
    /\ At(t, "unlock")
    /\ g_net_hook_mutex' = NoThread
    /\ Return(t)
    /\ UNCHANGED <<kernel, mode, g_tracked_fds>>

-----------------------------------------------------------------------------
(* socket_traced                                                           *)

SocketEnter(t) == Enter(t, "socket") /\ UNCHANGED fd

SocketCall(t) ==
    /\ In(t, "socket", "call")
    /\ \/ \E f \in Fds :
            /\ kind[f] = "free"
            /\ kind' = [kind EXCEPT ![f] = "socket"]
            /\ owner' = [owner EXCEPT ![f] = t]
            /\ conn' = [conn EXCEPT ![f] = "idle"]
            /\ nonblock' = [nonblock EXCEPT ![f] = FALSE]
            /\ wanted' = [wanted EXCEPT ![f] = FALSE]
            /\ fd' = [fd EXCEPT ![t] = f]
            /\ ret' = [ret EXCEPT ![t] = "ok"]
            /\ Goto(t, "track")
            /\ UNCHANGED err
       \/ /\ \A f \in Fds : kind[f] # "free"
          /\ ret' = [ret EXCEPT ![t] = "fail"]
          /\ err' = [err EXCEPT ![t] = "EMFILE"]
          /\ Goto(t, "unlock")
          /\ UNCHANGED <<kernel, mode, fd>>
    /\ UNCHANGED <<tables, op>>

SocketTrack(t) ==
    /\ In(t, "socket", "track")
    /\ TrackFd(fd[t])
    /\ Goto(t, "unlock")
    /\ UNCHANGED <<kernel, mode, g_net_hook_mutex, frame>>

-----------------------------------------------------------------------------
(* connect_traced                                                          *)

ConnectEnter(t) ==
    \E f \in Fds :
        /\ kind[f] = "socket"
        /\ owner[f] = t
        /\ Enter(t, "connect")
        /\ fd' = [fd EXCEPT ![t] = f]

\* setsockopt(SO_NONBLOCK, 1)
ConnectForce(t) ==
    /\ In(t, "connect", "force")
    /\ nonblock' = [nonblock EXCEPT ![fd[t]] = TRUE]
    /\ Goto(t, "call")
    /\ UNCHANGED <<kernel, wanted, tables, frame>>

\* The real connect() on a non-blocking socket, by the socket's state.
ConnectCall(t) ==
    /\ In(t, "connect", "call")
    /\ \/ /\ conn[fd[t]] \in {"idle", "refused"}
          /\ \/ /\ conn' = [conn EXCEPT ![fd[t]] = "up"]
                /\ ret' = [ret EXCEPT ![t] = "ok"]
                /\ Goto(t, "restore")
                /\ UNCHANGED err
             \/ /\ conn' = [conn EXCEPT ![fd[t]] = "refused"]
                /\ ret' = [ret EXCEPT ![t] = "fail"]
                /\ err' = [err EXCEPT ![t] = "ECONNREFUSED"]
                /\ Goto(t, "restore")
             \/ /\ conn' = [conn EXCEPT ![fd[t]] = "pending"]
                /\ ret' = [ret EXCEPT ![t] = "fail"]
                /\ err' = [err EXCEPT ![t] = "EINPROGRESS"]
                /\ Goto(t, "poll")
       \/ /\ conn[fd[t]] \in {"pending", "up"}
          /\ ret' = [ret EXCEPT ![t] = "fail"]
          /\ err' = [err EXCEPT ![t] =
                        IF conn[fd[t]] = "up" THEN "EISCONN" ELSE "EALREADY"]
          /\ Goto(t, "restore")
          /\ UNCHANGED conn
    /\ UNCHANGED <<kind, owner, mode, tables, op, fd>>

\* poll() returns because the connection was decided, with POLLOUT ...
PollWritable(t) ==
    /\ In(t, "connect", "poll")
    /\ conn[fd[t]] # "pending"
    /\ Goto(t, "soerror")
    /\ UNCHANGED <<kernel, mode, tables, frame>>

\* Mutant: an early exit that skips the restoration of the mode.
PollOtherwise_Keeps(t) ==
    /\ In(t, "connect", "poll")
    /\ conn[fd[t]] # "up"
    /\ ret' = [ret EXCEPT ![t] = "fail"]
    /\ err' = [err EXCEPT ![t] = "ETIMEDOUT"]
    /\ Goto(t, "unlock")
    /\ UNCHANGED <<kernel, mode, tables, op, fd>>

\* Mutant: an early return that skips the unlock as well.
PollOtherwise_Returns(t) ==
    /\ In(t, "connect", "poll")
    /\ conn[fd[t]] # "up"
    /\ Return(t)
    /\ UNCHANGED <<kernel, mode, tables>>

\* ... or after its eight seconds, or with an event other than POLLOUT.
PollOtherwise(t) ==
    /\ In(t, "connect", "poll")
    /\ conn[fd[t]] # "up"
    /\ ret' = [ret EXCEPT ![t] = "fail"]
    /\ err' = [err EXCEPT ![t] = "ETIMEDOUT"]
    /\ Goto(t, "restore")
    /\ UNCHANGED <<kernel, mode, tables, op, fd>>

\* Mutant: POLLOUT is taken for success, SO_ERROR is not asked for.
ConnectError_Unasked(t) ==
    /\ In(t, "connect", "soerror")
    /\ ret' = [ret EXCEPT ![t] = "ok"]
    /\ Goto(t, "restore")
    /\ UNCHANGED <<kernel, mode, tables, op, fd, err>>

\* getsockopt(SO_ERROR).  conn_errno is left alone on success.
ConnectError(t) ==
    /\ In(t, "connect", "soerror")
    /\ IF conn[fd[t]] = "up"
       THEN /\ ret' = [ret EXCEPT ![t] = "ok"]
            /\ UNCHANGED err
       ELSE /\ ret' = [ret EXCEPT ![t] = "fail"]
            /\ err' = [err EXCEPT ![t] = "ECONNREFUSED"]
    /\ Goto(t, "restore")
    /\ UNCHANGED <<kernel, mode, tables, op, fd>>

\* setsockopt(SO_NONBLOCK, 0), on every path.
ConnectRestore(t) ==
    /\ In(t, "connect", "restore")
    /\ nonblock' = [nonblock EXCEPT ![fd[t]] = FALSE]
    /\ Goto(t, "unlock")
    /\ UNCHANGED <<kernel, wanted, tables, frame>>

-----------------------------------------------------------------------------
(* getaddrinfo_traced                                                      *)

ResolveEnter(t) == Enter(t, "getaddrinfo") /\ UNCHANGED fd

ResolveCall(t) ==
    /\ In(t, "getaddrinfo", "call")
    /\ Goto(t, "unlock")
    /\ UNCHANGED <<kernel, mode, tables, frame>>

-----------------------------------------------------------------------------
(* close_soloader: untrack first, then the real close().                   *)

CloseEnter(t) ==
    /\ At(t, "game")
    /\ \E f \in Fds :
        /\ owner[f] = t
        /\ fd' = [fd EXCEPT ![t] = f]
    /\ op' = [op EXCEPT ![t] = "close"]
    /\ Goto(t, "untrack")
    /\ UNCHANGED <<kernel, mode, tables, ret, err>>

CloseUntrack(t) ==
    /\ In(t, "close", "untrack")
    /\ UntrackFd(fd[t])
    /\ Goto(t, "realclose")
    /\ UNCHANGED <<kernel, mode, g_net_hook_mutex, frame>>

CloseCall(t) ==
    /\ In(t, "close", "realclose")
    /\ kind' = [kind EXCEPT ![fd[t]] = "free"]
    /\ owner' = [owner EXCEPT ![fd[t]] = NoThread]
    /\ conn' = [conn EXCEPT ![fd[t]] = "idle"]
    /\ nonblock' = [nonblock EXCEPT ![fd[t]] = FALSE]
    /\ wanted' = [wanted EXCEPT ![fd[t]] = FALSE]
    /\ Return(t)
    /\ UNCHANGED tables

-----------------------------------------------------------------------------
(* fcntl_soloader                                                          *)

\* fcntl(f, F_SETFL, arg): on a socket, the SO_NONBLOCK option.
SetFlags(t) ==
    /\ At(t, "game")
    /\ \E f \in Fds, b \in BOOLEAN :
        /\ kind[f] = "socket"
        /\ owner[f] = t
        /\ nonblock' = [nonblock EXCEPT ![f] = b]
        /\ wanted' = [wanted EXCEPT ![f] = b]
    /\ UNCHANGED <<kernel, tables, local>>

-----------------------------------------------------------------------------
(* External: the network, and files that share the descriptor numbers.     *)

Decide(f) ==
    /\ conn[f] = "pending"
    /\ \E outcome \in {"up", "refused"} : conn' = [conn EXCEPT ![f] = outcome]
    /\ UNCHANGED <<kind, owner, mode, tables, local>>

OpenFile(t) ==
    /\ At(t, "game")
    /\ \E f \in Fds :
        /\ kind[f] = "free"
        /\ kind' = [kind EXCEPT ![f] = "file"]
        /\ owner' = [owner EXCEPT ![f] = t]
    /\ UNCHANGED <<conn, mode, tables, local>>

-----------------------------------------------------------------------------
Socket(t)  == SocketCall(t) \/ SocketTrack(t)
Connect(t) == \/ ConnectForce(t) \/ ConnectCall(t) \/ PollWritable(t)
              \/ PollOtherwise(t) \/ ConnectError(t) \/ ConnectRestore(t)
Close(t)   == CloseUntrack(t) \/ CloseCall(t)

\* A thread inside a hook, past the mutex, goes on.
Continue(t) == Socket(t) \/ Connect(t) \/ ResolveCall(t) \/ Close(t) \/ Unlock(t)

\* The game calls a hook.
Start(t) == \/ SocketEnter(t) \/ ConnectEnter(t) \/ ResolveEnter(t)
            \/ CloseEnter(t) \/ SetFlags(t) \/ OpenFile(t)

Next == \/ \E t \in Threads : Start(t) \/ Lock(t) \/ Continue(t)
        \/ \E f \in Fds : Decide(f)

Spec == Init /\ [][Next]_vars

\* A real call returns (poll after eight seconds at the latest), the
\* scheduler runs every thread, and the kernel hands the mutex to each waiter.
Fairness == \A t \in Threads : WF_vars(Continue(t)) /\ SF_vars(Lock(t))

FairSpec == Spec /\ Fairness

-----------------------------------------------------------------------------
(* Properties.                                                             *)

\* A slot never names a descriptor that is closed, or that was closed and
\* came back as a file: close_soloader untracks before the real close() gives
\* the number away, and read_traced and write_traced log by number alone.
NoStaleTracking == \A f \in Fds : Tracked(f) => kind[f] = "socket"

Inside(t) == pc[t] \in {"call", "track", "force", "poll", "soerror",
                        "restore", "unlock"}

\* No two threads are ever inside socket, connect and getaddrinfo together,
\* on any path through them: the serialisation dynlib.c installs against the
\* OpenSSL initialisation race.
HooksSerialized ==
    \A t \in Threads : Inside(t) =>
        g_net_hook_mutex = t /\ \A u \in Threads : Inside(u) => u = t

\* What connect_traced tells its caller is settled: success means the socket
\* is connected, failure carries a cause and never EINPROGRESS, whatever the
\* network decides between the poll, the SO_ERROR query and the return.
ConnectAnswer ==
    \A t \in Threads : In(t, "connect", "unlock") =>
        IF ret[t] = "ok" THEN conn[fd[t]] = "up"
                         ELSE err[t] \notin {"none", "EINPROGRESS"}

Forced(f) == \E t \in Threads :
    fd[t] = f /\ op[t] = "connect" /\ pc[t] \in {"call", "poll", "soerror", "restore"}

\* The non-blocking mode connect_traced imposes never outlives the call, on
\* its time-out and error paths either: a socket is non-blocking only while
\* it connects or because its owner said so.
ForcedModeTransient ==
    \A f \in Fds : nonblock[f] => wanted[f] \/ Forced(f)

\* Every hook returns: a connection that is never decided ends in the
\* eight-second bound of connect_traced, no path keeps g_net_hook_mutex, and
\* so no other thread waits for ever behind it.
EveryHookReturns == \A t \in Threads : pc[t] # "game" ~> pc[t] = "game"

\* The comment at the end of connect_traced: later send()/recv() calls find
\* the mode the caller originally set.
ConnectKeepsMode ==
    \A t \in Threads : In(t, "connect", "unlock") =>
        nonblock[fd[t]] = wanted[fd[t]]
=============================================================================
