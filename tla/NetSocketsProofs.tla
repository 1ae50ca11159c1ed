-------------------------- MODULE NetSocketsProofs --------------------------
(***************************************************************************)
(* For every number of threads, descriptors and slots of the table: the    *)
(* types of NetSockets, that its hooks are serialised, that connect's      *)
(* forced mode is transient and its answers settled, and that the table of *)
(* tracked descriptors never names a closed one.  For any addresses,       *)
(* options, flags and vectors, that NetNames translates each to what it    *)
(* meant and that a gathering write sends a start of what it was given.    *)
(***************************************************************************)
EXTENDS NetSockets, NetNames, FiniteSetTheorems, TLAPS

\* A set of slots has a first one.
LEMMA FirstExists ==
    ASSUME NEW S, S \subseteq Slots, S # {}
    PROVE  FirstOf(S) \in S /\ \A j \in S : FirstOf(S) <= j
<1> DEFINE R == OpToRel(<, Nat)
<1>1. S \subseteq Nat
  BY MaxTrackedAssumption DEF Slots
<1>2. \A x, y \in Nat : <<x, y>> \in R <=> x < y
  BY DEF OpToRel
<1>3. IsWellFoundedOn(R, Nat)
  BY NatLessThanWellFounded
<1> HIDE DEF R
<1>4. \E x \in S : \A y \in S : ~ (<<y, x>> \in R)
  BY <1>1, <1>3, WFMin, Zenon
<1>5. PICK x \in S : \A y \in S : ~ (<<y, x>> \in R)
  BY <1>4
<1>6. \A y \in S : ~(y < x)
  BY <1>1, <1>2, <1>5, Zenon
<1>7. \A y \in S : x <= y
  BY <1>1, <1>6
<1> QED
  BY <1>7 DEF FirstOf

\* What gdash_net_track_fd does to the table, for addition and for removal.
LEMMA TrackEffect ==
    ASSUME NEW f, TrackFd(f)
    PROVE  \/ UNCHANGED g_tracked_fds
           \/ \E s \in Slots : /\ g_tracked_fds[s] = 0
                               /\ g_tracked_fds' = [g_tracked_fds EXCEPT ![s] = f + 1]
<1>1. Holding(0) # {} => FirstOf(Holding(0)) \in Holding(0)
  BY FirstExists DEF Holding
<1> QED
  BY <1>1 DEF TrackFd, Holding

LEMMA UntrackEffect ==
    ASSUME NEW f, UntrackFd(f)
    PROVE  \/ ~Tracked(f) /\ UNCHANGED g_tracked_fds
           \/ \E s \in Slots : /\ g_tracked_fds[s] = f + 1
                               /\ g_tracked_fds' = [g_tracked_fds EXCEPT ![s] = 0]
<1>1. Tracked(f) => FirstOf(Holding(f + 1)) \in Holding(f + 1)
  BY FirstExists DEF Holding, Tracked
<1> QED
  BY <1>1 DEF UntrackFd, Holding

\* A hook that is about to use its descriptor.
UsesFd(t) == op[t] \in {"connect", "close"} \/ In(t, "socket", "track")

\* Types, with one fact they depend on: who uses a descriptor has one.
Typed == TypeOK /\ \A t \in Threads : UsesFd(t) => fd[t] \in Fds

LEMMA TypedInvariant == Spec => []Typed
<1> USE DEF TypeOK, Typed, UsesFd, Kinds, Conns, Errors, Hooks, Places, Slots
<1>1. Init => Typed
  BY DEF Init, In
<1>2. Typed /\ [Next]_vars => Typed'
  <2> SUFFICES ASSUME Typed, [Next]_vars
               PROVE  Typed'
    OBVIOUS
  <2> USE FdsAssumption
      DEF kernel, mode, tables, frame, local, At, In, Goto, Return, Enter
  <2>1. ASSUME NEW t \in Threads, Start(t) PROVE Typed'
    <3>1. CASE SocketEnter(t) \/ ConnectEnter(t) \/ ResolveEnter(t)
      BY <3>1 DEF SocketEnter, ConnectEnter, ResolveEnter
    <3>2. CASE CloseEnter(t)
      BY <3>2 DEF CloseEnter
    <3>3. CASE SetFlags(t)
      BY <3>3 DEF SetFlags
    <3>4. CASE OpenFile(t)
      BY <3>4 DEF OpenFile
    <3> QED
      BY <2>1, <3>1, <3>2, <3>3, <3>4 DEF Start
  <2>2. ASSUME NEW t \in Threads, Lock(t) PROVE Typed'
    BY <2>2 DEF Lock
  <2>3. ASSUME NEW t \in Threads, Continue(t) PROVE Typed'
    <3>1. CASE SocketCall(t)
      <4>1. CASE \E f \in Fds : kind[f] = "free"
        <5>1. PICK f \in Fds :
                /\ kind' = [kind EXCEPT ![f] = "socket"]
                /\ owner' = [owner EXCEPT ![f] = t]
                /\ conn' = [conn EXCEPT ![f] = "idle"]
                /\ nonblock' = [nonblock EXCEPT ![f] = FALSE]
                /\ wanted' = [wanted EXCEPT ![f] = FALSE]
                /\ fd' = [fd EXCEPT ![t] = f]
                /\ ret' = [ret EXCEPT ![t] = "ok"]
                /\ Goto(t, "track")
                /\ UNCHANGED err
          BY <3>1, <4>1 DEF SocketCall
        <5>2. /\ kind' \in [Fds -> Kinds] /\ conn' \in [Fds -> Conns]
              /\ owner' \in [Fds -> Threads \cup {NoThread}]
              /\ nonblock' \in [Fds -> BOOLEAN] /\ wanted' \in [Fds -> BOOLEAN]
          BY <5>1
        <5>3. /\ pc' \in [Threads -> Places] /\ fd' \in [Threads -> Fds \cup {NoFd}]
              /\ ret' \in [Threads -> {"ok", "fail"}]
          BY <5>1
        <5>4. UNCHANGED <<tables, op, err>>
          BY <3>1, <5>1 DEF SocketCall
        <5>5. \A u \in Threads : UsesFd(u)' => fd'[u] \in Fds
          BY <5>1, <5>4
        <5> QED
          BY <5>2, <5>3, <5>4, <5>5
      <4>2. CASE ~ \E f \in Fds : kind[f] = "free"
        BY <3>1, <4>2 DEF SocketCall
      <4> QED
        BY <4>1, <4>2
    <3>2. CASE SocketTrack(t)
      <4>0. fd[t] \in Fds
        BY <3>2 DEF SocketTrack
      <4>1. fd[t] + 1 \in Nat
        <5>1. fd[t] \in Nat
          BY <4>0
        <5> QED
          BY ONLY <5>1
      <4>2. g_tracked_fds' \in [Slots -> Nat]
        BY <3>2, <4>1, TrackEffect DEF SocketTrack
      <4> QED
        BY <3>2, <4>2 DEF SocketTrack
    <3>3. CASE ConnectForce(t) \/ ConnectRestore(t)
      <4>1. CASE ConnectForce(t)
        BY <4>1 DEF ConnectForce
      <4>2. CASE ConnectRestore(t)
        BY <4>2 DEF ConnectRestore
      <4> QED
        BY <3>3, <4>1, <4>2
    <3>4. CASE ConnectCall(t)
      BY <3>4 DEF ConnectCall
    <3>5. CASE PollWritable(t) \/ PollOtherwise(t) \/ ConnectError(t)
      BY <3>5 DEF PollWritable, PollOtherwise, ConnectError
    <3>6. CASE CloseUntrack(t)
      <4>1. g_tracked_fds' \in [Slots -> Nat]
        BY <3>6, UntrackEffect DEF CloseUntrack
      <4> QED
        BY <3>6, <4>1 DEF CloseUntrack
    <3>7. CASE CloseCall(t)
      BY <3>7 DEF CloseCall
    <3>8. CASE ResolveCall(t) \/ Unlock(t)
      BY <3>8 DEF ResolveCall, Unlock
    <3> QED
      BY <2>3, <3>1, <3>2, <3>3, <3>4, <3>5, <3>6, <3>7, <3>8
         DEF Continue, Socket, Connect, Close
  <2>4. ASSUME NEW f \in Fds, Decide(f) PROVE Typed'
    BY <2>4 DEF Decide
  <2>5. CASE UNCHANGED vars
    BY <2>5 DEF vars
  <2> QED
    BY <2>1, <2>2, <2>3, <2>4, <2>5 DEF Next
<1> QED
  BY <1>1, <1>2, PTL DEF Spec

\* The variables of the hooks and of the network behind them keep their types.
THEOREM TypeCorrect == Spec => []TypeOK
  BY TypedInvariant, PTL DEF Typed

-----------------------------------------------------------------------------
\* One thread at a time is inside socket, connect and getaddrinfo.  The
\* invariant is HooksSerialized itself: whoever is inside holds the mutex.
THEOREM Serialized == Spec => []HooksSerialized
<1> USE DEF HooksSerialized, Inside
<1>1. Init => HooksSerialized
  BY DEF Init
<1>2. Typed /\ HooksSerialized /\ [Next]_vars => HooksSerialized'
  <2> SUFFICES ASSUME Typed, HooksSerialized, [Next]_vars
               PROVE  HooksSerialized'
    OBVIOUS
  <2>0. pc \in [Threads -> Places] /\ fd \in [Threads -> Fds \cup {NoFd}]
    BY DEF Typed, TypeOK
  <2> USE <2>0, NoThreadAssumption DEF tables, local, At, In, Goto, Return, Enter
  <2>1. ASSUME NEW t \in Threads, Start(t) PROVE HooksSerialized'
    BY <2>1 DEF Start, SocketEnter, ConnectEnter, ResolveEnter, CloseEnter,
                SetFlags, OpenFile
  <2>2. ASSUME NEW t \in Threads, Lock(t) PROVE HooksSerialized'
    BY <2>2 DEF Lock
  <2>3. ASSUME NEW t \in Threads, Continue(t) PROVE HooksSerialized'
    <3>1. CASE Socket(t)
      BY <3>1 DEF Socket, SocketCall, SocketTrack
    <3>2. CASE Connect(t)
      BY <3>2 DEF Connect, ConnectForce, ConnectCall, PollWritable, PollOtherwise,
                  ConnectError, ConnectRestore
    <3>3. CASE ResolveCall(t) \/ Close(t)
      BY <3>3 DEF ResolveCall, Close, CloseUntrack, CloseCall
    <3>4. CASE Unlock(t)
      BY <3>4 DEF Unlock
    <3> QED
      BY <2>3, <3>1, <3>2, <3>3, <3>4 DEF Continue
  <2>4. ASSUME NEW f \in Fds, Decide(f) PROVE HooksSerialized'
    BY <2>4 DEF Decide
  <2>5. CASE UNCHANGED vars
    BY <2>5 DEF vars
  <2> QED
    BY <2>1, <2>2, <2>3, <2>4, <2>5 DEF Next
<1> QED
  BY <1>1, <1>2, TypedInvariant, PTL DEF Spec

\* A thread about to use a descriptor owns it, and what is free has no owner:
\* the number cannot be given to another thread before the real close().
OwnsFd == \A t \in Threads : UsesFd(t) =>
    owner[fd[t]] = t /\ (op[t] # "close" => kind[fd[t]] = "socket")
FreeIsUnowned == \A f \in Fds : kind[f] = "free" => owner[f] = NoThread
Ownership == OwnsFd /\ FreeIsUnowned

LEMMA OwnershipInvariant == Spec => []Ownership
<1> USE DEF Ownership, OwnsFd, FreeIsUnowned, UsesFd
<1>1. Init => Ownership
  BY DEF Init, In
<1>2. Typed /\ Ownership /\ [Next]_vars => Ownership'
  <2> SUFFICES ASSUME Typed, Ownership, [Next]_vars
               PROVE  Ownership'
    OBVIOUS
  <2>0. /\ pc \in [Threads -> Places] /\ op \in [Threads -> Hooks]
        /\ fd \in [Threads -> Fds \cup {NoFd}]
        /\ kind \in [Fds -> Kinds] /\ owner \in [Fds -> Threads \cup {NoThread}]
        /\ \A t \in Threads : UsesFd(t) => fd[t] \in Fds
    BY DEF Typed, TypeOK
  <2> USE <2>0, NoThreadAssumption
      DEF kernel, frame, local, At, In, Goto, Return, Enter
  <2>1. ASSUME NEW t \in Threads, Start(t) PROVE Ownership'
    <3>1. CASE SocketEnter(t) \/ ConnectEnter(t) \/ ResolveEnter(t)
      BY <3>1 DEF SocketEnter, ConnectEnter, ResolveEnter
    <3>2. CASE CloseEnter(t)
      BY <3>2 DEF CloseEnter
    <3>3. CASE SetFlags(t)
      BY <3>3 DEF SetFlags
    <3>4. CASE OpenFile(t)
      BY <3>4 DEF OpenFile
    <3> QED
      BY <2>1, <3>1, <3>2, <3>3, <3>4 DEF Start
  <2>2. ASSUME NEW t \in Threads, Lock(t) PROVE Ownership'
    BY <2>2 DEF Lock
  <2>3. ASSUME NEW t \in Threads, Continue(t) PROVE Ownership'
    <3>1. CASE SocketCall(t)
      BY <3>1 DEF SocketCall
    <3>2. CASE SocketTrack(t)
      BY <3>2 DEF SocketTrack
    <3>3. CASE ConnectForce(t) \/ ConnectCall(t) \/ ConnectRestore(t)
      BY <3>3 DEF ConnectForce, ConnectCall, ConnectRestore
    <3>4. CASE PollWritable(t) \/ PollOtherwise(t) \/ ConnectError(t)
      BY <3>4 DEF PollWritable, PollOtherwise, ConnectError
    <3>5. CASE CloseUntrack(t)
      BY <3>5 DEF CloseUntrack
    <3>6. CASE CloseCall(t)
      BY <3>6 DEF CloseCall
    <3>7. CASE ResolveCall(t) \/ Unlock(t)
      BY <3>7 DEF ResolveCall, Unlock
    <3> QED
      BY <2>3, <3>1, <3>2, <3>3, <3>4, <3>5, <3>6, <3>7
         DEF Continue, Socket, Connect, Close
  <2>4. ASSUME NEW f \in Fds, Decide(f) PROVE Ownership'
    BY <2>4 DEF Decide
  <2>5. CASE UNCHANGED vars
    BY <2>5 DEF vars
  <2> QED
    BY <2>1, <2>2, <2>3, <2>4, <2>5 DEF Next
<1> QED
  BY <1>1, <1>2, TypedInvariant, PTL DEF Spec

-----------------------------------------------------------------------------
\* The non-blocking mode that connect imposes ends with the call, on every path
\* of connect_traced and whatever other threads do to other descriptors.
THEOREM ModeTransient == Spec => []ForcedModeTransient
<1> USE DEF ForcedModeTransient, Forced
<1>1. Init => ForcedModeTransient
  BY DEF Init
<1>2. Typed /\ ForcedModeTransient /\ [Next]_vars => ForcedModeTransient'
  <2> SUFFICES ASSUME Typed, ForcedModeTransient, [Next]_vars
               PROVE  ForcedModeTransient'
    OBVIOUS
  <2>0. /\ pc \in [Threads -> Places] /\ op \in [Threads -> Hooks]
        /\ fd \in [Threads -> Fds \cup {NoFd}]
        /\ nonblock \in [Fds -> BOOLEAN] /\ wanted \in [Fds -> BOOLEAN]
        /\ \A t \in Threads : op[t] = "connect" => fd[t] \in Fds
    BY DEF Typed, TypeOK, UsesFd
  <2> USE <2>0 DEF mode, frame, local, At, In, Goto, Return, Enter
  <2>1. ASSUME NEW t \in Threads, Start(t) PROVE ForcedModeTransient'
    <3>1. CASE SocketEnter(t) \/ ConnectEnter(t) \/ ResolveEnter(t)
      BY <3>1 DEF SocketEnter, ConnectEnter, ResolveEnter
    <3>2. CASE CloseEnter(t)
      BY <3>2 DEF CloseEnter
    <3>3. CASE SetFlags(t)
      BY <3>3 DEF SetFlags
    <3>4. CASE OpenFile(t)
      BY <3>4 DEF OpenFile
    <3> QED
      BY <2>1, <3>1, <3>2, <3>3, <3>4 DEF Start
  <2>2. ASSUME NEW t \in Threads, Lock(t) PROVE ForcedModeTransient'
    BY <2>2 DEF Lock
  <2>3. ASSUME NEW t \in Threads, Continue(t) PROVE ForcedModeTransient'
    <3>1. CASE SocketCall(t)
      BY <3>1 DEF SocketCall
    <3>2. CASE SocketTrack(t)
      BY <3>2 DEF SocketTrack
    <3>3. CASE ConnectForce(t)
      BY <3>3 DEF ConnectForce
    <3>4. CASE ConnectCall(t)
      BY <3>4 DEF ConnectCall
    <3>5. CASE PollWritable(t) \/ PollOtherwise(t) \/ ConnectError(t)
      BY <3>5 DEF PollWritable, PollOtherwise, ConnectError
    <3>6. CASE ConnectRestore(t)
      BY <3>6 DEF ConnectRestore
    <3>7. CASE CloseUntrack(t)
      BY <3>7 DEF CloseUntrack
    <3>8. CASE CloseCall(t)
      BY <3>8 DEF CloseCall
    <3>9. CASE ResolveCall(t) \/ Unlock(t)
      BY <3>9 DEF ResolveCall, Unlock
    <3> QED
      BY <2>3, <3>1, <3>2, <3>3, <3>4, <3>5, <3>6, <3>7, <3>8, <3>9
         DEF Continue, Socket, Connect, Close
  <2>4. ASSUME NEW f \in Fds, Decide(f) PROVE ForcedModeTransient'
    BY <2>4 DEF Decide
  <2>5. CASE UNCHANGED vars
    BY <2>5 DEF vars
  <2> QED
    BY <2>1, <2>2, <2>3, <2>4, <2>5 DEF Next
<1> QED
  BY <1>1, <1>2, TypedInvariant, PTL DEF Spec

\* The answer of connect is settled from the moment the last question to the
\* network was asked, not only when the call returns.
Settled == \A t \in Threads :
    op[t] = "connect" /\ pc[t] \in {"restore", "unlock"} =>
        IF ret[t] = "ok" THEN conn[fd[t]] = "up"
                         ELSE err[t] \notin {"none", "EINPROGRESS"}

LEMMA SettledInvariant == Spec => []Settled
<1> USE DEF Settled
<1>1. Init => Settled
  BY DEF Init
<1>2. Typed /\ Ownership /\ Settled /\ [Next]_vars => Settled'
  <2> SUFFICES ASSUME Typed, Ownership, Settled, [Next]_vars
               PROVE  Settled'
    OBVIOUS
  <2>0. /\ pc \in [Threads -> Places] /\ op \in [Threads -> Hooks]
        /\ fd \in [Threads -> Fds \cup {NoFd}] /\ conn \in [Fds -> Conns]
        /\ kind \in [Fds -> Kinds]
        /\ ret \in [Threads -> {"ok", "fail"}] /\ err \in [Threads -> Errors]
        /\ \A t \in Threads : op[t] \in {"connect", "close"} => fd[t] \in Fds
    BY DEF Typed, TypeOK, UsesFd
  <2>00. \A t \in Threads : op[t] \in {"connect", "close"} =>
            owner[fd[t]] = t /\ (op[t] = "connect" => kind[fd[t]] = "socket")
    BY DEF Ownership, OwnsFd, UsesFd
  <2> USE <2>0, <2>00 DEF kernel, frame, local, At, In, Goto, Return, Enter
  <2>1. ASSUME NEW t \in Threads, Start(t) PROVE Settled'
    <3>1. CASE SocketEnter(t) \/ ConnectEnter(t) \/ ResolveEnter(t)
      BY <3>1 DEF SocketEnter, ConnectEnter, ResolveEnter
    <3>2. CASE CloseEnter(t)
      BY <3>2 DEF CloseEnter
    <3>3. CASE SetFlags(t)
      BY <3>3 DEF SetFlags
    <3>4. CASE OpenFile(t)
      BY <3>4 DEF OpenFile
    <3> QED
      BY <2>1, <3>1, <3>2, <3>3, <3>4 DEF Start
  <2>2. ASSUME NEW t \in Threads, Lock(t) PROVE Settled'
    BY <2>2 DEF Lock
  <2>3. ASSUME NEW t \in Threads, Continue(t) PROVE Settled'
    <3>1. CASE SocketCall(t)
      BY <3>1 DEF SocketCall
    <3>2. CASE SocketTrack(t)
      BY <3>2 DEF SocketTrack
    <3>3. CASE ConnectForce(t)
      BY <3>3 DEF ConnectForce
    <3>4. CASE ConnectCall(t)
      BY <3>4 DEF ConnectCall
    <3>5. CASE PollWritable(t) \/ PollOtherwise(t)
      BY <3>5 DEF PollWritable, PollOtherwise
    <3>6. CASE ConnectError(t)
      BY <3>6 DEF ConnectError
    <3>7. CASE ConnectRestore(t)
      BY <3>7 DEF ConnectRestore
    <3>8. CASE CloseUntrack(t)
      BY <3>8 DEF CloseUntrack
    <3>9. CASE CloseCall(t)
      BY <3>9 DEF CloseCall
    <3>10. CASE ResolveCall(t) \/ Unlock(t)
      BY <3>10 DEF ResolveCall, Unlock
    <3> QED
      BY <2>3, <3>1, <3>2, <3>3, <3>4, <3>5, <3>6, <3>7, <3>8, <3>9, <3>10
         DEF Continue, Socket, Connect, Close
  <2>4. ASSUME NEW f \in Fds, Decide(f) PROVE Settled'
    BY <2>4 DEF Decide
  <2>5. CASE UNCHANGED vars
    BY <2>5 DEF vars
  <2> QED
    BY <2>1, <2>2, <2>3, <2>4, <2>5 DEF Next
<1> QED
  BY <1>1, <1>2, TypedInvariant, OwnershipInvariant, PTL DEF Spec

\* What connect_traced tells its caller is settled, whatever the network
\* decides between the poll, the SO_ERROR query and the return.
THEOREM AnswerSettled == Spec => []ConnectAnswer
<1>1. Settled => ConnectAnswer
  BY DEF Settled, ConnectAnswer, In
<1> QED
  BY <1>1, SettledInvariant, PTL

-----------------------------------------------------------------------------
\* The table marks a descriptor at most once, marks sockets only, does not yet
\* know a socket that is being made, and has forgotten one whose real close()
\* is still to come: that last gap is what makes the order of close matter.
MarkedOnce == \A i, j \in Slots :
    g_tracked_fds[i] = g_tracked_fds[j] /\ g_tracked_fds[i] # 0 => i = j
Marks(f) == \E i \in Slots : g_tracked_fds[i] = f + 1
BetweenCalls(t) == In(t, "socket", "track") \/ In(t, "close", "realclose")
SocketsOnly == \A f \in Fds : Marks(f) => kind[f] = "socket"
Unmarked == \A t \in Threads : BetweenCalls(t) => ~Marks(fd[t])
Table == MarkedOnce /\ SocketsOnly /\ Unmarked

LEMMA TrackedIsMarked == ASSUME NEW f PROVE Tracked(f) <=> Marks(f)
  BY DEF Tracked, Holding, Marks

\* A step that leaves the table alone, and does not free or reopen a marked
\* descriptor, keeps the facts about it.
LEMMA TableKept ==
    ASSUME Table, UNCHANGED g_tracked_fds,
           \A f \in Fds : Marks(f) => kind'[f] = "socket",
           \A t \in Threads : BetweenCalls(t)' => ~Marks(fd'[t])
    PROVE  Table'
  BY DEF Table, MarkedOnce, SocketsOnly, Unmarked, Marks

LEMMA TableInvariant == Spec => []Table
<1>1. Init => Table
  BY FdsAssumption DEF Init, Table, MarkedOnce, SocketsOnly, Unmarked, Marks, BetweenCalls, In
<1>2. Typed /\ Ownership /\ Table /\ [Next]_vars => Table'
  <2> SUFFICES ASSUME Typed, Ownership, Table, [Next]_vars
               PROVE  Table'
    OBVIOUS
  <2>0. /\ pc \in [Threads -> Places] /\ op \in [Threads -> Hooks]
        /\ fd \in [Threads -> Fds \cup {NoFd}]
        /\ kind \in [Fds -> Kinds] /\ owner \in [Fds -> Threads \cup {NoThread}]
        /\ g_tracked_fds \in [Slots -> Nat]
        /\ \A t \in Threads : UsesFd(t) => fd[t] \in Fds
    BY DEF Typed, TypeOK
  <2>00. \A t \in Threads : BetweenCalls(t) => UsesFd(t) /\ owner[fd[t]] = t
    BY DEF Ownership, OwnsFd, BetweenCalls, UsesFd, In
  <2>a. \A f \in Fds : Marks(f) => kind[f] = "socket"
    BY DEF Table, SocketsOnly
  <2>b. \A t \in Threads : BetweenCalls(t) => ~Marks(fd[t])
    BY DEF Table, Unmarked
  <2> USE DEF kernel, tables, frame, local, At, In, Goto, Return, Enter, BetweenCalls
  <2>1. ASSUME NEW t \in Threads, Start(t) PROVE Table'
    <3>1. UNCHANGED g_tracked_fds /\ \A f \in Fds : Marks(f) => kind'[f] = "socket"
      BY <2>0, <2>a, <2>1 DEF Start, SocketEnter, ConnectEnter, ResolveEnter,
                              CloseEnter, SetFlags, OpenFile
    <3>2. \A u \in Threads : BetweenCalls(u)' => BetweenCalls(u) /\ fd'[u] = fd[u]
      BY <2>0, <2>1 DEF Start, SocketEnter, ConnectEnter, ResolveEnter,
                        CloseEnter, SetFlags, OpenFile
    <3> QED
      BY <2>b, <3>1, <3>2, TableKept
  <2>2. ASSUME NEW t \in Threads, Lock(t) PROVE Table'
    <3>1. UNCHANGED <<g_tracked_fds, kind>>
      BY <2>2 DEF Lock
    <3>2. \A u \in Threads : BetweenCalls(u)' => BetweenCalls(u) /\ fd'[u] = fd[u]
      BY <2>0, <2>2 DEF Lock
    <3> QED
      BY <2>a, <2>b, <3>1, <3>2, TableKept
  <2>3. ASSUME NEW t \in Threads, Continue(t) PROVE Table'
    <3>1. CASE SocketCall(t)
      <4>1. UNCHANGED g_tracked_fds
        BY <3>1 DEF SocketCall
      <4>2. \A f \in Fds : Marks(f) => kind'[f] = "socket"
        BY <2>0, <2>a, <3>1 DEF SocketCall
      <4>3. ASSUME NEW u \in Threads, BetweenCalls(u)' PROVE ~Marks(fd'[u])
        <5>1. CASE u = t
          <6>1. fd'[t] \in Fds /\ kind[fd'[t]] = "free"
            BY <2>0, <3>1, <4>3, <5>1 DEF SocketCall
          <6> QED
            BY <2>a, <5>1, <6>1
        <5>2. CASE u # t
          BY <2>0, <2>b, <3>1, <4>3, <5>2 DEF SocketCall
        <5> QED
          BY <5>1, <5>2
      <4> QED
        BY <4>1, <4>2, <4>3, TableKept
    <3>2. CASE SocketTrack(t)
      <4>1. fd[t] \in Fds /\ fd[t] \in Nat /\ kind[fd[t]] = "socket" /\ ~Marks(fd[t])
        BY <2>0, <2>b, <3>2, FdsAssumption DEF SocketTrack, UsesFd, Ownership, OwnsFd
      <4>2. UNCHANGED <<kind, fd>>
        BY <3>2 DEF SocketTrack
      <4>3. \A u \in Threads : BetweenCalls(u)' => BetweenCalls(u) /\ u # t
        BY <2>0, <3>2 DEF SocketTrack
      <4>4. \A u \in Threads : BetweenCalls(u)' => fd[u] \in Nat /\ fd[u] # fd[t]
        <5>1. owner[fd[t]] = t
          BY <2>00, <3>2 DEF SocketTrack
        <5>2. \A u \in Threads : BetweenCalls(u) => fd[u] \in Nat /\ owner[fd[u]] = u
          BY <2>0, <2>00, FdsAssumption
        <5> QED
          BY <4>3, <5>1, <5>2
      <4>5. CASE UNCHANGED g_tracked_fds
        BY <2>a, <2>b, <4>2, <4>3, <4>5, TableKept
      <4>6. ASSUME NEW s \in Slots, g_tracked_fds[s] = 0,
                   g_tracked_fds' = [g_tracked_fds EXCEPT ![s] = fd[t] + 1]
            PROVE  Table'
        <5>1. MarkedOnce'
          BY <2>0, <4>1, <4>6 DEF Table, MarkedOnce, Marks
        <5>2. ASSUME NEW f \in Nat, f # fd[t] PROVE Marks(f)' => Marks(f)
          BY <2>0, <4>1, <4>6, <5>2 DEF Marks
        <5>3. SocketsOnly'
          BY <2>a, <4>1, <4>2, <5>2, FdsAssumption DEF SocketsOnly
        <5>4. \A u \in Threads : BetweenCalls(u)' => ~Marks(fd[u])'
          BY <2>b, <4>2, <4>3, <4>4, <5>2
        <5> QED
          BY <5>1, <5>3, <5>4 DEF Table, Unmarked
      <4> QED
        BY <3>2, <4>5, <4>6, TrackEffect DEF SocketTrack
    <3>3. CASE Connect(t) \/ ResolveCall(t) \/ Unlock(t)
      <4>1. UNCHANGED <<g_tracked_fds, kind>>
        BY <3>3 DEF Connect, ConnectForce, ConnectCall, PollWritable, PollOtherwise,
                    ConnectError, ConnectRestore, ResolveCall, Unlock
      <4>2. \A u \in Threads : BetweenCalls(u)' => BetweenCalls(u) /\ fd'[u] = fd[u]
        BY <2>0, <3>3 DEF Connect, ConnectForce, ConnectCall, PollWritable, PollOtherwise,
                          ConnectError, ConnectRestore, ResolveCall, Unlock
      <4> QED
        BY <2>a, <2>b, <4>1, <4>2, TableKept
    <3>4. CASE CloseUntrack(t)
      <4>1. fd[t] \in Fds /\ fd[t] \in Nat
        BY <2>0, <3>4, FdsAssumption DEF CloseUntrack, UsesFd
      <4>2. UNCHANGED <<kind, fd>>
        BY <3>4 DEF CloseUntrack
      <4>3. \A u \in Threads : BetweenCalls(u)' => BetweenCalls(u) \/ u = t
        BY <2>0, <3>4 DEF CloseUntrack
      <4>4. CASE ~Marks(fd[t]) /\ UNCHANGED g_tracked_fds
        BY <2>a, <2>b, <4>2, <4>3, <4>4, TableKept
      <4>5. ASSUME NEW s \in Slots, g_tracked_fds[s] = fd[t] + 1,
                   g_tracked_fds' = [g_tracked_fds EXCEPT ![s] = 0]
            PROVE  Table'
        <5>1. MarkedOnce'
          BY <2>0, <4>5 DEF Table, MarkedOnce
        <5>2. \A f \in Nat : Marks(f)' => Marks(f)
          BY <2>0, <4>5 DEF Marks
        <5>3. ~Marks(fd[t])'
          BY <2>0, <4>1, <4>2, <4>5 DEF Table, MarkedOnce, Marks
        <5>4. SocketsOnly'
          BY <2>a, <4>2, <5>2, FdsAssumption DEF SocketsOnly
        <5>5. \A u \in Threads : BetweenCalls(u) => fd[u] \in Nat
          BY <2>0, <2>00, FdsAssumption
        <5>6. \A u \in Threads : BetweenCalls(u)' => ~Marks(fd[u])'
          BY <2>b, <4>2, <4>3, <5>2, <5>3, <5>5
        <5> QED
          BY <5>1, <5>4, <5>6 DEF Table, Unmarked
      <4> QED
        BY <3>4, <4>4, <4>5, UntrackEffect, TrackedIsMarked DEF CloseUntrack
    <3>5. CASE CloseCall(t)
      <4>1. UNCHANGED g_tracked_fds
        BY <3>5 DEF CloseCall
      <4>2. \A f \in Fds : Marks(f) => kind'[f] = "socket"
        BY <2>0, <2>a, <2>b, <3>5 DEF CloseCall
      <4>3. \A u \in Threads : BetweenCalls(u)' => BetweenCalls(u) /\ fd'[u] = fd[u]
        BY <2>0, <3>5 DEF CloseCall
      <4> QED
        BY <2>b, <4>1, <4>2, <4>3, TableKept
    <3> QED
      BY <2>3, <3>1, <3>2, <3>3, <3>4, <3>5 DEF Continue, Socket, Close
  <2>4. ASSUME NEW f \in Fds, Decide(f) PROVE Table'
    BY <2>4, <2>a, <2>b, TableKept DEF Decide
  <2>5. CASE UNCHANGED vars
    BY <2>5, <2>a, <2>b, TableKept DEF vars
  <2> QED
    BY <2>1, <2>2, <2>3, <2>4, <2>5 DEF Next
<1> QED
  BY <1>1, <1>2, TypedInvariant, OwnershipInvariant, PTL DEF Spec

\* The table never names a descriptor that is closed or came back as a file,
\* whoever takes the number the moment the real close() gives it up.
THEOREM NeverStale == Spec => []NoStaleTracking
<1>1. Table => NoStaleTracking
  BY TrackedIsMarked DEF Table, SocketsOnly, NoStaleTracking
<1> QED
  BY <1>1, TableInvariant, PTL

-----------------------------------------------------------------------------
(* NetNames: what the calls translate.                                     *)

Addresses == [b0 : 0..255, b1 : 0..255, who : Peers \cup {NoPeer}, room : Nat]
Families  == {0, AF_INET, AF_INET6.game}

\* Stronger than NamesTypeOK: the whole of each address and call.
NamesTyped ==
    /\ buffer \in Addresses
    /\ told \in [given : Addresses, got : Addresses]
    /\ meant \in [who : Peers \cup {NoPeer}, family : Families]
    /\ list \in {<<>>} \cup [1..2 -> Addresses]
    /\ option \in [Numbers(OptionNames) -> 0..1] /\ set \in [OptionNames -> 0..1]
    /\ got \in [of : 0..21, value : 0..1]
    /\ pton \in [host : Hosts \cup {None}, v4 : {0 - 1, 0, 1}, v6 : {0 - 1, 0, 1}]
    /\ call \in [Writers -> [vector : Vectors \cup {<<>>}, piece : Nat, total : Nat,
                             result : {None, "total", "error"}]]
    /\ \A t \in Writers : call[t].piece =< Len(call[t].vector) + 1

NamesInv == /\ NamesTyped /\ GameReads /\ StackReads
            /\ FlagsArrive /\ OptionsArrive /\ NamesAreNamed

\* The conversions make addresses of addresses.
LEMMA ConversionsTyped ==
    ASSUME NEW a \in Addresses
    PROVE  /\ sockaddr_vita_to_bionic(a) \in Addresses
           /\ sockaddr_bionic_to_vita(a) \in Addresses
           /\ Copied(a) \in Addresses
<1>1. a.b1 \in 0..255 /\ 0 \in 0..255 /\ SOCKADDR_IN_SIZE \in 0..255 /\ AF_INET \in 0..255
  BY DEF Addresses, SOCKADDR_IN_SIZE, AF_INET
<1>2. sockaddr_vita_to_bionic(a) \in Addresses
  <2>1. CASE a.room < SOCKADDR_IN_SIZE \/ a.b1 # AF_INET
    BY <2>1 DEF sockaddr_vita_to_bionic
  <2>2. CASE ~(a.room < SOCKADDR_IN_SIZE \/ a.b1 # AF_INET)
    <3>1. PICK x \in 0..255, y \in 0..255 : x = a.b1 /\ y = 0
      BY <1>1
    <3>2. PICK b : b = [a EXCEPT !.b0 = x, !.b1 = y]
      OBVIOUS
    <3>3. sockaddr_vita_to_bionic(a) = [a EXCEPT !.b0 = a.b1, !.b1 = 0]
      BY ONLY <2>2, Zenon DEF sockaddr_vita_to_bionic
    <3>4. sockaddr_vita_to_bionic(a) = b
      BY ONLY <3>1, <3>2, <3>3
    <3>5. b \in Addresses
      BY ONLY a \in Addresses, x \in 0..255, y \in 0..255, <3>2 DEF Addresses
    <3> QED BY <3>4, <3>5
  <2> QED BY <2>1, <2>2
<1>3. sockaddr_bionic_to_vita(a) \in Addresses
  <2>1. CASE a.room < SOCKADDR_IN_SIZE \/ GameFamily(a) # AF_INET
    BY <2>1 DEF sockaddr_bionic_to_vita
  <2>2. CASE ~(a.room < SOCKADDR_IN_SIZE \/ GameFamily(a) # AF_INET)
    <3>1. PICK x \in 0..255, y \in 0..255 : x = SOCKADDR_IN_SIZE /\ y = AF_INET
      BY <1>1
    <3>2. PICK b : b = [a EXCEPT !.b0 = x, !.b1 = y]
      OBVIOUS
    <3>3. sockaddr_bionic_to_vita(a) = [a EXCEPT !.b0 = SOCKADDR_IN_SIZE, !.b1 = AF_INET]
      BY ONLY <2>2, Zenon DEF sockaddr_bionic_to_vita
    <3>4. sockaddr_bionic_to_vita(a) = b
      BY ONLY <3>1, <3>2, <3>3
    <3>5. b \in Addresses
      BY ONLY a \in Addresses, x \in 0..255, y \in 0..255, <3>2 DEF Addresses
    <3> QED BY <3>4, <3>5
  <2> QED BY <2>1, <2>2
<1> QED BY <1>2, <1>3 DEF Copied

\* An IPv4 address that the stack wrote is one that the game reads; of another
\* family it is left as it is.
LEMMA NativeConverts ==
    ASSUME NEW p \in Peers, NEW room \in Nat, room >= SOCKADDR_IN_SIZE, NEW inet \in BOOLEAN,
           NEW a, a = sockaddr_vita_to_bionic(Native(p, room, inet))
    PROVE  /\ a \in Addresses /\ a.who = p
           /\ inet => GameFamily(a) = AF_INET
           /\ StackFamily(a) # AF_INET
<1> USE DEF SOCKADDR_IN_SIZE, AF_INET, AF_INET6, GameFamily, StackFamily
<1> DEFINE n == Native(p, room, inet)
<1>1. /\ n \in Addresses /\ n.who = p /\ n.room = room
      /\ n.b1 = IF inet THEN 2 ELSE 28
  BY DEF Native, Bytes, Addresses
<1>4. a = sockaddr_vita_to_bionic(n)
  OBVIOUS
<1> HIDE DEF n
<1>2. CASE inet
  <2>1. a = [n EXCEPT !.b0 = n.b1, !.b1 = 0]
    <3>1. ~(n.room < 16) /\ n.b1 = 2
      BY <1>1, <1>2
    <3> QED BY ONLY <1>4, <3>1, Zenon DEF sockaddr_vita_to_bionic, SOCKADDR_IN_SIZE, AF_INET
  <2>2. a \in Addresses /\ a.b0 = 2 /\ a.b1 = 0 /\ a.who = p
    <3>1. n.b1 \in 0..255 /\ 0 \in 0..255 /\ n.b1 = 2
      BY <1>1, <1>2
    <3>2. PICK x \in 0..255, y \in 0..255 : x = n.b1 /\ y = 0
      BY <3>1
    <3>3. a = [n EXCEPT !.b0 = x, !.b1 = y]
      BY ONLY <2>1, <3>2
    <3>4. a \in Addresses /\ a.b0 = n.b1 /\ a.b1 = 0 /\ a.who = n.who
      <4>1. a \in Addresses /\ a.b0 = x /\ a.b1 = y /\ a.who = n.who
        BY ONLY <1>1, x \in 0..255, y \in 0..255, <3>3 DEF Addresses
      <4> QED BY <3>2, <4>1
    <3> QED BY <1>1, <3>1, <3>4
  <2> QED BY <2>2
<1>3. CASE ~inet
  <2>1. a = n
    BY <1>1, <1>3, <1>4 DEF sockaddr_vita_to_bionic
  <2> QED BY <1>1, <1>3, <2>1
<1> QED BY <1>2, <1>3

\* What a call that takes an address hands on.
LEMMA CopyConverts ==
    ASSUME NEW a \in Addresses, a.room \in SOCKADDR_IN_SIZE..LocalSize
    PROVE  IF GameFamily(a) = AF_INET
           THEN StackFamily(Copied(a)) = AF_INET /\ Copied(a).who = a.who
           ELSE Copied(a) = a
<1> USE DEF SOCKADDR_IN_SIZE, LocalSize, AF_INET, StackFamily
<1>1. Copied(a) = IF GameFamily(a) = AF_INET THEN [a EXCEPT !.b0 = 16, !.b1 = 2] ELSE a
  BY DEF Copied, sockaddr_bionic_to_vita, Addresses
<1>2. ASSUME GameFamily(a) = 2 PROVE Copied(a).b1 = 2 /\ Copied(a).who = a.who
  <2>1. 16 \in 0..255 /\ 2 \in 0..255
    OBVIOUS
  <2>2. Copied(a) = [a EXCEPT !.b0 = 16, !.b1 = 2]
    BY <1>1, <1>2
  <2> QED BY <2>1, <2>2 DEF Addresses
<1> QED BY <1>1, <1>2

LEMMA NamesInitially == NamesInit => NamesInv
<1> SUFFICES ASSUME NamesInit PROVE NamesInv
  OBVIOUS
<1>1. Blank \in Addresses
  BY DEF Blank, Bytes, Addresses
<1>2. NamesTyped
  <2>1. /\ buffer \in Addresses /\ told \in [given : Addresses, got : Addresses]
        /\ meant \in [who : Peers \cup {NoPeer}, family : Families]
    BY <1>1 DEF NamesInit, Families
  <2>2. /\ list \in {<<>>} \cup [1..2 -> Addresses]
        /\ option \in [Numbers(OptionNames) -> 0..1] /\ set \in [OptionNames -> 0..1]
        /\ got \in [of : 0..21, value : 0..1]
    BY DEF NamesInit, Unanswered
  <2>3. pton \in [host : Hosts \cup {None}, v4 : {0 - 1, 0, 1}, v6 : {0 - 1, 0, 1}]
    BY DEF NamesInit, Unasked
  <2>4. \A t \in Writers : call[t] = [vector |-> <<>>, piece |-> 0, total |-> 0, result |-> None]
    BY DEF NamesInit, Idle
  <2>5. /\ call \in [Writers -> [vector : Vectors \cup {<<>>}, piece : Nat, total : Nat,
                                 result : {None, "total", "error"}]]
        /\ \A t \in Writers : call[t].piece =< Len(call[t].vector) + 1
    BY <2>4 DEF NamesInit
  <2> QED BY <2>1, <2>2, <2>3, <2>5 DEF NamesTyped
<1>3. GameReads /\ StackReads
  <2>1. meant.family = 0 /\ DOMAIN list = {} /\ told.given.room = 0
    BY DEF NamesInit, Blank, Bytes
  <2> QED BY <2>1 DEF GameReads, StackReads, SOCKADDR_IN_SIZE, AF_INET
<1>4. OptionsArrive
  <2>1. \A o \in OptionNames : option[SO[o]] = 0 /\ set[o] = 0
    BY DEF NamesInit, Numbers
  <2>2. got = Unanswered
    BY DEF NamesInit
  <2> QED BY <2>1, <2>2 DEF OptionsArrive, Unanswered
<1>5. FlagsArrive /\ NamesAreNamed
  BY DEF NamesInit, FlagsArrive, NamesAreNamed, Unsent
<1> QED BY <1>2, <1>3, <1>4, <1>5 DEF NamesInv

\* A step changes one of: the addresses, the messages, the options, the name, the
\* writes.  The first four, with what the calls mean:
LEMMA AddressesKept ==
    ASSUME NamesTyped, GameReads, StackReads, Addressing
    PROVE  /\ buffer' \in Addresses /\ told' \in [given : Addresses, got : Addresses]
           /\ meant' \in [who : Peers \cup {NoPeer}, family : Families]
           /\ list' \in {<<>>} \cup [1..2 -> Addresses]
           /\ GameReads' /\ StackReads'
           /\ UNCHANGED <<sent, options, pton, wire, call>>
<1> USE DEF addresses, options
<1>1. /\ buffer \in Addresses /\ told \in [given : Addresses, got : Addresses]
      /\ meant \in [who : Peers \cup {NoPeer}, family : Families]
      /\ list \in {<<>>} \cup [1..2 -> Addresses]
  BY DEF NamesTyped
<1>2. CASE Fill
  <2>1. PICK p \in Peers, room \in Rooms \ {0}, family \in {AF_INET, AF_INET6.game} :
            /\ buffer' = Bytes(family, 0, p, room)
            /\ meant' = [who |-> p, family |-> family]
    BY <1>2 DEF Fill
  <2>2. UNCHANGED <<told, list, sent, options, pton, wire, call>>
    BY <1>2 DEF Fill
  <2>3. room \in Nat /\ family \in {2, 10}
    BY RoomsAssumption DEF AF_INET, AF_INET6
  <2>4. buffer' \in Addresses /\ GameFamily(buffer') = family /\ buffer'.who = p
    BY <2>1, <2>3 DEF Addresses, Bytes, GameFamily
  <2>5. meant' \in [who : Peers \cup {NoPeer}, family : Families]
    BY <2>1 DEF Families
  <2>6. GameReads' /\ StackReads'
    BY <2>1, <2>2, <2>4 DEF GameReads, StackReads
  <2> QED BY <1>1, <2>2, <2>4, <2>5, <2>6
<1>3. CASE TakesAddress
  <2>1. /\ told' = [given |-> buffer, got |-> Copied(buffer)]
        /\ UNCHANGED <<buffer, meant, list, sent, options, pton, wire, call>>
    BY <1>3 DEF TakesAddress
  <2>2. told' \in [given : Addresses, got : Addresses]
    BY <1>1, <2>1, ConversionsTyped
  <2>3. GameReads'
    BY <2>1 DEF GameReads
  <2>4. StackReads'
    BY <1>1, <2>1, CopyConverts DEF StackReads
  <2> QED BY <1>1, <2>1, <2>2, <2>3, <2>4
<1>4. CASE GivesAddress
  <2>1. PICK p \in Peers, room \in Rooms, inet \in BOOLEAN :
            /\ room >= SOCKADDR_IN_SIZE
            /\ buffer' = sockaddr_vita_to_bionic(Native(p, room, inet))
            /\ meant' = [who |-> p, family |-> IF inet THEN AF_INET ELSE 0]
    BY <1>4 DEF GivesAddress
  <2>2. UNCHANGED <<told, list, sent, options, pton, wire, call>>
    BY <1>4 DEF GivesAddress
  <2>3. room \in Nat
    BY RoomsAssumption
  <2>4. buffer' \in Addresses /\ buffer'.who = p /\ (inet => GameFamily(buffer') = AF_INET)
    BY <2>1, <2>3, NativeConverts
  <2>5. meant' \in [who : Peers \cup {NoPeer}, family : Families]
    BY <2>1 DEF Families
  <2>6. GameReads'
    <3>1. meant'.family = AF_INET => inet
      BY <2>1 DEF AF_INET
    <3> QED BY <2>1, <2>2, <2>4, <3>1 DEF GameReads
  <2>7. StackReads'
    BY <2>2 DEF StackReads
  <2> QED BY <1>1, <2>2, <2>4, <2>5, <2>6, <2>7
<1>5. CASE GetAddrInfo
  <2>1. PICK p \in [1..2 -> Peers], inet \in [1..2 -> BOOLEAN] :
            list' = addrinfo_list_vita_to_bionic(
                        [i \in 1..2 |-> Native(p[i], SOCKADDR_IN_SIZE, inet[i])])
    BY <1>5 DEF GetAddrInfo
  <2>2. UNCHANGED <<buffer, told, meant, sent, options, pton, wire, call>>
    BY <1>5 DEF GetAddrInfo
  <2>3. ASSUME NEW i \in 1..2, NEW n, n = Native(p[i], SOCKADDR_IN_SIZE, inet[i])
        PROVE  IF StackFamily(n) = AF_INET
               THEN /\ sockaddr_vita_to_bionic(n) \in Addresses
                    /\ StackFamily(sockaddr_vita_to_bionic(n)) # AF_INET
               ELSE n \in Addresses
    <3>1. p[i] \in Peers /\ inet[i] \in BOOLEAN /\ SOCKADDR_IN_SIZE \in Nat
      BY DEF SOCKADDR_IN_SIZE
    <3>2. n \in Addresses
      BY <2>3, <3>1 DEF Native, Bytes, Addresses, SOCKADDR_IN_SIZE, AF_INET, AF_INET6
    <3> QED BY <2>3, <3>1, <3>2, NativeConverts DEF SOCKADDR_IN_SIZE
  <2>4. list' = [i \in 1..2 |->
            IF StackFamily(Native(p[i], SOCKADDR_IN_SIZE, inet[i])) = AF_INET
            THEN sockaddr_vita_to_bionic(Native(p[i], SOCKADDR_IN_SIZE, inet[i]))
            ELSE Native(p[i], SOCKADDR_IN_SIZE, inet[i])]
    BY <2>1 DEF addrinfo_list_vita_to_bionic
  <2>5. /\ list' \in [1..2 -> Addresses]
        /\ \A i \in DOMAIN list' : StackFamily(list'[i]) # AF_INET
    BY <2>3, <2>4
  <2>6. GameReads' /\ StackReads'
    BY <2>2, <2>5 DEF GameReads, StackReads
  <2> QED BY <1>1, <2>2, <2>5, <2>6
<1>6. CASE PickEntry
  <2>1. PICK i \in DOMAIN list : /\ GameFamily(list[i]) = AF_INET
                                 /\ buffer' = list[i]
                                 /\ meant' = [who |-> list[i].who, family |-> AF_INET]
    BY <1>6 DEF PickEntry
  <2>2. list' = <<>> /\ UNCHANGED <<told, sent, options, pton, wire, call>>
    BY <1>6 DEF PickEntry
  <2>3. list[i] \in Addresses
    BY <1>1, <2>1
  <2>4. list[i].who \in Peers \cup {NoPeer}
    BY <2>3 DEF Addresses
  <2>5. meant' \in [who : Peers \cup {NoPeer}, family : Families]
    BY <2>1, <2>4 DEF Families
  <2>6. GameReads' /\ StackReads'
    BY <2>1, <2>2 DEF GameReads, StackReads
  <2> QED BY <1>1, <2>1, <2>2, <2>3, <2>5, <2>6
<1> QED BY <1>2, <1>3, <1>4, <1>5, <1>6 DEF Addressing

\* The switch of sockopt.c against what the two sides call their options.
LEMMA OptionNumbers ==
    /\ \A o \in OptionNames : translate_sol_socket_optname(GameOption[o]) = SO[o]
    /\ \A o \in OptionNames : SO[o] # Unmapped /\ GameOption[o] # 0
    /\ \A o, p \in OptionNames : SO[o] = SO[p] => o = p
    /\ \A n \in Nat : translate_sol_socket_optname(n) = Unmapped
                         \/ \E o \in OptionNames : GameOption[o] = n
    /\ Own \subseteq OptionNames
<1> USE DEF OptionNames, GameOption, SO, translate_sol_socket_optname, Unmapped, Own
<1>1. \A o \in OptionNames : translate_sol_socket_optname(GameOption[o]) = SO[o]
  OBVIOUS
<1>2. \A o \in OptionNames : SO[o] # Unmapped /\ GameOption[o] # 0
  OBVIOUS
<1>3. \A o, p \in OptionNames : SO[o] = SO[p] => o = p
  OBVIOUS
<1>4. \A n \in Nat : translate_sol_socket_optname(n) = Unmapped
                        \/ \E o \in OptionNames : GameOption[o] = n
  OBVIOUS
<1>5. Own \subseteq OptionNames
  OBVIOUS
<1> QED BY ONLY <1>1, <1>2, <1>3, <1>4, <1>5

\* A number is translated to an option's exactly when it is that option's number.
LEMMA OptionMeant ==
    ASSUME NEW n \in Nat, NEW o \in OptionNames
    PROVE  /\ SO[o] = translate_sol_socket_optname(n) <=> n = GameOption[o]
           /\ SO[o] \in Numbers(Own) <=> o \in Own
           /\ SO[o] \in Numbers(OptionNames)
<1> USE OptionNumbers
<1>1. SO[o] = translate_sol_socket_optname(n) => n = GameOption[o]
  OBVIOUS
<1>2. n = GameOption[o] => SO[o] = translate_sol_socket_optname(n)
  OBVIOUS
<1>3. SO[o] \in Numbers(Own) <=> o \in Own
  BY DEF Numbers
<1>4. SO[o] \in Numbers(OptionNames)
  BY DEF Numbers
<1> QED BY ONLY <1>1, <1>2, <1>3, <1>4

LEMMA OptionsKept ==
    ASSUME NamesTyped, OptionsArrive, SetSockOpt \/ StackSets \/ GetSockOpt
    PROVE  /\ option' \in [Numbers(OptionNames) -> 0..1] /\ set' \in [OptionNames -> 0..1]
           /\ got' \in [of : 0..21, value : 0..1] /\ OptionsArrive'
           /\ UNCHANGED <<addresses, sent, pton, wire, call>>
<1>1. /\ option \in [Numbers(OptionNames) -> 0..1] /\ set \in [OptionNames -> 0..1]
      /\ \A o \in OptionNames : option[SO[o]] = set[o] /\ set[o] \in 0..1
  BY DEF NamesTyped, OptionsArrive
<1>2. ASSUME got' = Unanswered,
             \A o \in OptionNames : option'[SO[o]] = set'[o]
      PROVE  got' \in [of : 0..21, value : 0..1] /\ OptionsArrive'
  <2>1. got'.of = 0 /\ got'.value = 0
    BY <1>2 DEF Unanswered
  <2> QED BY <1>2, <2>1, OptionNumbers DEF OptionsArrive, Unanswered
<1>3. CASE SetSockOpt
  <2>1. PICK n \in 1..21, value \in 0..1 :
          /\ option' = [r \in Numbers(OptionNames) |->
                 IF r = translate_sol_socket_optname(n) /\ r \notin Numbers(Own)
                 THEN value ELSE option[r]]
          /\ set' = [o \in OptionNames |->
                 IF n = GameOption[o] /\ o \notin Own THEN value ELSE set[o]]
    BY <1>3 DEF SetSockOpt
  <2>2. \A o \in OptionNames : option'[SO[o]] = set'[o]
    <3> SUFFICES ASSUME NEW o \in OptionNames PROVE option'[SO[o]] = set'[o]
      OBVIOUS
    <3>1. n \in Nat
      OBVIOUS
    <3> QED BY <1>1, <2>1, <3>1, OptionMeant
  <2>3. option' \in [Numbers(OptionNames) -> 0..1] /\ set' \in [OptionNames -> 0..1]
    BY <1>1, <2>1
  <2>4. got' = Unanswered /\ UNCHANGED <<addresses, sent, pton, wire, call>>
    BY <1>3 DEF SetSockOpt
  <2> QED BY <1>2, <2>2, <2>3, <2>4
<1>4. CASE StackSets
  <2>1. PICK o \in Own, value \in 0..1 :
          /\ option' = [option EXCEPT ![SO[o]] = value]
          /\ set' = [set EXCEPT ![o] = value]
    BY <1>4 DEF StackSets
  <2>2. o \in OptionNames /\ SO[o] \in Numbers(OptionNames)
    BY OptionNumbers DEF Numbers
  <2>3. option' \in [Numbers(OptionNames) -> 0..1] /\ set' \in [OptionNames -> 0..1]
    BY <1>1, <2>1, <2>2
  <2>4. \A p \in OptionNames : option'[SO[p]] = set'[p]
    <3> SUFFICES ASSUME NEW p \in OptionNames PROVE option'[SO[p]] = set'[p]
      OBVIOUS
    <3>1. SO[p] \in Numbers(OptionNames) /\ (SO[p] = SO[o] => p = o)
      BY <2>2, OptionNumbers DEF Numbers
    <3> QED BY <1>1, <2>1, <2>2, <3>1
  <2>5. got' = Unanswered /\ UNCHANGED <<addresses, sent, pton, wire, call>>
    BY <1>4 DEF StackSets
  <2> QED BY <1>2, <2>3, <2>4, <2>5
<1>5. CASE GetSockOpt
  <2>1. PICK n \in 1..21 :
          got' = [of |-> n, value |-> IF translate_sol_socket_optname(n) = Unmapped THEN 0
                                      ELSE option[translate_sol_socket_optname(n)]]
    BY <1>5 DEF GetSockOpt
  <2>2. UNCHANGED <<addresses, sent, option, set, pton, wire, call>>
    BY <1>5 DEF GetSockOpt
  <2>3. got'.of = n /\ n \in Nat
    BY <2>1
  <2>4. CASE translate_sol_socket_optname(n) = Unmapped
    <3>1. \A o \in OptionNames : GameOption[o] # n
      BY <2>3, <2>4, OptionMeant, OptionNumbers
    <3>2. got' = [of |-> n, value |-> 0]
      BY <2>1, <2>4
    <3> QED BY <1>1, <2>2, <3>1, <3>2 DEF OptionsArrive
  <2>5. CASE translate_sol_socket_optname(n) # Unmapped
    <3>1. PICK o \in OptionNames : GameOption[o] = n
      BY <2>3, <2>5, OptionNumbers
    <3>2. translate_sol_socket_optname(n) = SO[o]
      BY <3>1, OptionNumbers
    <3>3. got' = [of |-> n, value |-> set[o]] /\ set[o] \in 0..1
      BY <1>1, <2>1, <2>5, <3>2
    <3>4. \A p \in OptionNames : GameOption[p] = n => p = o
      BY <3>2, OptionNumbers
    <3> QED BY <1>1, <2>2, <3>1, <3>3, <3>4 DEF OptionsArrive
  <2> QED BY <2>4, <2>5
<1> QED BY <1>3, <1>4, <1>5

LEMMA HostAsked ==
    ASSUME AskHost
    PROVE  /\ pton' \in [host : Hosts \cup {None}, v4 : {0 - 1, 0, 1}, v6 : {0 - 1, 0, 1}]
           /\ NamesAreNamed'
           /\ UNCHANGED <<addresses, sent, options, wire, call>>
<1>1. PICK host \in Hosts :
        pton' = [host |-> host, v4 |-> inet_pton(AF_INET, host),
                 v6 |-> inet_pton(AF_INET6.game, host)]
  BY DEF AskHost
<1>2. /\ inet_pton(AF_INET, host) = IF host = "v4" THEN 1 ELSE 0
      /\ inet_pton(AF_INET6.game, host) = IF host = "v6" THEN 1 ELSE 0
  BY DEF inet_pton, StackPton, AF_INET, AF_INET6
<1>3. UNCHANGED <<addresses, sent, options, wire, call>>
  BY DEF AskHost
<1> QED BY <1>1, <1>2, <1>3 DEF NamesAreNamed, Hosts

LEMMA MessagesKept ==
    ASSUME Message
    PROVE  FlagsArrive' /\ UNCHANGED <<addresses, options, pton, wire, call>>
<1> USE DEF StackFlag
<1>1. PICK flags \in SUBSET DOMAIN GameFlag :
        sent' = [meant |-> flags, word |-> msg_flags_bionic_to_vita({GameFlag[f] : f \in flags})]
  BY DEF Message
<1> DEFINE word == {GameFlag[f] : f \in flags}
<1>2. /\ 1 \in word <=> "OOB" \in flags
      /\ 2 \in word <=> "PEEK" \in flags
      /\ 64 \in word <=> "DONTWAIT" \in flags
      /\ 256 \in word <=> "WAITALL" \in flags
  BY DEF GameFlag
<1> HIDE DEF word
<1>3. \A v : v \in sent'.word <=> \/ "OOB" \in flags /\ v = 1
                                  \/ "PEEK" \in flags /\ v = 2
                                  \/ "DONTWAIT" \in flags /\ v = 128
                                  \/ "WAITALL" \in flags /\ v = 64
  BY <1>1, <1>2 DEF msg_flags_bionic_to_vita, word
<1>4. sent'.meant = flags
  BY <1>1
<1>5. \A f \in DOMAIN StackFlag : StackFlag[f] \in sent'.word <=> f \in sent'.meant
  BY <1>3, <1>4
<1>6. \A bit \in sent'.word : \E f \in DOMAIN StackFlag : StackFlag[f] = bit
  BY <1>3
<1>7. UNCHANGED <<addresses, options, pton, wire, call>>
  BY DEF Message
<1> QED BY <1>5, <1>6, <1>7 DEF FlagsArrive

-----------------------------------------------------------------------------
(* The gathering write.                                                    *)

Calls == [vector : Vectors \cup {<<>>}, piece : Nat, total : Nat,
          result : {None, "total", "error"}]

\* The socket takes n units of a piece.
Taken(t, k, n) ==
    /\ wire' \in Seq(Writers \X Nat \X Nat)
    /\ Len(wire') = Len(wire) + n
    /\ \A i \in 1..Len(wire) : wire'[i] = wire[i]
    /\ \A i \in 1..n : wire'[Len(wire) + i] = <<t, k, i>>

\* A turn of the loop ends the call with what was written before, or the socket takes
\* part of the piece, which ends it, or the whole.
Fails(t) ==
    /\ UNCHANGED wire /\ call'[t].piece = 0 /\ call'[t].total = call[t].total
    /\ call'[t].result = IF call[t].total > 0 THEN "total" ELSE "error"

Takes(t, n) ==
    LET c == call[t] IN
    /\ n \in 0..c.vector[c.piece]
    /\ Taken(t, c.piece, n) /\ call'[t].total = c.total + n
    /\ IF n < c.vector[c.piece] THEN call'[t].piece = 0 /\ call'[t].result = "total"
       ELSE call'[t].piece = c.piece + 1 /\ call'[t].result = c.result

Turned(t) ==
    /\ \A s \in Writers : s # t => call'[s] = call[s]
    /\ call'[t] \in Calls /\ call'[t].vector = call[t].vector
    /\ Fails(t) \/ \E n \in Nat : Takes(t, n)

LEMMA VectorsTyped ==
    ASSUME NamesTyped, NEW t \in Writers
    PROVE  /\ call \in [Writers -> Calls] /\ call[t] \in Calls
           /\ call[t].vector \in Seq(Nat)
           /\ \A k \in 1..Len(call[t].vector) : call[t].vector[k] \in Nat
<1>1. call \in [Writers -> Calls]
  BY DEF NamesTyped, Calls
<1>2. call[t].vector \in Seq(Nat)
  <2>1. call[t].vector \in Vectors \cup {<<>>}
    BY <1>1 DEF Calls
  <2>2. <<>> \in Seq(Nat)
    OBVIOUS
  <2> QED BY <2>1, <2>2, VectorsAssumption
<1> QED BY <1>1, <1>2

\* How the record of a call is written.
LEMMA PieceWritten ==
    ASSUME NEW c \in Calls, NEW p \in Nat, NEW d, d = [c EXCEPT !.piece = p]
    PROVE  /\ d \in Calls /\ d.vector = c.vector
           /\ d.piece = p /\ d.total = c.total /\ d.result = c.result
BY DEF Calls

LEMMA TotalWritten ==
    ASSUME NEW c \in Calls, NEW m \in Nat, NEW d, d = [c EXCEPT !.total = m]
    PROVE  /\ d \in Calls /\ d.vector = c.vector
           /\ d.piece = c.piece /\ d.total = m /\ d.result = c.result
BY DEF Calls

LEMMA BothWritten ==
    ASSUME NEW c \in Calls, NEW p \in Nat, NEW m \in Nat,
           NEW d, d = [c EXCEPT !.piece = p, !.total = m]
    PROVE  /\ d \in Calls /\ d.vector = c.vector
           /\ d.piece = p /\ d.total = m /\ d.result = c.result
BY DEF Calls

LEMMA EndWritten ==
    ASSUME NEW c \in Calls, NEW r \in {None, "total", "error"}, NEW d, d = Ended(c, r)
    PROVE  /\ d \in Calls /\ d.vector = c.vector
           /\ d.piece = 0 /\ d.total = c.total /\ d.result = r
BY DEF Calls, Ended

LEMMA PieceTurned ==
    ASSUME NamesTyped, wire \in Seq(Writers \X Nat \X Nat), NEW t \in Writers, WritePiece(t)
    PROVE  call[t].piece \in DOMAIN call[t].vector /\ Turned(t)
<1> DEFINE c == call[t]
           v == c.vector
           k == c.piece
<1>1. /\ call \in [Writers -> Calls] /\ c \in Calls /\ v \in Seq(Nat)
      /\ k \in 1..Len(v) /\ v[k] \in Nat
  BY VectorsTyped DEF WritePiece
<1> SUFFICES Turned(t)
  BY <1>1
<1>2. CASE /\ v[k] = 0 /\ UNCHANGED wire
           /\ call' = [call EXCEPT ![t].piece = @ + 1]
  <2>1. /\ \A s \in Writers : s # t => call'[s] = call[s]
        /\ call'[t] = [c EXCEPT !.piece = c.piece + 1]
    BY <1>1, <1>2
  <2>2. /\ call'[t] \in Calls /\ call'[t].vector = v /\ call'[t].total = c.total
        /\ call'[t].piece = k + 1 /\ call'[t].result = c.result
    <3>1. c.piece + 1 \in Nat /\ c.total \in Nat
      BY <1>1 DEF Calls
    <3> QED BY <1>1, <2>1, <3>1, PieceWritten
  <2>5. c.total = c.total + 0
    BY <1>1 DEF Calls
  <2>3. Taken(t, k, 0)
    BY <1>2 DEF Taken
  <2>4. 0 \in 0..v[k] /\ ~(0 < v[k])
    BY <1>2
  <2>6. call'[t].total = c.total + 0
    BY <2>2, <2>5
  <2>7. PICK n \in Nat : n = 0
    OBVIOUS
  <2>8. Takes(t, n)
    BY <2>2, <2>3, <2>4, <2>6, <2>7 DEF Takes
  <2> QED BY ONLY <2>1, <2>2, <2>7, <2>8 DEF Turned
<1>3. CASE /\ UNCHANGED wire
           /\ call' = [call EXCEPT ![t] = Ended(c, IF c.total > 0 THEN "total" ELSE "error")]
  <2>1. /\ \A s \in Writers : s # t => call'[s] = call[s]
        /\ call'[t] = Ended(c, IF c.total > 0 THEN "total" ELSE "error")
    BY <1>1, <1>3
  <2>2. /\ call'[t] \in Calls /\ call'[t].vector = v /\ call'[t].total = c.total
        /\ call'[t].piece = 0
        /\ call'[t].result = IF c.total > 0 THEN "total" ELSE "error"
    <3>1. (IF c.total > 0 THEN "total" ELSE "error") \in {None, "total", "error"}
      OBVIOUS
    <3> QED BY <1>1, <2>1, <3>1, EndWritten
  <2> QED BY <1>1, <1>3, <2>1, <2>2 DEF Turned, Fails
<1>4. CASE \E n \in 0..v[k] :
           /\ wire' = wire \o Units(t, k, n)
           /\ call' = [call EXCEPT ![t] =
                 IF n < v[k] THEN Ended([c EXCEPT !.total = @ + n], "total")
                 ELSE [c EXCEPT !.piece = @ + 1, !.total = @ + n]]
  <2>5. PICK n \in 0..v[k] :
           /\ wire' = wire \o Units(t, k, n)
           /\ call' = [call EXCEPT ![t] =
                 IF n < v[k] THEN Ended([c EXCEPT !.total = @ + n], "total")
                 ELSE [c EXCEPT !.piece = @ + 1, !.total = @ + n]]
    BY <1>4
  <2>1. Taken(t, k, n)
    <3> DEFINE S == Writers \X Nat \X Nat
               new == Units(t, k, n)
    <3>1. new \in Seq(S) /\ Len(new) = n /\ \A i \in 1..n : new[i] = <<t, k, i>>
      <4>1. k \in Nat /\ n \in Nat
        BY <1>1, <2>5 DEF Calls
      <4>2. new = [i \in 1..n |-> <<t, k, i>>]
        BY DEF Units
      <4>3. \A i \in 1..n : <<t, k, i>> \in S
        BY <4>1
      <4> HIDE DEF S, k, new
      <4> QED BY <4>1, <4>2, <4>3
    <3>2. wire' = wire \o new
      BY <2>5
    <3> HIDE DEF S, new
    <3>3. wire \in Seq(S)
      BY DEF S
    <3>4. /\ wire' \in Seq(S) /\ Len(wire') = Len(wire) + n
          /\ \A i \in 1..Len(wire) : wire'[i] = wire[i]
          /\ \A i \in 1..n : wire'[Len(wire) + i] = new[i]
      <4>1. /\ wire \o new \in Seq(S) /\ Len(wire \o new) = Len(wire) + Len(new)
            /\ \A i \in 1..Len(wire) : (wire \o new)[i] = wire[i]
            /\ \A i \in 1..Len(new) : (wire \o new)[Len(wire) + i] = new[i]
        <5>1. wire \o new \in Seq(S)
          BY ONLY <3>1, <3>3
        <5>2. Len(wire \o new) = Len(wire) + Len(new)
          <6>1. new \in Seq(S)
            BY <3>1
          <6> QED BY ONLY <6>1, <3>3
        <5>3. \A i \in 1..Len(wire) : (wire \o new)[i] = wire[i]
          BY ONLY <3>1, <3>3
        <5>4. \A i \in 1..Len(new) : (wire \o new)[Len(wire) + i] = new[i]
          BY ONLY <3>1, <3>3
        <5> QED BY <5>1, <5>2, <5>3, <5>4
      <4> QED BY ONLY <3>1, <3>2, <4>1
    <3> QED BY <3>1, <3>4 DEF Taken, S
  <2>2. \A s \in Writers : s # t => call'[s] = call[s]
    BY <1>1, <2>5
  <2>3. CASE n < v[k]
    <3> DEFINE e == [c EXCEPT !.total = c.total + n]
    <3>1. call'[t] = Ended(e, "total")
      BY <1>1, <2>5, <2>3
    <3>3. c.total + n \in Nat /\ "total" \in {None, "total", "error"}
      BY <1>1, <2>5 DEF Calls
    <3>4. e \in Calls /\ e.vector = v /\ e.total = c.total + n
      BY <1>1, <3>3, TotalWritten
    <3> HIDE DEF e
    <3>2. /\ call'[t] \in Calls /\ call'[t].vector = v /\ call'[t].total = c.total + n
          /\ call'[t].piece = 0 /\ call'[t].result = "total"
      BY <3>1, <3>3, <3>4, EndWritten
    <3>5. Takes(t, n) /\ n \in Nat
      BY <1>1, <2>5, <2>1, <2>3, <3>2 DEF Takes
    <3> QED BY ONLY <2>2, <3>2, <3>5 DEF Turned
  <2>4. CASE ~(n < v[k])
    <3>1. call'[t] = [c EXCEPT !.piece = c.piece + 1, !.total = c.total + n]
      BY <1>1, <2>5, <2>4
    <3>3. c.total + n \in Nat /\ c.piece + 1 \in Nat
      BY <1>1, <2>5 DEF Calls
    <3>2. /\ call'[t] \in Calls /\ call'[t].vector = v /\ call'[t].total = c.total + n
          /\ call'[t].piece = k + 1 /\ call'[t].result = c.result
      <4>1. PICK p \in Nat, m \in Nat : p = c.piece + 1 /\ m = c.total + n
        BY <3>3
      <4>2. call'[t] = [c EXCEPT !.piece = p, !.total = m]
        BY <3>1, <4>1
      <4> HIDE DEF c
      <4>3. /\ call'[t] \in Calls /\ call'[t].vector = c.vector /\ call'[t].total = m
            /\ call'[t].piece = p /\ call'[t].result = c.result
        BY <1>1, <4>1, <4>2 DEF Calls
      <4> QED BY <4>1, <4>3
    <3>5. Takes(t, n) /\ n \in Nat
      BY <1>1, <2>5, <2>1, <2>4, <3>2 DEF Takes
    <3> QED BY ONLY <2>2, <3>2, <3>5 DEF Turned
  <2> QED BY <2>3, <2>4
<1>5. \/ v[k] = 0 /\ UNCHANGED wire /\ call' = [call EXCEPT ![t].piece = @ + 1]
      \/ /\ UNCHANGED wire
         /\ call' = [call EXCEPT ![t] = Ended(c, IF c.total > 0 THEN "total" ELSE "error")]
      \/ \E n \in 0..v[k] :
           /\ wire' = wire \o Units(t, k, n)
           /\ call' = [call EXCEPT ![t] =
                 IF n < v[k] THEN Ended([c EXCEPT !.total = @ + n], "total")
                 ELSE [c EXCEPT !.piece = @ + 1, !.total = @ + n]]
  BY DEF WritePiece
<1> QED BY <1>2, <1>3, <1>4, <1>5

\* What a writer has on the wire is a start of what it was given; as long as its call
\* goes on, all pieces before the one it is at, and none of it or behind it.
WriterInv(t) ==
    /\ \A i \in Mine(t) : wire[i] \in Given(t)
    /\ \A i \in Mine(t), u \in Given(t) :
         Before(u, wire[i]) => \E j \in Mine(t) : j < i /\ wire[j] = u
    /\ \A i, j \in Mine(t) : i < j => Before(wire[i], wire[j])
    /\ call[t].result = "total" => call[t].total = Cardinality(Mine(t))
    /\ call[t].result = "error" => Mine(t) = {}
    /\ call[t].result # None => call[t].piece = 0
    /\ call[t].result = None =>
         /\ call[t].total = Cardinality(Mine(t))
         /\ \A i \in Mine(t) : wire[i][2] < call[t].piece
         /\ \A u \in Given(t) : u[2] < call[t].piece => \E j \in Mine(t) : wire[j] = u

WireInv == /\ wire \in Seq(Writers \X Nat \X Nat)
           /\ \A t \in Writers : WriterInv(t)

LEMMA GivenUnits ==
    ASSUME NEW t, NEW v \in Seq(Nat)
    PROVE  \A u : u \in UnitsOf(t, v) <=> \E k \in 1..Len(v) : \E i \in 1..v[k] : u = <<t, k, i>>
<1>1. ASSUME NEW u
      PROVE  u \in UnitsOf(t, v) <=> \E k \in DOMAIN v : \E i \in 1..v[k] : u = <<t, k, i>>
  <2> DEFINE Row(k) == {<<t, k, i>> : i \in 1..v[k]}
  <2>1. UnitsOf(t, v) = UNION {Row(k) : k \in DOMAIN v}
    BY DEF UnitsOf
  <2>2. \A k : u \in Row(k) <=> \E i \in 1..v[k] : u = <<t, k, i>>
    OBVIOUS
  <2> HIDE DEF Row
  <2>3. u \in UnitsOf(t, v) <=> \E k \in DOMAIN v : u \in Row(k)
    BY ONLY <2>1
  <2> QED BY ONLY <2>2, <2>3
<1>2. DOMAIN v = 1..Len(v)
  OBVIOUS
<1> QED BY ONLY <1>1, <1>2

\* A writer of whom the step takes nothing keeps what it has.
LEMMA WriterStays ==
    ASSUME NEW t \in Writers, WriterInv(t), call'[t] = call[t], Mine(t)' = Mine(t),
           \A i \in Mine(t) : wire'[i] = wire[i]
    PROVE  WriterInv(t)'
<1>1. Given(t)' = Given(t)
  BY DEF Given
<1> QED BY <1>1 DEF WriterInv

\* The n units that are taken of a piece go behind all others.
LEMMA MineGrows ==
    ASSUME wire \in Seq(Writers \X Nat \X Nat), NEW t \in Writers, NEW k \in Nat, NEW n \in Nat,
           Taken(t, k, n)
    PROVE  /\ Mine(t) \subseteq 1..Len(wire)
           /\ Mine(t)' = Mine(t) \cup (Len(wire) + 1)..(Len(wire) + n)
           /\ \A i \in Mine(t) : wire'[i] = wire[i]
           /\ \A i \in (Len(wire) + 1)..(Len(wire) + n) : wire'[i] = <<t, k, i - Len(wire)>>
           /\ \A s \in Writers \ {t} : /\ Mine(s)' = Mine(s)
                                       /\ \A i \in Mine(s) : wire'[i] = wire[i]
           /\ Cardinality(Mine(t)') = Cardinality(Mine(t)) + n
<1> DEFINE L == Len(wire)
<1>1. /\ L \in Nat /\ DOMAIN wire = 1..L /\ DOMAIN wire' = 1..(L + n)
      /\ \A i \in 1..L : wire'[i] = wire[i]
      /\ \A i \in 1..n : wire'[L + i] = <<t, k, i>>
  BY SMTT(30) DEF Taken
<1> HIDE DEF L
<1>2. \A i \in (L + 1)..(L + n) : wire'[i] = <<t, k, i - L>>
  <2> SUFFICES ASSUME NEW i \in (L + 1)..(L + n) PROVE wire'[i] = <<t, k, i - L>>
    OBVIOUS
  <2>1. i - L \in 1..n /\ L + (i - L) = i
    BY <1>1
  <2>2. wire'[L + (i - L)] = <<t, k, i - L>>
    BY ONLY <1>1, <2>1
  <2> QED BY ONLY <2>1, <2>2
<1>3. \A s \in Writers : Mine(s) \subseteq 1..L
  BY <1>1 DEF Mine
<1>4. Mine(t)' = Mine(t) \cup (L + 1)..(L + n)
  <2>1. \A i \in (L + 1)..(L + n) : wire'[i][1] = t
    BY <1>2
  <2>2. \A i \in 1..(L + n) : i \in 1..L \/ i \in (L + 1)..(L + n)
    BY <1>1
  <2>3. \A i \in 1..L : i \in 1..(L + n)
    BY <1>1
  <2>4. \A i \in (L + 1)..(L + n) : i \in 1..(L + n)
    BY <1>1
  <2> QED BY <1>1, <2>1, <2>2, <2>3, <2>4 DEF Mine
<1>5. \A s \in Writers \ {t} : Mine(s)' = Mine(s)
  <2>1. \A i \in (L + 1)..(L + n) : wire'[i][1] = t
    BY <1>2
  <2>2. \A i \in 1..(L + n) : i \in 1..L \/ i \in (L + 1)..(L + n)
    BY <1>1
  <2>3. \A i \in 1..L : i \in 1..(L + n)
    BY <1>1
  <2> QED BY <1>1, <2>1, <2>2, <2>3 DEF Mine
<1>6. Cardinality(Mine(t)') = Cardinality(Mine(t)) + n
  <2> DEFINE A == Mine(t)
             B == (L + 1)..(L + n)
  <2>1. IsFiniteSet(1..L) /\ IsFiniteSet(B) /\ Cardinality(B) = n
    <3>1. L + 1 \in Int /\ L + n \in Int
      BY <1>1
    <3>2. IsFiniteSet(B) /\ Cardinality(B) = IF L + 1 > L + n THEN 0 ELSE (L + n) - (L + 1) + 1
      BY <3>1, FS_Interval
    <3>3. IsFiniteSet(1..L)
      <4>1. 1 \in Int /\ L \in Int
        BY <1>1
      <4> QED BY ONLY <4>1, FS_Interval
    <3> HIDE DEF B
    <3> QED BY <1>1, <3>2, <3>3
  <2>2. IsFiniteSet(A)
    BY <1>3, <2>1, FS_Subset
  <2>3. A \cap B = {}
    BY <1>1, <1>3
  <2> HIDE DEF A, B
  <2>4. Cardinality(A \cap B) = 0
    BY <2>3, FS_EmptySet
  <2>5. Cardinality(A \cup B) = Cardinality(A) + Cardinality(B) - Cardinality(A \cap B)
    BY <2>1, <2>2, FS_Union
  <2>6. Cardinality(A) \in Nat
    BY <2>2, FS_CardinalityType
  <2>7. Cardinality(A \cup B) = Cardinality(A) + n
    BY <2>1, <2>4, <2>5, <2>6
  <2> QED BY <1>4, <2>7 DEF A, B
<1> QED BY <1>1, <1>2, <1>3, <1>4, <1>5, <1>6 DEF L

LEMMA WireInitially == NamesInit => WireInv
<1> SUFFICES ASSUME NamesInit, NEW s \in Writers PROVE WriterInv(s)
  BY DEF NamesInit, WireInv
<1> USE DEF NamesInit
<1>2. call[s] = Idle /\ wire = <<>>
  OBVIOUS
<1>3. Mine(s) = {}
  BY <1>2 DEF Mine
<1>4. call[s].vector = <<>> /\ call[s].piece = 0 /\ call[s].total = 0 /\ call[s].result = None
  BY <1>2 DEF Idle
<1>5. Given(s) = {}
  BY <1>4 DEF Given, UnitsOf
<1>6. Cardinality(Mine(s)) = 0
  BY <1>3, FS_EmptySet
<1>7. None # "total" /\ None # "error"
  BY DEF None
<1> QED BY <1>3, <1>4, <1>5, <1>6, <1>7 DEF WriterInv

LEMMA WritevKept ==
    ASSUME NamesTyped, WireInv, NEW t \in Writers, Writev(t)
    PROVE  WireInv'
<1>1. PICK v \in Vectors : call' = [call EXCEPT ![t] = [Idle EXCEPT !.vector = v, !.piece = 1]]
  BY DEF Writev
<1>2. call[t] = Idle /\ UNCHANGED wire /\ call \in [Writers -> Calls]
  BY VectorsTyped DEF Writev
<1>3. v \in Seq(Nat)
  BY VectorsAssumption
<1>4. call'[t] = [Idle EXCEPT !.vector = v, !.piece = 1] /\ \A s \in Writers \ {t} : call'[s] = call[s]
  BY <1>1, <1>2
<1>5. /\ call'[t].vector = v /\ call'[t].piece = 1 /\ call'[t].total = 0
      /\ call'[t].result = None
  BY <1>4 DEF Idle
<1>6. Mine(t)' = Mine(t)
  BY <1>2 DEF Mine
<1>7. Mine(t) = {} /\ Cardinality(Mine(t)) = 0
  <2>1. call[t].vector = <<>> /\ Given(t) = {}
    BY <1>2 DEF Idle, Given, UnitsOf
  <2>2. Mine(t) = {}
    BY <2>1 DEF WireInv, WriterInv
  <2> QED BY <2>2, FS_EmptySet
<1>8. WriterInv(t)'
  <2>1. None # "total" /\ None # "error"
    BY DEF None
  <2>2. \A u \in Given(t)' : ~(u[2] < 1)
    <3>1. Given(t)' = UnitsOf(t, v)
      BY <1>5 DEF Given
    <3> SUFFICES ASSUME NEW u \in UnitsOf(t, v) PROVE ~(u[2] < 1)
      BY <3>1
    <3>2. PICK k \in 1..Len(v) : \E i \in 1..v[k] : u = <<t, k, i>>
      BY <1>3, GivenUnits
    <3> QED BY <3>2
  <2> QED BY <1>5, <1>6, <1>7, <2>1, <2>2 DEF WriterInv
<1>9. \A s \in Writers \ {t} : WriterInv(s)'
  <2>1. \A s \in Writers : Mine(s)' = Mine(s)
    BY <1>2 DEF Mine
  <2> QED BY <1>2, <1>4, <2>1, WriterStays DEF WireInv
<1> QED BY <1>2, <1>8, <1>9 DEF WireInv

LEMMA ReturnKept ==
    ASSUME NamesTyped, WireInv, NEW t \in Writers, ReturnTotal(t)
    PROVE  WireInv'
<1>1. /\ call \in [Writers -> Calls] /\ call[t] \in Calls /\ UNCHANGED wire
      /\ call' = [call EXCEPT ![t] = Ended(call[t], "total")] /\ call[t].piece > Len(call[t].vector)
  BY VectorsTyped DEF ReturnTotal
<1>2. call'[t] = Ended(call[t], "total") /\ \A s \in Writers \ {t} : call'[s] = call[s]
  BY <1>1
<1>3. /\ call'[t].vector = call[t].vector /\ call'[t].piece = 0
      /\ call'[t].total = call[t].total /\ call'[t].result = "total"
  BY <1>1, <1>2, EndWritten
<1>4. \A s \in Writers : Mine(s)' = Mine(s)
  BY <1>1 DEF Mine
<1>5. WriterInv(t)'
  <2>1. Len(call[t].vector) \in Nat
    BY VectorsTyped
  <2>2. call[t].piece # 0
    BY <1>1, <2>1 DEF Calls
  <2>3. call[t].result = None
    BY <2>2 DEF WireInv, WriterInv
  <2>4. "total" # "error" /\ "total" # None
    BY DEF None
  <2>5. Given(t)' = Given(t)
    BY <1>3 DEF Given
  <2> QED BY <1>1, <1>3, <1>4, <2>3, <2>4, <2>5 DEF WireInv, WriterInv
<1>6. \A s \in Writers \ {t} : WriterInv(s)'
  BY <1>1, <1>2, <1>4, WriterStays DEF WireInv
<1> QED BY <1>1, <1>5, <1>6 DEF WireInv

\* What the socket takes of a piece comes next in the order.
LEMMA TakenKept ==
    ASSUME NamesTyped, WireInv, NEW t \in Writers, NEW n \in Nat,
           call[t].piece \in DOMAIN call[t].vector, Takes(t, n),
           call'[t].vector = call[t].vector
    PROVE  WriterInv(t)'
<1> DEFINE c == call[t]
           v == call[t].vector
           k == call[t].piece
           L == Len(wire)
<1>1. /\ v \in Seq(Nat) /\ k \in 1..Len(v) /\ v[k] \in Nat /\ L \in Nat
      /\ c.total \in Nat
  BY VectorsTyped DEF WireInv, Calls
<1>2. c.result = None
  BY <1>1 DEF WireInv, WriterInv
<1>3. /\ \A i \in Mine(t) : wire[i] \in UnitsOf(t, v)
      /\ \A i \in Mine(t), u \in UnitsOf(t, v) :
           Before(u, wire[i]) => \E j \in Mine(t) : j < i /\ wire[j] = u
      /\ \A i, j \in Mine(t) : i < j => Before(wire[i], wire[j])
      /\ c.total = Cardinality(Mine(t))
      /\ \A i \in Mine(t) : wire[i][2] < k
      /\ \A u \in UnitsOf(t, v) : u[2] < k => \E j \in Mine(t) : wire[j] = u
  BY <1>2 DEF WireInv, WriterInv, Given
<1>4. /\ Mine(t) \subseteq 1..L
      /\ Mine(t)' = Mine(t) \cup (L + 1)..(L + n)
      /\ \A i \in Mine(t) : wire'[i] = wire[i]
      /\ \A i \in (L + 1)..(L + n) : wire'[i] = <<t, k, i - L>>
      /\ Cardinality(Mine(t)') = Cardinality(Mine(t)) + n
  <2>1. Taken(t, k, n) /\ k \in Nat
    BY <1>1 DEF Takes
  <2> QED BY <2>1, MineGrows DEF WireInv
<1>5. Given(t)' = UnitsOf(t, v)
  BY DEF Given
<1>6. /\ n =< v[k] /\ call'[t].total = c.total + n
      /\ IF n < v[k] THEN call'[t].piece = 0 /\ call'[t].result = "total"
         ELSE call'[t].piece = k + 1 /\ call'[t].result = None
  BY <1>1, <1>2 DEF Takes
<1> HIDE DEF v, k, L, c
<1>7. \A u \in UnitsOf(t, v) :
          u[2] \in Nat /\ u[3] \in 1..v[u[2]] /\ u = <<t, u[2], u[3]>>
  <2> SUFFICES ASSUME NEW u \in UnitsOf(t, v)
               PROVE  u[2] \in Nat /\ u[3] \in 1..v[u[2]] /\ u = <<t, u[2], u[3]>>
    OBVIOUS
  <2>1. PICK q \in 1..Len(v) : \E i \in 1..v[q] : u = <<t, q, i>>
    BY <1>1, GivenUnits
  <2>2. PICK i \in 1..v[q] : u = <<t, q, i>>
    BY <2>1
  <2> QED BY <2>2
<1>8. \A i \in Mine(t)' : i \in Mine(t) \/ i \in (L + 1)..(L + n)
  BY <1>4
\* In order.
<1>9. \A i \in Mine(t)' : wire'[i] \in UnitsOf(t, v)
  <2>1. ASSUME NEW i \in (L + 1)..(L + n) PROVE wire'[i] \in UnitsOf(t, v)
    <3>1. i - L \in 1..v[k]
      BY <1>1, <1>6
    <3>2. wire'[i] = <<t, k, i - L>>
      BY <1>4
    <3> QED BY <1>1, <3>1, <3>2, GivenUnits
  <2> QED BY <1>3, <1>4, <1>8, <2>1
<1>10. ASSUME NEW i \in Mine(t)', NEW u \in UnitsOf(t, v), Before(u, wire'[i])
       PROVE  \E j \in Mine(t)' : j < i /\ wire'[j] = u
  <2>1. CASE i \in Mine(t)
    <3>1. PICK j \in Mine(t) : j < i /\ wire[j] = u
      BY <1>3, <1>4, <1>10, <2>1
    <3> QED BY <1>4, <3>1
  <2>2. CASE i \in (L + 1)..(L + n)
    <3>1. wire'[i][2] = k /\ wire'[i][3] = i - L
      BY <1>4, <2>2
    <3>2. CASE u[2] < k
      <4>1. PICK j \in Mine(t) : wire[j] = u
        BY <1>3, <3>2
      <4>2. j \in Mine(t)' /\ wire'[j] = u /\ j < i
        BY SMTT(30), <1>1, <1>4, <2>2, <4>1
      <4> QED BY <4>2
    <3>3. CASE u[2] = k /\ u[3] < i - L
      <4>1. u = <<t, k, u[3]>> /\ u[3] \in 1..v[k]
        BY <1>7, <3>3
      <4>2. L + u[3] \in (L + 1)..(L + n) /\ L + u[3] < i /\ (L + u[3]) - L = u[3]
        BY SMTT(30), <1>1, <2>2, <3>3, <4>1
      <4>3. wire'[L + u[3]] = u
        BY <1>4, <4>1, <4>2
      <4> QED BY <1>4, <4>2, <4>3
    <3> QED BY <1>10, <3>1, <3>2, <3>3 DEF Before
  <2> QED BY <1>8, <2>1, <2>2
<1>11. ASSUME NEW i \in Mine(t)', NEW j \in Mine(t)', i < j
       PROVE  Before(wire'[i], wire'[j])
  <2>1. CASE i \in Mine(t) /\ j \in Mine(t)
    BY <1>3, <1>4, <1>11, <2>1
  <2>2. CASE i \in Mine(t) /\ j \in (L + 1)..(L + n)
    <3>1. wire'[i][2] < k /\ wire'[j][2] = k
      BY <1>3, <1>4, <2>2
    <3> QED BY <3>1 DEF Before
  <2>3. CASE i \in (L + 1)..(L + n) /\ j \in (L + 1)..(L + n)
    <3>1. wire'[i] = <<t, k, i - L>> /\ wire'[j] = <<t, k, j - L>>
      BY <1>4, <2>3
    <3>2. i - L < j - L
      BY <1>1, <1>11, <2>3
    <3>3. /\ wire'[i][2] = k /\ wire'[j][2] = k
          /\ wire'[i][3] = i - L /\ wire'[j][3] = j - L /\ i - L < j - L
      BY <3>1, <3>2
    <3> QED BY <3>3 DEF Before
  <2>4. CASE i \in (L + 1)..(L + n) /\ j \in Mine(t)
    BY <1>1, <1>4, <1>11, <2>4
  <2> QED BY <1>8, <2>1, <2>2, <2>3, <2>4
\* How far.
<1>12. call'[t].total = Cardinality(Mine(t)')
  BY <1>3, <1>4, <1>6
<1>13. CASE n < v[k]
  <2>1. call'[t].piece = 0 /\ call'[t].result = "total" /\ "total" # None /\ "total" # "error"
    BY <1>6, <1>13 DEF None
  <2> QED BY <1>5, <1>9, <1>10, <1>11, <1>12, <2>1 DEF WriterInv
<1>14. CASE n = v[k]
  <2>1. /\ call'[t].piece = k + 1 /\ call'[t].result = None
        /\ None # "total" /\ None # "error"
    BY <1>1, <1>6, <1>14 DEF None
  <2>2. \A i \in Mine(t)' : wire'[i][2] < k + 1
    <3>1. \A i \in Mine(t) : wire'[i][2] < k + 1
      <4>1. \A i \in Mine(t) : wire'[i] \in UnitsOf(t, v) /\ wire'[i][2] < k
        BY <1>3, <1>4
      <4> QED BY <1>1, <1>7, <4>1
    <3>2. \A i \in (L + 1)..(L + n) : wire'[i][2] < k + 1
      BY SMTT(30), <1>1, <1>4
    <3> QED BY <1>8, <3>1, <3>2
  <2>3. ASSUME NEW u \in UnitsOf(t, v), u[2] < k + 1
        PROVE  \E j \in Mine(t)' : wire'[j] = u
    <3>1. CASE u[2] < k
      BY <1>3, <1>4, <3>1
    <3>2. CASE u[2] = k
      <4>1. u = <<t, k, u[3]>> /\ u[3] \in 1..n
        BY <1>7, <1>14, <3>2
      <4>2. L + u[3] \in (L + 1)..(L + n) /\ (L + u[3]) - L = u[3]
        BY SMTT(30), <1>1, <4>1
      <4>3. wire'[L + u[3]] = u
        BY <1>4, <4>1, <4>2
      <4> QED BY <1>4, <4>2, <4>3
    <3> QED BY <1>1, <1>7, <2>3, <3>1, <3>2
  <2> QED BY <1>5, <1>9, <1>10, <1>11, <1>12, <2>1, <2>2, <2>3 DEF WriterInv
<1> QED BY <1>1, <1>6, <1>13, <1>14

LEMMA PieceKept ==
    ASSUME NamesTyped, WireInv, NEW t \in Writers, WritePiece(t)
    PROVE  WireInv'
<1>1. call[t].piece \in DOMAIN call[t].vector /\ Turned(t)
  BY PieceTurned DEF WireInv
<1>2. /\ \A s \in Writers : s # t => call'[s] = call[s]
      /\ call'[t].vector = call[t].vector
  BY <1>1 DEF Turned
<1>3. CASE Fails(t)
  <2>1. /\ UNCHANGED wire /\ call'[t].piece = 0 /\ call'[t].total = call[t].total
        /\ call'[t].result = IF call[t].total > 0 THEN "total" ELSE "error"
    BY <1>3 DEF Fails
  <2>2. \A s \in Writers : Mine(s)' = Mine(s) /\ Given(t)' = Given(t)
    BY <1>2, <2>1 DEF Mine, Given
  <2>3. call[t].piece # 0
    <3>1. call[t].piece \in 1..Len(call[t].vector)
      BY <1>1, VectorsTyped
    <3>2. Len(call[t].vector) \in Nat
      BY VectorsTyped
    <3> QED BY <3>1, <3>2
  <2>4. call[t].result = None /\ call[t].total = Cardinality(Mine(t)) /\ call[t].total \in Nat
    BY <2>3, VectorsTyped DEF WireInv, WriterInv, Calls
  <2>5. call'[t].result = "error" => Mine(t) = {}
    <3>1. IsFiniteSet(Mine(t))
      <4>1. Len(wire) \in Int /\ 1 \in Int /\ Mine(t) \subseteq 1..Len(wire)
        BY DEF WireInv, Mine
      <4>2. IsFiniteSet(1..Len(wire))
        BY ONLY <4>1, FS_Interval
      <4> QED BY <4>1, <4>2, FS_Subset
    <3>2. Cardinality(Mine(t)) = 0 => Mine(t) = {}
      BY <3>1, FS_EmptySet
    <3> QED BY <2>1, <2>4, <3>2
  <2>6. WriterInv(t)'
    <3>1. "total" # None /\ "error" # None /\ "total" # "error"
      BY DEF None
    <3> QED BY <2>1, <2>2, <2>4, <2>5, <3>1 DEF WireInv, WriterInv
  <2>7. \A s \in Writers \ {t} : WriterInv(s)'
    BY <1>2, <2>1, <2>2, WriterStays DEF WireInv
  <2> QED BY <2>1, <2>6, <2>7 DEF WireInv
<1>4. ASSUME NEW n \in Nat, Takes(t, n) PROVE WireInv'
  <2>1. WriterInv(t)'
    BY <1>1, <1>2, <1>4, TakenKept
  <2>2. Taken(t, call[t].piece, n) /\ call[t].piece \in Nat
    BY <1>4, VectorsTyped DEF Takes, Calls
  <2>3. \A s \in Writers \ {t} : /\ Mine(s)' = Mine(s)
                                 /\ \A i \in Mine(s) : wire'[i] = wire[i]
    BY <2>2, MineGrows DEF WireInv
  <2>4. \A s \in Writers \ {t} : WriterInv(s)'
    BY <1>2, <2>3, WriterStays DEF WireInv
  <2>5. wire' \in Seq(Writers \X Nat \X Nat)
    BY <2>2 DEF Taken
  <2> QED BY <2>1, <2>4, <2>5 DEF WireInv
<1> QED BY <1>1, <1>3, <1>4 DEF Turned

\* The calls keep their form.
LEMMA CallsKept ==
    ASSUME NamesTyped, WireInv, NEW t \in Writers, Writev(t) \/ WritePiece(t) \/ ReturnTotal(t)
    PROVE  /\ call' \in [Writers -> Calls]
           /\ \A s \in Writers : call'[s].piece =< Len(call'[s].vector) + 1
           /\ UNCHANGED <<addresses, sent, options, pton>>
<1>1. /\ call \in [Writers -> Calls] /\ call[t] \in Calls
      /\ \A s \in Writers : call[s].piece =< Len(call[s].vector) + 1
  BY VectorsTyped DEF NamesTyped
<1>2. SUFFICES /\ call' \in [Writers -> Calls] /\ \A s \in Writers : s # t => call'[s] = call[s]
               /\ call'[t].piece =< Len(call'[t].vector) + 1
  BY <1>1 DEF Writev, WritePiece, ReturnTotal
<1>3. CASE Writev(t)
  <2>1. PICK v \in Vectors : call' = [call EXCEPT ![t] = [Idle EXCEPT !.vector = v, !.piece = 1]]
    BY <1>3 DEF Writev
  <2>2. v \in Seq(Nat)
    BY VectorsAssumption
  <2>3. [Idle EXCEPT !.vector = v, !.piece = 1] \in Calls
    BY DEF Idle, Calls
  <2>4. /\ call' \in [Writers -> Calls] /\ \A s \in Writers : s # t => call'[s] = call[s]
        /\ call'[t] = [Idle EXCEPT !.vector = v, !.piece = 1]
    BY <1>1, <2>1, <2>3
  <2>5. call'[t].piece = 1 /\ call'[t].vector = v
    BY <2>4 DEF Idle
  <2> QED BY <2>2, <2>4, <2>5
<1>4. CASE ReturnTotal(t)
  <2>1. call' = [call EXCEPT ![t] = Ended(call[t], "total")]
    BY <1>4 DEF ReturnTotal
  <2>2. Ended(call[t], "total") \in Calls /\ Ended(call[t], "total").piece = 0
    BY <1>1, EndWritten
  <2>3. /\ call' \in [Writers -> Calls] /\ \A s \in Writers : s # t => call'[s] = call[s]
        /\ call'[t].piece = 0 /\ call'[t].vector = call[t].vector
    BY <1>1, <2>1, <2>2, EndWritten
  <2>4. Len(call[t].vector) \in Nat
    BY VectorsTyped
  <2> QED BY <2>3, <2>4
<1>5. CASE WritePiece(t)
  <2>1. /\ call[t].piece \in DOMAIN call[t].vector /\ Turned(t)
    BY <1>5, PieceTurned DEF WireInv
  <2>2. /\ \A s \in Writers : s # t => call'[s] = call[s]
        /\ call'[t] \in Calls /\ call'[t].vector = call[t].vector
    BY <2>1 DEF Turned
  <2>3. call' \in [Writers -> Calls]
    <3>1. DOMAIN call' = Writers /\ call' = [s \in Writers |-> call'[s]]
      BY <1>1, <1>5 DEF WritePiece
    <3> QED BY <1>1, <2>2, <3>1
  <2>4. call[t].piece \in 1..Len(call[t].vector) /\ Len(call[t].vector) \in Nat
    BY <2>1, VectorsTyped
  <2>5. call'[t].piece \in {0, call[t].piece + 1}
    BY <2>1 DEF Turned, Fails, Takes
  <2> QED BY <2>2, <2>3, <2>4, <2>5
<1> QED BY <1>3, <1>4, <1>5

\* What the socket calls carry over means on the one side what it means on the other.
LEMMA NamesKept ==
    ASSUME NamesInv, WireInv, [NamesNext]_nameVars
    PROVE  NamesInv' /\ WireInv'
<1> USE DEF NamesInv, addresses, options
<1>1. NamesTyped /\ WireInv
  OBVIOUS
<1>2. ASSUME UNCHANGED <<wire, call>> PROVE WireInv'
  <2>1. \A s \in Writers : Mine(s)' = Mine(s) /\ (WriterInv(s) => WriterInv(s)')
    BY <1>2, WriterStays DEF Mine
  <2> QED BY <1>1, <1>2, <2>1 DEF WireInv
<1>3. CASE Addressing
  <2>1. /\ buffer' \in Addresses /\ told' \in [given : Addresses, got : Addresses]
        /\ meant' \in [who : Peers \cup {NoPeer}, family : Families]
        /\ list' \in {<<>>} \cup [1..2 -> Addresses]
        /\ GameReads' /\ StackReads'
        /\ UNCHANGED <<sent, options, pton, wire, call>>
    BY <1>3, AddressesKept
  <2> QED BY <1>2, <2>1 DEF NamesTyped, FlagsArrive, OptionsArrive, NamesAreNamed
<1>4. CASE Message
  BY <1>2, <1>4, MessagesKept
     DEF NamesTyped, GameReads, StackReads, OptionsArrive, NamesAreNamed
<1>5. CASE SetSockOpt \/ StackSets \/ GetSockOpt
  <2>1. /\ option' \in [Numbers(OptionNames) -> 0..1] /\ set' \in [OptionNames -> 0..1]
        /\ got' \in [of : 0..21, value : 0..1] /\ OptionsArrive'
        /\ UNCHANGED <<addresses, sent, pton, wire, call>>
    BY <1>5, OptionsKept
  <2> QED BY <1>2, <2>1 DEF NamesTyped, GameReads, StackReads, FlagsArrive, NamesAreNamed
<1>6. CASE AskHost
  BY <1>2, <1>6, HostAsked
     DEF NamesTyped, GameReads, StackReads, FlagsArrive, OptionsArrive
<1>7. ASSUME NEW t \in Writers, Writev(t) \/ WritePiece(t) \/ ReturnTotal(t)
      PROVE  NamesInv' /\ WireInv'
  <2>1. WireInv'
    BY <1>7, WritevKept, PieceKept, ReturnKept
  <2>2. /\ call' \in [Writers -> Calls]
        /\ \A s \in Writers : call'[s].piece =< Len(call'[s].vector) + 1
        /\ UNCHANGED <<addresses, sent, options, pton>>
    BY <1>7, CallsKept
  <2> QED BY <2>1, <2>2
          DEF NamesTyped, Calls, GameReads, StackReads, FlagsArrive, OptionsArrive, NamesAreNamed
<1>8. CASE UNCHANGED nameVars
  BY <1>2, <1>8
     DEF nameVars, NamesTyped, GameReads, StackReads, FlagsArrive, OptionsArrive, NamesAreNamed
<1> QED BY <1>3, <1>4, <1>5, <1>6, <1>7, <1>8 DEF NamesNext, Writing

\* Addresses both ways, flags, options and the families of a name mean on the one
\* side of the socket calls what they mean on the other, whatever the peers and the
\* sizes of the buffers are.
THEOREM NamesAlwaysTranslated == NamesSpec => []NamesTranslated
<1>1. NamesInv => NamesTranslated
  <2> SUFFICES ASSUME NamesInv PROVE NamesTypeOK
    BY DEF NamesInv, NamesTranslated
  <2> USE DEF NamesInv, NamesTyped
  <2>1. \A a \in {buffer, told.given, told.got} :
            a.b0 \in 0..255 /\ a.b1 \in 0..255 /\ a.who \in Peers \cup {NoPeer}
    <3>1. \A a \in Addresses :
             a.b0 \in 0..255 /\ a.b1 \in 0..255 /\ a.who \in Peers \cup {NoPeer}
      BY ONLY DEF Addresses
    <3>2. buffer \in Addresses /\ told.given \in Addresses /\ told.got \in Addresses
      OBVIOUS
    <3> QED BY ONLY <3>1, <3>2
  <2>2. meant.family \in {0, AF_INET, AF_INET6.game} /\ Len(list) \in {0, 2}
    BY DEF Families
  <2>3. got.of \in 0..21 /\ got.value \in 0..1 /\ {pton.v4, pton.v6} \subseteq {0 - 1, 0, 1}
    OBVIOUS
  <2>4. ASSUME NEW t \in Writers
        PROVE  call[t].total \in Nat /\ call[t].piece \in 0..Len(call[t].vector) + 1
    <3>1. call[t] \in Calls /\ Len(call[t].vector) \in Nat
      BY VectorsTyped
    <3> QED BY <3>1 DEF Calls
  <2> QED BY <2>1, <2>2, <2>3, <2>4 DEF NamesTypeOK
<1> QED
  BY <1>1, NamesInitially, WireInitially, NamesKept, PTL DEF NamesSpec

\* What a gathering write has put on the wire is the start of what it was given, in
\* order and without a gap, for any number of writers and any vectors; and its result
\* is the length of it, or an error when there is none.
THEOREM WritesAreStarts == NamesSpec => []WritesPrefix
<1>1. WireInv => WritesPrefix
  BY DEF WireInv, WriterInv, WritesPrefix
<1> QED
  BY <1>1, NamesInitially, WireInitially, NamesKept, PTL DEF NamesSpec

=============================================================================
