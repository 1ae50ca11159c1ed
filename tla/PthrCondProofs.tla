--------------------------- MODULE PthrCondProofs ---------------------------
(***************************************************************************)
(* Proofs about the waits of pthr.c and the clocks they are told by:        *)
(* PthrCond, for any numbers of threads and blocks, that a game which calls *)
(* every wrapper of a condition with its mutex held is safe from the race   *)
(* in _cond_t_static_init, although that takes no lock, and that no item is *)
(* left in the queue that nobody is on the way to; PthrSem, for any         *)
(* number of threads, limit of units, clock and width of the counter that   *)
(* wraps; Clocks, for any times.                                            *)
(***************************************************************************)
EXTENDS PthrCond, PthrSem, Clocks, FiniteSetTheorems, TLAPS

\* The variables of the condition wrappers and of the game that calls them
\* keep their types.
THEOREM TypeCorrect == Spec => []TypeOK
<1>1. Init => TypeOK
  <2> SUFFICES ASSUME Init PROVE TypeOK
    OBVIOUS
  <2>1. asleep \in [Blocks -> SUBSET Threads] /\ queue \in 0..MaxItems
    BY MaxItemsAssumption DEF Init
  <2> QED
    BY <2>1 DEF Init, TypeOK, Places
<1>2. TypeOK /\ [Next]_vars => TypeOK'
  <2> SUFFICES ASSUME TypeOK, [Next]_vars
               PROVE  TypeOK'
    OBVIOUS
  <2> USE MaxItemsAssumption
      DEF TypeOK, Places, Waits, Wakes, heap, game, At, Goto, Enter, Return, Outside
  <2>1. CASE StaticInit
    BY <2>1 DEF StaticInit, Begin
  <2>2. ASSUME NEW t \in Threads, CallInit(t) PROVE TypeOK'
    BY <2>2 DEF CallInit, Begin
  <2>3. ASSUME NEW t \in Threads, CallDestroy(t) PROVE TypeOK'
    BY <2>3 DEF CallDestroy
  <2>4. ASSUME NEW t \in Threads, Want(t) PROVE TypeOK'
    BY <2>4 DEF Want
  <2>5. ASSUME NEW t \in Threads, Lock(t) PROVE TypeOK'
    BY <2>5 DEF Lock
  <2>6. ASSUME NEW t \in Threads, Put(t) PROVE TypeOK'
    BY <2>6 DEF Put
  <2>7. ASSUME NEW t \in Threads, Proceed(t) PROVE TypeOK'
    <3>1. CASE Take(t)
      BY <3>1 DEF Take
    <3>2. CASE GiveUp(t)
      BY <3>2 DEF GiveUp
    <3>3. CASE Unlock(t)
      BY <3>3 DEF Unlock
    <3>4. CASE CallWait(t)
      BY <3>4 DEF CallWait
    <3>5. CASE CallWake(t)
      BY <3>5 DEF CallWake
    <3> QED
      BY <2>7, <3>1, <3>2, <3>3, <3>4, <3>5 DEF Proceed
  <2>8. ASSUME NEW t \in Threads, Wrapper(t) PROVE TypeOK'
    <3> USE DEF AfterInit
    <3>1. CASE Check(t)
      BY <3>1 DEF Check
    <3>2. CASE Create(t)
      <4>1. \E b \in Blocks : state[b] = "free"
        BY <3>2 DEF Create
      <4>2. (CHOOSE b \in Blocks : state[b] = "free") \in Blocks
        BY ONLY <4>1, Zenon
      <4>3. word' = CHOOSE b \in Blocks : state[b] = "free"
        BY <3>2 DEF Create
      <4>4. word' \in Blocks
        BY ONLY <4>2, <4>3, Zenon
      <4> QED
        BY <3>2, <4>4 DEF Create
    <3>3. CASE InitReal(t)
      BY <3>3 DEF InitReal
    <3>4. CASE Remember(t)
      <4>1. entries' \in Nat
        <5>1. entries \in Nat
          OBVIOUS
        <5>2. entries' = entries + 1 \/ entries' = entries
          BY <3>4 DEF Remember
        <5> QED
          BY ONLY <5>1, <5>2
      <4>2. CASE op[t] = "init"
        BY <3>4, <4>1, <4>2 DEF Remember
      <4>3. CASE op[t] # "init"
        BY <3>4, <4>1, <4>3 DEF Remember
      <4> QED
        BY <4>2, <4>3
    <3>5. CASE RealWait(t)
      BY <3>5 DEF RealWait
    <3>6. CASE RealWake(t)
      <4>1. PICK S \in Chosen(op[t], asleep[word]) :
              /\ asleep' = [asleep EXCEPT ![word] = @ \ S]
              /\ pc' = [u \in Threads |-> IF u \in S THEN "reacquire"
                                          ELSE IF u = t THEN "game" ELSE pc[u]]
        BY <3>6 DEF RealWake
      <4>2. asleep' \in [Blocks -> SUBSET Threads]
        BY <4>1
      <4>3. pc' \in [Threads -> Places]
        BY <4>1
      <4> QED
        BY <3>6, <4>2, <4>3 DEF RealWake
    <3>7. CASE Wild(t)
      BY <3>7 DEF Wild
    <3>8. CASE DestroyReal(t)
      BY <3>8 DEF DestroyReal
    <3> QED
      BY <2>8, <3>1, <3>2, <3>3, <3>4, <3>5, <3>6, <3>7, <3>8 DEF Wrapper
  <2>9. ASSUME NEW t \in Threads, Timeout(t) PROVE TypeOK'
    BY <2>9 DEF Timeout, Rouse
  <2>10. ASSUME NEW t \in Threads, Reacquire(t) PROVE TypeOK'
    BY <2>10 DEF Reacquire
  <2>11. CASE UNCHANGED vars
    BY <2>11 DEF vars
  <2> QED
    BY <2>1, <2>2, <2>3, <2>4, <2>5, <2>6, <2>7, <2>8, <2>9, <2>10, <2>11 DEF Next
<1> QED
  BY <1>1, <1>2, PTL DEF Spec

\* From the look-up to the real call.
Inside(t) == pc[t] \in {"check", "create", "initreal", "remember", "real"}

\* Who is inside pthread_cond_init is alone; who is inside another wrapper of
\* a disciplined game owns the mutex, up to the real call.
InsideOwns == \A t \in Threads : Inside(t) =>
    IF op[t] = "init"
    THEN life = "starting" /\ \A u \in Threads : u # t => At(u, "game")
    ELSE disciplined => owner = t

\* The invariant behind DisciplinedNeverRaces: it speaks of all of a wrapper,
\* since a thread that is about to look is as dangerous as one that creates.
THEOREM InsideOwnsInvariant == Spec => []InsideOwns
<1>1. Init => InsideOwns
  BY DEF Init, InsideOwns, Inside
<1>2. TypeOK /\ InsideOwns /\ [Next]_vars => InsideOwns'
  <2> SUFFICES ASSUME TypeOK, InsideOwns, [Next]_vars
               PROVE  InsideOwns'
    OBVIOUS
  <2> USE DEF TypeOK, InsideOwns, Inside, heap, game, At
  <2>1. CASE StaticInit
    BY <2>1 DEF StaticInit, Begin
  <2>2. ASSUME NEW t \in Threads, CallInit(t) PROVE InsideOwns'
    BY <2>2 DEF CallInit, Begin, Enter, Goto
  <2>3. ASSUME NEW t \in Threads, CallDestroy(t) PROVE InsideOwns'
    BY <2>3 DEF CallDestroy, Unused, Enter, Goto
  <2>4. ASSUME NEW t \in Threads, Want(t) \/ Put(t) PROVE InsideOwns'
    BY <2>4 DEF Want, Put
  <2>5. ASSUME NEW t \in Threads, Lock(t) PROVE InsideOwns'
    BY <2>5, PointersAssumption DEF Lock, Outside
  <2>6. ASSUME NEW t \in Threads, Proceed(t) PROVE InsideOwns'
    <3>1. CASE Take(t) \/ GiveUp(t)
      BY <3>1 DEF Take, GiveUp
    <3>2. CASE Unlock(t)
      BY <3>2 DEF Unlock, Outside
    <3>3. CASE CallWait(t)
      BY <3>3 DEF CallWait, Outside, Enter, Goto, Waits
    <3>4. CASE CallWake(t)
      BY <3>4 DEF CallWake, Outside, Enter, Goto, Wakes
    <3> QED
      BY <2>6, <3>1, <3>2, <3>3, <3>4 DEF Proceed
  <2>7. ASSUME NEW t \in Threads, Wrapper(t) PROVE InsideOwns'
    <3>1. CASE Check(t) \/ InitReal(t) \/ Remember(t)
      <4>1. /\ Inside(t)
            /\ UNCHANGED <<owner, disciplined>>
            /\ \A u \in Threads : u # t => pc'[u] = pc[u] /\ op'[u] = op[u]
        BY <3>1 DEF Check, InitReal, Remember, AfterInit, Return, Goto
      <4>2. Inside(t)' => op[t]' = op[t] /\ (op[t] = "init" => life' = life)
        BY <3>1 DEF Check, InitReal, Remember, AfterInit, Return, Goto
      <4>3. op[t] # "init" => life' = life
        BY <3>1 DEF Check, InitReal, Remember, AfterInit
      <4> QED
        BY <4>1, <4>2, <4>3
    <3>2. CASE Create(t)
      BY <3>2 DEF Create, Goto
    <3>3. CASE RealWait(t)
      BY <3>3 DEF RealWait, Goto, Waits
    <3>4. CASE RealWake(t)
      <4>1. \A u \in Threads : Inside(u)' => pc'[u] = pc[u] /\ op'[u] = op[u]
        BY <3>4 DEF RealWake
      <4> QED
        BY <3>4, <4>1 DEF RealWake, Wakes
    <3>5. CASE Wild(t)
      BY <3>5 DEF Wild, Return, Goto
    <3>6. CASE DestroyReal(t)
      BY <3>6 DEF DestroyReal, Return, Goto
    <3> QED
      BY <2>7, <3>1, <3>2, <3>3, <3>4, <3>5, <3>6 DEF Wrapper
  <2>8. ASSUME NEW t \in Threads, Timeout(t) PROVE InsideOwns'
    BY <2>8 DEF Timeout, Rouse
  <2>9. ASSUME NEW t \in Threads, Reacquire(t) PROVE InsideOwns'
    BY <2>9, PointersAssumption DEF Reacquire, Return, Goto
  <2>10. CASE UNCHANGED vars
    BY <2>10 DEF vars
  <2> QED
    BY <2>1, <2>2, <2>3, <2>4, <2>5, <2>6, <2>7, <2>8, <2>9, <2>10 DEF Next
<1> QED
  BY <1>1, <1>2, TypeCorrect, PTL DEF Spec

\* A program that calls every wrapper of a condition with its mutex held never
\* has two threads between the look-up and the entry in the table.
THEOREM NeverRaces == Spec => []DisciplinedNeverRaces
<1>1. TypeOK /\ InsideOwns => DisciplinedNeverRaces
  BY DEF TypeOK, InsideOwns, Inside, At, DisciplinedNeverRaces, Creating
<1> QED
  BY <1>1, TypeCorrect, InsideOwnsInvariant, PTL

-----------------------------------------------------------------------------
(* No wakeup is lost.                                                      *)

\* What each thread is doing fits the life of the object.
Phases == \A t \in Threads :
    /\ At(t, "game") => op[t] = "none"
    /\ Inside(t) => \/ op[t] = "init" /\ life = "starting"
                    \/ op[t] \in Waits \cup Wakes /\ life = "live"
    /\ pc[t] \in {"asleep", "reacquire"} => op[t] \in Waits /\ life = "live"
    /\ At(t, "destroyreal") => op[t] = "destroy" /\ life = "over"

\* A wait is made for an item, over an empty queue, with the mutex held until the
\* real wait, which gives it up.
WaitsHold == \A t \in Threads : op[t] \in Waits =>
    /\ wants[t]
    /\ IF Inside(t) THEN owner = t /\ queue = 0 ELSE owner # t

\* Who is entered as a sleeper of a real condition sleeps, and on no other.
SleepersSleep ==
    \A b, c \in Blocks, t \in Threads : t \in asleep[b] =>
        At(t, "asleep") /\ (t \in asleep[c] => b = c)

\* As long as the wrapper has not lost track: one thread at most makes the real
\* condition; it is remembered once it is there, and before nobody is past the
\* making; whoever sleeps does so on it.
OneReal == ~lost /\ life # "over" =>
    /\ entries > 0 => Creating = {} /\ IsReal(word)
    /\ entries = 0 => \A t \in Threads : pc[t] \notin {"real", "asleep"}
    /\ \A t, u \in Creating : t = u
    /\ \A t \in Threads : /\ pc[t] \in {"initreal", "remember"} => word \in Blocks
                          /\ At(t, "remember") => state[word] = "cond"
                          /\ At(t, "asleep") => t \in asleep[word]

ItemsClaimed == ~lost /\ Sleepers # {} => queue =< Cardinality(Owing) + Cardinality(Awake)

WakeInv == Phases /\ WaitsHold /\ SleepersSleep /\ OneReal /\ ItemsClaimed

\* The steps of _cond_t_static_init leave the game and the sleepers alone, and move
\* one thread: to the next step, to the real call, or out of pthread_cond_init.
LEMMA MakingMoves ==
    ASSUME TypeOK, NEW t \in Threads, Check(t) \/ Create(t) \/ InitReal(t) \/ Remember(t)
    PROVE  /\ UNCHANGED <<asleep, owner, queue, wants, owes, disciplined>>
           /\ pc[t] \in {"check", "create", "initreal", "remember"}
           /\ \A u \in Threads : u # t => pc'[u] = pc[u] /\ op'[u] = op[u]
           /\ \/ /\ pc'[t] \in {"create", "initreal", "remember"}
                 /\ op'[t] = op[t] /\ life' = life
              \/ op[t] = "init" /\ pc'[t] = "game" /\ op'[t] = "none" /\ life' = "live"
              \/ op[t] # "init" /\ pc'[t] = "real" /\ op'[t] = op[t] /\ life' = life
<1> USE DEF TypeOK, AfterInit, Return, Goto, At, heap, game
<1>1. CASE Check(t)
  BY <1>1 DEF Check
<1>2. CASE Create(t)
  BY <1>2 DEF Create
<1>3. CASE InitReal(t)
  BY <1>3 DEF InitReal
<1>4. CASE Remember(t)
  BY <1>4 DEF Remember
<1> QED BY <1>1, <1>2, <1>3, <1>4

\* What a notification does that rouses S.
Roused(t, S) ==
    /\ pc[t] = "real" /\ op[t] \in Wakes /\ IsReal(word)
    /\ asleep[word] # {} => S # {}
    /\ op[t] = "broadcast" => S = asleep[word]
    /\ \A u \in S : pc[u] = "asleep" /\ u # t /\ u \in Threads
    /\ \A u \in Threads : /\ pc'[u] = IF u \in S THEN "reacquire"
                                      ELSE IF u = t THEN "game" ELSE pc[u]
                          /\ op'[u] = IF u = t THEN "none" ELSE op[u]
                          /\ owes'[u] = IF u = t THEN FALSE ELSE owes[u]
    /\ \A b \in Blocks : asleep'[b] = IF b = word THEN asleep[b] \ S ELSE asleep[b]
    /\ UNCHANGED <<disciplined, entries, word, state, owner, queue, wants, life, lost>>

\* A notification rouses sleepers of the real condition, one at least if there are
\* any, and all of them if it is a broadcast.
LEMMA WakesSleepers ==
    ASSUME TypeOK, SleepersSleep, NEW t \in Threads, RealWake(t)
    PROVE  \E S \in SUBSET asleep[word] : Roused(t, S)
<1>1. PICK S \in Chosen(op[t], asleep[word]) :
        /\ asleep' = [asleep EXCEPT ![word] = @ \ S]
        /\ pc' = [u \in Threads |-> IF u \in S THEN "reacquire"
                                    ELSE IF u = t THEN "game" ELSE pc[u]]
  BY DEF RealWake
<1>2. /\ S \subseteq asleep[word] /\ (asleep[word] # {} => S # {})
      /\ op[t] = "broadcast" => S = asleep[word]
  BY DEF Chosen
<1>3. word \in Blocks /\ pc[t] = "real"
  BY DEF RealWake, IsReal, At
<1>4. \A u \in S : pc[u] = "asleep" /\ u # t /\ u \in Threads
  BY <1>2, <1>3 DEF SleepersSleep, At, TypeOK
<1>5. \A u \in Threads : /\ op'[u] = IF u = t THEN "none" ELSE op[u]
                         /\ owes'[u] = IF u = t THEN FALSE ELSE owes[u]
  BY DEF RealWake, TypeOK
<1>6. /\ op[t] \in Wakes /\ IsReal(word)
      /\ UNCHANGED <<disciplined, entries, word, state, owner, queue, wants, life, lost>>
  BY DEF RealWake
<1>7. \A u \in Threads : pc'[u] = IF u \in S THEN "reacquire"
                                 ELSE IF u = t THEN "game" ELSE pc[u]
  BY <1>1
<1>8. \A b \in Blocks : asleep'[b] = IF b = word THEN asleep[b] \ S ELSE asleep[b]
  BY <1>1 DEF TypeOK
<1>9. Roused(t, S)
  BY <1>2, <1>3, <1>4, <1>5, <1>6, <1>7, <1>8 DEF Roused
<1> QED BY <1>2, <1>9

LEMMA WakeInitially == Init => WakeInv
<1> SUFFICES ASSUME Init PROVE WakeInv
  OBVIOUS
<1>1. /\ \A t \in Threads : pc[t] = "game" /\ op[t] = "none"
      /\ \A b \in Blocks : asleep[b] = {}
      /\ life = "over"
  BY DEF Init
<1>2. Sleepers = {}
  BY <1>1 DEF Sleepers
<1> QED BY <1>1, <1>2 DEF WakeInv, Phases, WaitsHold, SleepersSleep, OneReal, ItemsClaimed,
                          Inside, At, Waits

LEMMA PhasesKept ==
    ASSUME TypeOK, InsideOwns, Phases, SleepersSleep, [Next]_vars
    PROVE  Phases'
<1> USE DEF TypeOK, Phases, Inside, heap, game, At
<1>1. CASE StaticInit
  BY <1>1 DEF StaticInit, Begin
<1>2. ASSUME NEW t \in Threads, CallInit(t) PROVE Phases'
  BY <1>2 DEF CallInit, Begin, Enter, Goto
<1>3. ASSUME NEW t \in Threads, CallDestroy(t) PROVE Phases'
  BY <1>3 DEF CallDestroy, Unused, Enter, Goto
<1>4. ASSUME NEW t \in Threads, Want(t) \/ Lock(t) \/ Put(t) \/ Take(t) \/ GiveUp(t) \/ Unlock(t)
      PROVE Phases'
  BY <1>4 DEF Want, Lock, Put, Take, GiveUp, Unlock
<1>5. ASSUME NEW t \in Threads, CallWait(t) \/ CallWake(t) PROVE Phases'
  <2>1. PICK w \in Waits \cup Wakes : op' = [op EXCEPT ![t] = w] /\ pc' = [pc EXCEPT ![t] = "check"]
    BY <1>5 DEF CallWait, CallWake, Enter, Goto
  <2>2. life = "live" /\ life' = life
    BY <1>5 DEF CallWait, CallWake, Outside
  <2> QED BY <2>1, <2>2
<1>6. ASSUME NEW t \in Threads, Check(t) \/ Create(t) \/ InitReal(t) \/ Remember(t) PROVE Phases'
  <2>1. op[t] = "init" => life = "starting" /\ \A u \in Threads : u # t => pc[u] = "game"
    BY <1>6, MakingMoves DEF InsideOwns
  <2> QED BY <1>6, <2>1, MakingMoves
<1>7. ASSUME NEW t \in Threads, RealWait(t) PROVE Phases'
  BY <1>7 DEF RealWait, Goto, Waits
<1>8. ASSUME NEW t \in Threads, RealWake(t) PROVE Phases'
  <2>1. PICK S \in SUBSET asleep[word] : Roused(t, S)
    BY <1>8, WakesSleepers
  <2> QED BY ZenonT(30), <2>1 DEF Roused
<1>9. ASSUME NEW t \in Threads, Wild(t) \/ Reacquire(t) \/ DestroyReal(t) PROVE Phases'
  BY <1>9 DEF Wild, Reacquire, DestroyReal, Return, Goto
<1>10. ASSUME NEW t \in Threads, Timeout(t) PROVE Phases'
  BY <1>10 DEF Timeout, Rouse
<1>11. CASE UNCHANGED vars
  BY <1>11 DEF vars
<1> QED BY <1>1, <1>2, <1>3, <1>4, <1>5, <1>6, <1>7, <1>8, <1>9, <1>10, <1>11
        DEF Next, Proceed, Wrapper

LEMMA WaitsKept ==
    ASSUME TypeOK, Phases, SleepersSleep, WaitsHold, [Next]_vars
    PROVE  WaitsHold'
<1> USE PointersAssumption DEF TypeOK, WaitsHold, Phases, Inside, heap, game, At, Waits, Wakes
<1>1. CASE StaticInit
  BY <1>1 DEF StaticInit, Begin
<1>2. ASSUME NEW t \in Threads, CallInit(t) PROVE WaitsHold'
  BY <1>2 DEF CallInit, Begin, Enter, Goto
<1>3. ASSUME NEW t \in Threads, CallDestroy(t) PROVE WaitsHold'
  BY <1>3 DEF CallDestroy, Unused, Enter, Goto
<1>4. ASSUME NEW t \in Threads, Want(t) \/ Lock(t) \/ Put(t) \/ Take(t) \/ GiveUp(t) \/ Unlock(t)
      PROVE WaitsHold'
  <2>1. /\ pc[t] = "game" /\ op[t] = "none" /\ UNCHANGED <<pc, op>>
        /\ \A u \in Threads : u # t => wants'[u] = wants[u]
    BY <1>4 DEF Want, Lock, Put, Take, GiveUp, Unlock, Outside
  <2>2. \/ owner = t /\ owner' \in {t, Nobody}
        \/ owner = Nobody /\ owner' = t /\ queue' = queue
        \/ owner' = owner /\ queue' = queue
    BY <1>4 DEF Want, Lock, Put, Take, GiveUp, Unlock, Outside
  <2> QED BY <2>1, <2>2
<1>5. ASSUME NEW t \in Threads, CallWait(t) \/ CallWake(t) PROVE WaitsHold'
  <2>1. CASE CallWait(t)
    BY <2>1 DEF CallWait, Enter, Goto, Outside
  <2>2. CASE CallWake(t)
    BY <2>2 DEF CallWake, Enter, Goto, Outside
  <2> QED BY <1>5, <2>1, <2>2
<1>6. ASSUME NEW t \in Threads, Check(t) \/ Create(t) \/ InitReal(t) \/ Remember(t)
      PROVE WaitsHold'
  BY <1>6, MakingMoves
<1>7. ASSUME NEW t \in Threads, RealWait(t) PROVE WaitsHold'
  BY <1>7 DEF RealWait, Goto
<1>8. ASSUME NEW t \in Threads, RealWake(t) PROVE WaitsHold'
  <2>1. PICK S \in SUBSET asleep[word] : Roused(t, S)
    BY <1>8, WakesSleepers
  <2>2. UNCHANGED <<owner, queue, wants>>
    BY <2>1 DEF Roused
  <2>3. ASSUME NEW u \in Threads, op'[u] \in {"wait", "timedwait"}
        PROVE  /\ op[u] = op'[u]
               /\ pc'[u] = pc[u] \/ (pc[u] = "asleep" /\ pc'[u] = "reacquire")
    BY <2>1, <2>3 DEF Roused
  <2> QED BY <2>2, <2>3
<1>9. ASSUME NEW t \in Threads, Wild(t) \/ DestroyReal(t) PROVE WaitsHold'
  BY <1>9 DEF Wild, DestroyReal, Return, Goto
<1>10. ASSUME NEW t \in Threads, Reacquire(t) PROVE WaitsHold'
  BY <1>10 DEF Reacquire, Return, Goto
<1>11. ASSUME NEW t \in Threads, Timeout(t) PROVE WaitsHold'
  BY <1>11 DEF Timeout, Rouse
<1>12. CASE UNCHANGED vars
  BY <1>12 DEF vars
<1> QED BY <1>1, <1>2, <1>3, <1>4, <1>5, <1>6, <1>7, <1>8, <1>9, <1>10, <1>11, <1>12
        DEF Next, Proceed, Wrapper

LEMMA SleepersKept ==
    ASSUME TypeOK, SleepersSleep, [Next]_vars
    PROVE  SleepersSleep'
<1> USE DEF TypeOK, SleepersSleep, heap, game, At
<1>1. CASE StaticInit
  BY <1>1 DEF StaticInit, Begin
<1>2. ASSUME NEW t \in Threads, CallInit(t) \/ CallDestroy(t) \/ CallWait(t) \/ CallWake(t)
      PROVE SleepersSleep'
  BY <1>2 DEF CallInit, Begin, CallDestroy, Unused, CallWait, CallWake, Outside, Enter, Goto
<1>3. ASSUME NEW t \in Threads, Want(t) \/ Lock(t) \/ Put(t) \/ Take(t) \/ GiveUp(t) \/ Unlock(t)
      PROVE SleepersSleep'
  BY <1>3 DEF Want, Lock, Put, Take, GiveUp, Unlock
<1>4. ASSUME NEW t \in Threads, Check(t) \/ Create(t) \/ InitReal(t) \/ Remember(t)
      PROVE SleepersSleep'
  BY <1>4, MakingMoves
<1>5. ASSUME NEW t \in Threads, RealWait(t) PROVE SleepersSleep'
  <2>1. /\ word \in Blocks /\ pc[t] = "real" /\ pc' = [pc EXCEPT ![t] = "asleep"]
        /\ asleep' = [asleep EXCEPT ![word] = @ \cup {t}]
    BY <1>5 DEF RealWait, IsReal, Goto
  <2>2. \A b \in Blocks : t \notin asleep[b]
    BY <2>1
  <2>3. \A b \in Blocks, u \in Threads : u \in asleep'[b] =>
            u \in asleep[b] \/ (u = t /\ b = word)
    BY <2>1
  <2>4. \A u \in Threads : pc[u] = "asleep" \/ u = t => pc'[u] = "asleep"
    BY <2>1
  <2> QED BY <2>2, <2>3, <2>4
<1>6. ASSUME NEW t \in Threads, RealWake(t) PROVE SleepersSleep'
  <2>1. PICK S \in SUBSET asleep[word] : Roused(t, S)
    BY <1>6, WakesSleepers
  <2>2. \A b \in Blocks, u \in Threads : u \in asleep'[b] => u \in asleep[b] /\ u \notin S
    <3>1. word \in Blocks /\ \A u \in S : u \in asleep[word]
      BY <2>1 DEF Roused, IsReal
    <3> SUFFICES ASSUME NEW b \in Blocks, NEW u \in Threads, u \in asleep'[b]
                 PROVE  u \in asleep[b] /\ u \notin S
      OBVIOUS
    <3>2. u \in asleep[b] /\ (b = word => u \notin S)
      <4>1. asleep'[b] = IF b = word THEN asleep[b] \ S ELSE asleep[b]
        BY <2>1 DEF Roused
      <4>2. CASE b = word
        BY <4>1, <4>2
      <4>3. CASE b # word
        BY <4>1, <4>3
      <4> QED BY <4>2, <4>3
    <3> QED BY <3>1, <3>2
  <2>3. \A u \in Threads : pc[u] = "asleep" /\ u \notin S => pc'[u] = "asleep"
    BY <2>1 DEF Roused
  <2> QED BY <2>2, <2>3
<1>7. ASSUME NEW t \in Threads, Wild(t) \/ DestroyReal(t) \/ Reacquire(t) PROVE SleepersSleep'
  BY <1>7 DEF Wild, DestroyReal, Reacquire, Return, Goto
<1>8. ASSUME NEW t \in Threads, Timeout(t) PROVE SleepersSleep'
  BY <1>8 DEF Timeout, Rouse
<1>9. CASE UNCHANGED vars
  BY <1>9 DEF vars
<1> QED BY <1>1, <1>2, <1>3, <1>4, <1>5, <1>6, <1>7, <1>8, <1>9 DEF Next, Proceed, Wrapper

LEMMA OneRealKept ==
    ASSUME TypeOK, TypeOK', Phases, Phases', SleepersSleep, OneReal, [Next]_vars
    PROVE  OneReal'
<1> USE DEF TypeOK, Phases, Inside, heap, game, At, Creating, IsReal
<1>1. CASE StaticInit
  <2>1. \A t \in Threads : pc'[t] = "game"
    BY <1>1 DEF StaticInit, Begin
  <2>2. entries' = entries /\ lost' = (entries > 0) /\ entries \in Nat
    BY <1>1 DEF StaticInit, Begin
  <2>3. ~lost' => entries' = 0
    <3>1. ~(entries > 0) => entries = 0
      BY DEF TypeOK
    <3> QED BY ONLY <2>2, <3>1, Zenon
  <2> QED BY <2>1, <2>3 DEF OneReal
<1>2. ASSUME NEW t \in Threads, CallInit(t) PROVE OneReal'
  <2>1. pc'[t] = "check" /\ \A u \in Threads : u # t => pc'[u] = "game"
    BY <1>2 DEF CallInit, Begin, Enter, Goto
  <2>3. entries' = entries /\ lost' = (entries > 0) /\ entries \in Nat
    BY <1>2 DEF CallInit, Begin
  <2>4. ~lost' => entries' = 0
    <3>1. ~(entries > 0) => entries = 0
      BY DEF TypeOK
    <3> QED BY ONLY <2>3, <3>1, Zenon
  <2>2. \A u \in Threads : pc'[u] \in {"check", "game"}
    BY <2>1
  <2> QED BY <2>2, <2>4 DEF OneReal
<1>3. ASSUME NEW t \in Threads, CallDestroy(t) PROVE OneReal'
  BY <1>3 DEF CallDestroy, OneReal
<1>4. ASSUME NEW t \in Threads, Want(t) \/ Lock(t) \/ Put(t) \/ Take(t) \/ GiveUp(t) \/ Unlock(t)
      PROVE OneReal'
  <2>1. UNCHANGED <<lost, life, entries, word, state, asleep, pc>>
    BY <1>4 DEF Want, Lock, Put, Take, GiveUp, Unlock
  <2> QED BY <2>1 DEF OneReal
<1>5. ASSUME NEW t \in Threads, CallWait(t) \/ CallWake(t) PROVE OneReal'
  <2>1. /\ pc[t] = "game" /\ pc' = [pc EXCEPT ![t] = "check"]
        /\ UNCHANGED <<lost, life, entries, word, state, asleep>>
    BY <1>5 DEF CallWait, CallWake, Outside, Enter, Goto
  <2>2. \A u \in Threads : pc'[u] = pc[u] \/ pc'[u] = "check"
    BY <2>1
  <2> QED BY <2>1, <2>2 DEF OneReal
<1>6. ASSUME NEW t \in Threads, Check(t) PROVE OneReal'
  <2>1. pc[t] = "check" /\ life # "over" /\ UNCHANGED <<entries, word, state, asleep>>
    BY <1>6 DEF Check
  <2>2. CASE entries > 0
    <3>1. lost' = lost /\ pc'[t] \in {"game", "real"} /\ \A u \in Threads : u # t => pc'[u] = pc[u]
      BY <1>6, <2>2 DEF Check, AfterInit, Return, Goto
    <3> QED BY <2>1, <2>2, <3>1 DEF OneReal
  <2>3. CASE ~(entries > 0)
    <3>1. /\ entries = 0 /\ lost' = (lost \/ Creating # {}) /\ life' = life
          /\ pc'[t] = "create" /\ \A u \in Threads : u # t => pc'[u] = pc[u]
      BY <1>6, <2>3 DEF Check, Goto
    <3>2. ASSUME ~lost' PROVE Creating = {} /\ ~lost
      BY <3>1, <3>2
    <3>3. ASSUME ~lost' PROVE Creating' = {t}
      BY <3>1, <3>2, <3>3
    <3> QED BY <2>1, <3>1, <3>2, <3>3 DEF OneReal
  <2> QED BY <2>2, <2>3
<1>7. ASSUME NEW t \in Threads, Create(t) PROVE OneReal'
  <2>1. /\ pc[t] = "create" /\ life # "over" /\ word' \in Blocks
        /\ pc'[t] = "initreal" /\ \A u \in Threads : u # t => pc'[u] = pc[u]
        /\ UNCHANGED <<lost, life, entries, asleep>>
    <3>1. \E b \in Blocks : state[b] = "free"
      BY <1>7 DEF Create
    <3>2. (CHOOSE b \in Blocks : state[b] = "free") \in Blocks
      BY ONLY <3>1, Zenon
    <3>3. word' = CHOOSE b \in Blocks : state[b] = "free"
      BY <1>7 DEF Create
    <3>4. word' \in Blocks
      BY ONLY <3>2, <3>3, Zenon
    <3> QED BY <1>7, <3>4 DEF Create, Goto
  <2> SUFFICES ASSUME ~lost, ~lost' PROVE OneReal'
    BY <2>1 DEF OneReal
  <2>2. Creating = {t} /\ Creating' = {t} /\ entries = 0
    BY <2>1 DEF OneReal
  <2>3. \A u \in Threads : pc'[u] \notin {"real", "asleep", "remember"}
    BY <2>1, <2>2 DEF OneReal
  <2> QED BY <2>1, <2>2, <2>3 DEF OneReal
<1>8. ASSUME NEW t \in Threads, InitReal(t) PROVE OneReal'
  <2>1. pc[t] = "initreal" /\ life # "over" /\ UNCHANGED <<entries, word, asleep>>
    BY <1>8 DEF InitReal
  <2> SUFFICES ASSUME ~lost' PROVE OneReal'
    BY DEF OneReal
  <2>2. /\ state' = [state EXCEPT ![word] = "cond"] /\ lost' = lost /\ life' = life
        /\ pc'[t] = "remember" /\ \A u \in Threads : u # t => pc'[u] = pc[u]
    BY <1>8 DEF InitReal, Goto
  <2>3. Creating = {t} /\ Creating' = {t} /\ entries = 0 /\ word \in Blocks
    BY <2>1, <2>2 DEF OneReal
  <2>4. \A u \in Threads : pc'[u] \notin {"real", "asleep"}
    BY <2>1, <2>2, <2>3 DEF OneReal
  <2> QED BY <2>1, <2>2, <2>3, <2>4 DEF OneReal
<1>9. ASSUME NEW t \in Threads, Remember(t) PROVE OneReal'
  <2>1. pc[t] = "remember" /\ life # "over" /\ UNCHANGED <<word, state, asleep>>
    BY <1>9 DEF Remember
  <2> SUFFICES ASSUME ~lost' PROVE OneReal'
    BY DEF OneReal
  <2>2. /\ entries' = entries + 1 /\ lost' = lost
        /\ pc'[t] \in {"game", "real"} /\ \A u \in Threads : u # t => pc'[u] = pc[u]
    BY <1>9 DEF Remember, AfterInit, Return, Goto
  <2>3. Creating = {t} /\ Creating' = {} /\ word \in Blocks /\ state[word] = "cond"
    BY <2>1, <2>2 DEF OneReal
  <2>4. entries' > 0 /\ entries' # 0
    BY <2>2
  <2>5. \A u \in Threads : pc'[u] = "asleep" => pc[u] = "asleep"
    BY <2>2
  <2>6. \A u \in Threads : pc'[u] \notin {"initreal", "remember"}
    BY <2>3
  <2> QED BY <2>1, <2>2, <2>3, <2>4, <2>5, <2>6 DEF OneReal
<1>10. ASSUME NEW t \in Threads, RealWait(t) PROVE OneReal'
  <2>1. /\ pc[t] = "real" /\ pc'[t] = "asleep" /\ word \in Blocks /\ state[word] = "cond"
        /\ \A u \in Threads : u # t => pc'[u] = pc[u]
        /\ asleep'[word] = asleep[word] \cup {t}
        /\ UNCHANGED <<lost, life, entries, word, state>>
    BY <1>10 DEF RealWait, Goto
  <2> QED BY <2>1 DEF OneReal
<1>11. ASSUME NEW t \in Threads, RealWake(t) PROVE OneReal'
  <2>1. PICK S \in SUBSET asleep[word] : Roused(t, S)
    BY <1>11, WakesSleepers
  <2>2. /\ asleep'[word] = asleep[word] \ S /\ UNCHANGED <<lost, life, entries, word, state>>
        /\ \A u \in Threads : pc'[u] = IF u \in S THEN "reacquire" ELSE IF u = t THEN "game" ELSE pc[u]
    BY <2>1 DEF Roused
  <2>3. Creating' \subseteq Creating
    BY <2>2
  <2>4. \A u \in Threads : /\ pc'[u] \in {"real", "asleep", "initreal", "remember"} => pc'[u] = pc[u]
                           /\ pc'[u] = "asleep" => u \notin S
    BY <2>2
  <2> QED BY <2>2, <2>3, <2>4 DEF OneReal
<1>12. ASSUME NEW t \in Threads, Wild(t) \/ Reacquire(t) PROVE OneReal'
  <2>1. /\ pc'[t] = "game" /\ \A u \in Threads : u # t => pc'[u] = pc[u]
        /\ UNCHANGED <<lost, life, entries, word, state, asleep>>
    BY <1>12 DEF Wild, Reacquire, Return, Goto
  <2>2. Creating' \subseteq Creating /\ \A u \in Threads : pc'[u] = pc[u] \/ pc'[u] = "game"
    BY <2>1
  <2> QED BY <2>1, <2>2 DEF OneReal
<1>13. ASSUME NEW t \in Threads, DestroyReal(t) PROVE OneReal'
  BY <1>13 DEF DestroyReal, OneReal
<1>14. ASSUME NEW t \in Threads, Timeout(t) PROVE OneReal'
  <2>1. /\ pc'[t] = "reacquire" /\ \A u \in Threads : u # t => pc'[u] = pc[u]
        /\ \A b \in Blocks : asleep'[b] = asleep[b] \ {t}
        /\ UNCHANGED <<lost, life, entries, word, state>>
    BY <1>14 DEF Timeout, Rouse
  <2>2. Creating' \subseteq Creating /\ \A u \in Threads : pc'[u] = pc[u] \/ u = t
    BY <2>1
  <2>3. ~lost /\ life # "over" /\ (\E u \in Threads : pc'[u] = "asleep") => word \in Blocks
    BY <2>1 DEF OneReal
  <2> QED BY <2>1, <2>2, <2>3 DEF OneReal
<1>15. CASE UNCHANGED vars
  BY <1>15 DEF vars, OneReal
<1> QED BY <1>1, <1>2, <1>3, <1>4, <1>5, <1>6, <1>7, <1>8, <1>9, <1>10, <1>11, <1>12, <1>13, <1>14,
           <1>15 DEF Next, Proceed, Wrapper

\* Sets of threads are counted: a subset has no more members, and one with a thread
\* fewer has one member fewer.
LEMMA Counted ==
    ASSUME NEW S \in SUBSET Threads
    PROVE  IsFiniteSet(S) /\ Cardinality(S) \in Nat
BY ThreadsAssumption, FS_Subset, FS_CardinalityType

LEMMA SubsetCounted ==
    ASSUME NEW S \in SUBSET Threads, NEW T \in SUBSET Threads, S \subseteq T
    PROVE  Cardinality(S) =< Cardinality(T)
BY Counted, FS_Subset

LEMMA OneMoreCounted ==
    ASSUME NEW S \in SUBSET Threads, NEW u \in Threads, u \notin S
    PROVE  Cardinality(S \cup {u}) = Cardinality(S) + 1
BY Counted, FS_AddElement

LEMMA OneLessCounted ==
    ASSUME NEW S \in SUBSET Threads, NEW T \in SUBSET Threads, NEW u \in Threads,
           S \ {u} \subseteq T
    PROVE  Cardinality(S) =< Cardinality(T) + 1
<1>1. Cardinality(S \ {u}) =< Cardinality(T)
  BY SubsetCounted
<1>2. Cardinality(S) =< Cardinality(S \ {u}) + 1
  <2>1. CASE u \in S
    <3>1. (S \ {u}) \cup {u} = S
      BY <2>1
    <3> QED BY <3>1, Counted, OneMoreCounted
  <2>2. CASE u \notin S
    <3>1. S \ {u} = S
      BY <2>2
    <3> QED BY <3>1, Counted
  <2> QED BY <2>1, <2>2
<1>3. Cardinality(S) \in Nat /\ Cardinality(T) \in Nat /\ Cardinality(S \ {u}) \in Nat
  BY Counted
<1> QED BY <1>1, <1>2, <1>3

\* A step that adds no item and takes no claim away keeps the items claimed.
LEMMA ClaimsStay ==
    ASSUME TypeOK, TypeOK', ItemsClaimed, lost => lost', Sleepers' # {} => Sleepers # {},
           queue' =< queue, Owing \subseteq Owing', Awake \subseteq Awake'
    PROVE  ItemsClaimed'
<1>1. /\ Owing \in SUBSET Threads /\ Owing' \in SUBSET Threads
      /\ Awake \in SUBSET Threads /\ Awake' \in SUBSET Threads
  BY DEF Owing, Awake
<1>2. /\ Cardinality(Owing) =< Cardinality(Owing') /\ Cardinality(Awake) =< Cardinality(Awake')
  BY <1>1, SubsetCounted
<1>3. /\ Cardinality(Owing) \in Nat /\ Cardinality(Owing') \in Nat
      /\ Cardinality(Awake) \in Nat /\ Cardinality(Awake') \in Nat
  BY <1>1, Counted
<1>4. queue \in Nat /\ queue' \in Nat
  BY MaxItemsAssumption DEF TypeOK
<1> QED BY <1>2, <1>3, <1>4 DEF ItemsClaimed

\* Over an empty queue there is nothing to claim.
LEMMA NothingToClaim ==
    ASSUME queue' = 0 PROVE ItemsClaimed'
<1>1. Cardinality(Owing') \in Nat /\ Cardinality(Awake') \in Nat
  <2>1. Owing' \in SUBSET Threads /\ Awake' \in SUBSET Threads
    BY DEF Owing, Awake
  <2> QED BY <2>1, Counted
<1> QED BY <1>1 DEF ItemsClaimed

\* Nobody sleeps unless the object lives.
LEMMA SleepersNeedLife ==
    ASSUME TypeOK, Phases, SleepersSleep, NEW b \in Blocks, NEW u \in asleep[b]
    PROVE  u \in Threads /\ pc[u] = "asleep" /\ life = "live" /\ op[u] \in Waits
<1>1. u \in Threads
  BY DEF TypeOK
<1> QED BY <1>1 DEF SleepersSleep, Phases, At

LEMMA ItemsKept ==
    ASSUME TypeOK, TypeOK', Phases, WaitsHold, SleepersSleep, OneReal, ItemsClaimed, [Next]_vars
    PROVE  ItemsClaimed'
<1> USE PointersAssumption DEF heap, game, At
<1>1. ASSUME UNCHANGED asleep, \A u \in Threads : pc[u] # "asleep" PROVE ItemsClaimed'
  <2>1. Sleepers' = {}
    BY <1>1, SleepersNeedLife DEF Sleepers
  <2> QED BY <2>1 DEF ItemsClaimed
<1>2. CASE StaticInit
  BY <1>1, <1>2 DEF StaticInit, Begin
<1>3. ASSUME NEW t \in Threads, CallInit(t) \/ CallDestroy(t) PROVE ItemsClaimed'
  BY <1>1, <1>3 DEF CallInit, Begin, CallDestroy, Unused
<1>4. ASSUME NEW t \in Threads, DestroyReal(t) PROVE ItemsClaimed'
  <2>1. life = "over"
    BY <1>4 DEF DestroyReal, Phases
  <2>2. UNCHANGED asleep
    BY <1>4 DEF DestroyReal
  <2>3. \A u \in Threads : pc[u] # "asleep"
    BY <2>1 DEF Phases
  <2> QED BY <1>1, <2>2, <2>3
<1>5. ASSUME NEW t \in Threads, Want(t) \/ Lock(t) \/ Unlock(t) PROVE ItemsClaimed'
  <2>1. UNCHANGED <<asleep, pc, queue, owes, lost>>
    BY <1>5 DEF Want, Lock, Unlock
  <2>2. \A u \in Threads : owner = u /\ wants[u] => owner' = u /\ wants'[u]
    BY <1>5 DEF Want, Lock, Unlock, TypeOK
  <2>3. Sleepers' = Sleepers /\ Owing' = Owing /\ Awake \subseteq Awake'
    BY <2>1, <2>2 DEF Sleepers, Owing, Awake
  <2>4. queue' =< queue
    BY <2>1, MaxItemsAssumption DEF TypeOK
  <2> QED BY <2>1, <2>3, <2>4, ClaimsStay
<1>6. ASSUME NEW t \in Threads, Put(t) PROVE ItemsClaimed'
  <2>1. /\ UNCHANGED <<asleep, pc, wants, owner, lost>>
        /\ queue' = queue + 1 /\ ~owes[t] /\ owes' = [owes EXCEPT ![t] = TRUE]
    BY <1>6 DEF Put
  <2>2. Sleepers' = Sleepers /\ Awake' = Awake
    BY <2>1 DEF Sleepers, Awake
  <2>3. Owing' = Owing \cup {t} /\ t \notin Owing
    BY <2>1 DEF Owing, TypeOK
  <2>4. Owing \in SUBSET Threads /\ Awake \in SUBSET Threads
    BY DEF Owing, Awake
  <2>5. Cardinality(Owing') = Cardinality(Owing) + 1
    BY <2>3, <2>4, OneMoreCounted
  <2>6. Cardinality(Owing) \in Nat /\ Cardinality(Awake) \in Nat /\ queue \in Nat
    BY <2>4, Counted, MaxItemsAssumption DEF TypeOK
  <2> QED BY <2>1, <2>2, <2>5, <2>6 DEF ItemsClaimed
<1>7. ASSUME NEW t \in Threads, Take(t) PROVE ItemsClaimed'
  <2>1. /\ UNCHANGED <<asleep, pc, owes, owner, lost>>
        /\ queue' = queue - 1 /\ queue > 0
        /\ \A u \in Threads : u # t => wants'[u] = wants[u]
    BY <1>7 DEF Take
  <2>2. Sleepers' = Sleepers /\ Owing' = Owing
    BY <2>1 DEF Sleepers, Owing
  <2>3. Awake \ {t} \subseteq Awake'
    BY <2>1 DEF Awake
  <2>4. Owing \in SUBSET Threads /\ Awake \in SUBSET Threads /\ Awake' \in SUBSET Threads
    BY DEF Owing, Awake
  <2>5. Cardinality(Awake) =< Cardinality(Awake') + 1
    BY <2>3, <2>4, OneLessCounted
  <2>6. /\ Cardinality(Owing) \in Nat /\ Cardinality(Awake) \in Nat
        /\ Cardinality(Awake') \in Nat /\ queue \in Nat
    BY <2>4, Counted, MaxItemsAssumption DEF TypeOK
  <2> QED BY <2>1, <2>2, <2>5, <2>6 DEF ItemsClaimed
<1>8. ASSUME NEW t \in Threads, GiveUp(t) PROVE ItemsClaimed'
  BY <1>8, NothingToClaim DEF GiveUp
<1>9. ASSUME NEW t \in Threads, CallWait(t) \/ CallWake(t) PROVE ItemsClaimed'
  <2>1. /\ UNCHANGED <<asleep, owes, owner, wants, queue, lost>>
        /\ pc[t] = "game" /\ \A u \in Threads : u # t => pc'[u] = pc[u]
    BY <1>9 DEF CallWait, CallWake, Outside, Enter, Goto, TypeOK
  <2>2. Sleepers' = Sleepers /\ Owing' = Owing /\ Awake \subseteq Awake'
    BY <2>1 DEF Sleepers, Owing, Awake
  <2>3. queue' =< queue
    BY <2>1, MaxItemsAssumption DEF TypeOK
  <2> QED BY <2>1, <2>2, <2>3, ClaimsStay
<1>10. ASSUME NEW t \in Threads, Check(t) \/ Create(t) \/ InitReal(t) \/ Remember(t)
       PROVE ItemsClaimed'
  <2>1. /\ UNCHANGED <<asleep, owner, queue, wants, owes>>
        /\ pc[t] # "reacquire" /\ \A u \in Threads : u # t => pc'[u] = pc[u]
    BY <1>10, MakingMoves
  <2>2. lost => lost'
    BY <1>10 DEF Check, Create, InitReal, Remember
  <2>3. Sleepers' = Sleepers /\ Owing' = Owing /\ Awake \subseteq Awake'
    BY <2>1 DEF Sleepers, Owing, Awake
  <2>4. queue' =< queue
    BY <2>1, MaxItemsAssumption DEF TypeOK
  <2> QED BY <2>2, <2>3, <2>4, ClaimsStay
<1>11. ASSUME NEW t \in Threads, RealWait(t) PROVE ItemsClaimed'
  BY <1>11, NothingToClaim DEF RealWait, WaitsHold, Inside
<1>12. ASSUME NEW t \in Threads, RealWake(t) PROVE ItemsClaimed'
  <2>1. PICK S \in SUBSET asleep[word] : Roused(t, S)
    BY <1>12, WakesSleepers
  <2> SUFFICES ASSUME ~lost', Sleepers' # {}
               PROVE  queue' =< Cardinality(Owing') + Cardinality(Awake')
    BY DEF ItemsClaimed
  <2>2. ~lost /\ word \in Blocks /\ queue' = queue /\ UNCHANGED <<owner, wants>> /\ pc[t] = "real"
    BY <2>1 DEF Roused, IsReal
  <2>3. asleep[word] # {}
    <3>1. PICK b \in Blocks, v \in Threads : v \in asleep'[b]
      BY DEF Sleepers, TypeOK
    <3>2. v \in asleep[b]
      BY <2>1, <3>1 DEF Roused
    <3>3. pc[v] = "asleep" /\ life = "live"
      BY <3>2, SleepersNeedLife
    <3> QED BY <2>2, <3>3 DEF OneReal
  <2>4. PICK u \in S : u \in Threads /\ pc[u] = "asleep" /\ op[u] \in Waits
    BY <2>1, <2>2, <2>3, SleepersNeedLife DEF Roused
  <2>5. u \notin Awake
    BY <2>4 DEF Awake, WaitsHold, Inside
  <2>6. Awake \cup {u} \subseteq Awake'
    BY <2>1, <2>2, <2>4 DEF Awake, Roused
  <2>7. Owing \ {t} \subseteq Owing'
    BY <2>1 DEF Owing, Roused
  <2>8. /\ Owing \in SUBSET Threads /\ Owing' \in SUBSET Threads
        /\ Awake \in SUBSET Threads /\ Awake' \in SUBSET Threads
    BY DEF Owing, Awake
  <2>9. Cardinality(Owing) =< Cardinality(Owing') + 1
    BY <2>7, <2>8, OneLessCounted
  <2>10. Cardinality(Awake) + 1 =< Cardinality(Awake')
    <3>1. Cardinality(Awake \cup {u}) = Cardinality(Awake) + 1
      BY <2>4, <2>5, <2>8, OneMoreCounted
    <3>2. Cardinality(Awake \cup {u}) =< Cardinality(Awake')
      BY <2>4, <2>6, <2>8, SubsetCounted
    <3> QED BY <3>1, <3>2
  <2>11. /\ Cardinality(Owing) \in Nat /\ Cardinality(Owing') \in Nat
         /\ Cardinality(Awake) \in Nat /\ Cardinality(Awake') \in Nat
    BY <2>8, Counted
  <2>12. queue \in Nat
    BY MaxItemsAssumption DEF TypeOK
  <2>13. queue =< Cardinality(Owing) + Cardinality(Awake)
    <3>1. Sleepers # {}
      BY <2>2, <2>3 DEF Sleepers
    <3> QED BY <2>2, <3>1 DEF ItemsClaimed
  <2> QED BY <2>2, <2>9, <2>10, <2>11, <2>12, <2>13
<1>13. ASSUME NEW t \in Threads, Wild(t) PROVE ItemsClaimed'
  <2>1. pc[t] = "real" /\ ~IsReal(word) /\ lost' = lost
    BY <1>13 DEF Wild
  <2>2. life # "over"
    BY <2>1 DEF Phases, Inside
  <2>3. lost
    BY <2>1, <2>2 DEF OneReal, TypeOK
  <2> QED BY <2>1, <2>3 DEF ItemsClaimed
<1>14. ASSUME NEW t \in Threads, Reacquire(t) PROVE ItemsClaimed'
  <2>1. /\ UNCHANGED <<asleep, owes, wants, queue, lost>>
        /\ pc[t] = "reacquire" /\ owner = Nobody /\ owner' = t
        /\ \A u \in Threads : u # t => pc'[u] = pc[u]
    BY <1>14 DEF Reacquire, Return, Goto, TypeOK
  <2>2. wants[t]
    BY <2>1 DEF Phases, WaitsHold
  <2>3. Sleepers' = Sleepers /\ Owing' = Owing /\ Awake \subseteq Awake'
    BY <2>1, <2>2 DEF Sleepers, Owing, Awake
  <2>4. queue' =< queue
    BY <2>1, MaxItemsAssumption DEF TypeOK
  <2> QED BY <2>1, <2>3, <2>4, ClaimsStay
<1>15. ASSUME NEW t \in Threads, Timeout(t) PROVE ItemsClaimed'
  <2>1. /\ UNCHANGED <<owner, owes, wants, queue, lost>>
        /\ \A b \in Blocks : asleep'[b] \subseteq asleep[b]
        /\ \A u \in Threads : pc'[u] = IF u = t THEN "reacquire" ELSE pc[u]
    BY <1>15 DEF Timeout, Rouse
  <2>2. (Sleepers' # {} => Sleepers # {}) /\ Owing' = Owing /\ Awake \subseteq Awake'
    BY <2>1 DEF Sleepers, Owing, Awake
  <2>3. queue' =< queue
    BY <2>1, MaxItemsAssumption DEF TypeOK
  <2> QED BY <2>1, <2>2, <2>3, ClaimsStay
<1>16. CASE UNCHANGED vars
  BY <1>16 DEF vars, ItemsClaimed, Sleepers, Owing, Awake
<1> QED BY <1>2, <1>3, <1>4, <1>5, <1>6, <1>7, <1>8, <1>9, <1>10, <1>11, <1>12, <1>13, <1>14,
           <1>15, <1>16 DEF Next, Proceed, Wrapper

\* As long as the wrapper keeps one real condition for the object, no notification
\* of the game goes astray: all sleepers sleep on that condition, and for each item
\* in the queue one more is to come or a thread is awake that will take it.
THEOREM WakeupsNeverLost == Spec => []NoLostWakeup
<1>1. TypeOK /\ TypeOK' /\ InsideOwns /\ WakeInv /\ [Next]_vars => WakeInv'
  <2> SUFFICES ASSUME TypeOK, TypeOK', InsideOwns, WakeInv, [Next]_vars PROVE WakeInv'
    OBVIOUS
  <2>1. Phases /\ WaitsHold /\ SleepersSleep /\ OneReal /\ ItemsClaimed
    BY DEF WakeInv
  <2>2. Phases'
    BY <2>1, PhasesKept
  <2>3. WaitsHold'
    BY <2>1, WaitsKept
  <2>4. SleepersSleep'
    BY <2>1, SleepersKept
  <2>5. OneReal'
    BY <2>1, <2>2, OneRealKept
  <2>6. ItemsClaimed'
    BY <2>1, ItemsKept
  <2> QED BY <2>2, <2>3, <2>4, <2>5, <2>6 DEF WakeInv
<1>2. TypeOK /\ WakeInv => NoLostWakeup
  <2> SUFFICES ASSUME TypeOK, WakeInv, ~lost, Sleepers # {} PROVE NoLostWakeup
    BY DEF NoLostWakeup
  <2>1. \A b \in Blocks : \A u \in asleep[b] : u \in Threads /\ pc[u] = "asleep" /\ life = "live"
    BY SleepersNeedLife DEF WakeInv
  <2>2. life = "live"
    BY <2>1 DEF Sleepers
  <2>3. word \in Blocks
    <3>1. PICK b \in Blocks, u \in Threads : pc[u] = "asleep"
      BY <2>1 DEF Sleepers
    <3>2. entries > 0
      BY <2>2, <3>1 DEF WakeInv, OneReal, TypeOK
    <3> QED BY <2>2, <3>2 DEF WakeInv, OneReal, IsReal
  <2>4. Sleepers = asleep[word]
    <3>1. \A b \in Blocks : asleep[b] \subseteq asleep[word]
      BY <2>1, <2>2 DEF WakeInv, OneReal, At
    <3> QED BY <2>3, <3>1 DEF Sleepers
  <2> QED BY <2>3, <2>4 DEF NoLostWakeup, WakeInv, ItemsClaimed
<1> QED
  BY <1>1, <1>2, WakeInitially, TypeCorrect, InsideOwnsInvariant, PTL DEF Spec

-----------------------------------------------------------------------------
(* PthrSem.                                                                *)

Calls == [op : SemWaits \cup {"none"}, again : BOOLEAN,
          deadline : 0..MaxClock \cup {NoDeadline}, got : Results]

\* Stronger than NothingLost: a deleted semaphore has no units, keeps nobody
\* waiting, and none that it gave counts any more.
UnitsAgree == IF alive THEN count + Cardinality(Units) = due
              ELSE count = 0 /\ Units = {} /\ \A t \in SemThreads : ~Waiting(t)

\* Who is in no call has got nothing.
NoneGot == \A t \in SemThreads : ~InCall(t) => call[t].got = "nothing"

SemInv == SemTypeOK /\ UnitsAgree /\ NoneGot

LEMMA CallsType ==
    /\ SemTypeOK => call \in [SemThreads -> Calls]
    /\ NoCall \in Calls /\ NoCall.got = "nothing" /\ NoCall.op = "none"
    /\ Forever \in -1..Wrap - 1 /\ Trial \in -1..Wrap - 1
<1>1. Forever \in -1..Wrap - 1 /\ Trial \in -1..Wrap - 1
  BY SemAssumption DEF Forever, Trial
<1>2. NoCall \in Calls /\ NoCall.got = "nothing" /\ NoCall.op = "none"
  BY DEF NoCall, Calls, SemWaits, Results
<1> QED BY <1>1, <1>2 DEF SemTypeOK, Calls

LEMMA UnitsFinite == IsFiniteSet(Units) /\ Cardinality(Units) \in Nat
BY SemAssumption, FS_Subset, FS_CardinalityType DEF Units

LEMMA SemInitially == SemInit => SemInv
<1> SUFFICES ASSUME SemInit PROVE SemInv
  OBVIOUS
<1>1. count \in 0..MaxCount /\ due \in Int /\ clock \in 0..MaxClock
  BY SemAssumption DEF SemInit
<1>2. \A t \in SemThreads : call[t] = NoCall
  BY DEF SemInit
<1>3. UnitsAgree
  BY <1>2, CallsType DEF SemInit, UnitsAgree, Units, Waiting, InCall
<1>5. NoneGot
  BY <1>2, CallsType DEF NoneGot
<1>4. call \in [SemThreads -> Calls] /\ left \in [SemThreads -> -1..Wrap - 1]
  BY CallsType DEF SemInit
<1> QED BY <1>1, <1>3, <1>4, <1>5 DEF SemInv, SemTypeOK, SemInit, Calls

\* A step that changes one call, and gives or takes no unit.
LEMMA CallChanges ==
    ASSUME SemInv, NEW t \in SemThreads, NEW c \in Calls, call' = [call EXCEPT ![t] = c],
           left' \in [SemThreads -> -1..Wrap - 1], call[t].got = "unit" <=> c.got = "unit",
           ~alive => ~(c.op # "none" /\ c.got = "nothing"),
           c.op = "none" => c.got = "nothing",
           UNCHANGED <<wide, alive, count, due, clock>>
    PROVE  SemInv'
<1> USE DEF SemInv
<1>1. call' \in [SemThreads -> Calls]
  BY CallsType
<1>2. \A u \in SemThreads : call'[u] = IF u = t THEN c ELSE call[u]
  BY CallsType
<1>3. Units' = Units
  BY <1>2 DEF Units
<1>4. ~alive => \A u \in SemThreads : ~Waiting(u)'
  BY <1>2 DEF UnitsAgree, Waiting, InCall
<1>5. SemTypeOK'
  BY <1>1 DEF SemTypeOK, Calls
<1>6. UnitsAgree'
  BY <1>3, <1>4 DEF UnitsAgree
<1>7. NoneGot'
  BY <1>2 DEF NoneGot, InCall
<1> QED BY <1>5, <1>6, <1>7

\* The three waits begin alike.
LEMMA WaitBegins ==
    ASSUME SemInv, NEW t \in SemThreads, NEW o \in SemWaits,
           NEW d \in 0..MaxClock \cup {NoDeadline}, NEW l \in -1..Wrap - 1,
           Wait(t, o, d, l)
    PROVE  SemInv'
<1> DEFINE c == [op |-> o, deadline |-> d, again |-> FALSE, got |-> "nothing"]
<1>1. c \in Calls /\ c.got = "nothing"
  BY DEF Calls, Results
<1>2. /\ alive /\ call[t].op = "none" /\ call' = [call EXCEPT ![t] = c]
      /\ left' = [left EXCEPT ![t] = l]
      /\ UNCHANGED <<wide, alive, count, due, clock>>
  BY DEF Wait, InCall
<1>3. left' \in [SemThreads -> -1..Wrap - 1]
  BY <1>2 DEF SemInv, SemTypeOK
<1>4. call[t].got # "unit" /\ c.op # "none" /\ c.got # "unit"
  BY <1>2 DEF SemInv, NoneGot, InCall, SemWaits
<1> HIDE DEF c
<1> QED BY <1>1, <1>2, <1>3, <1>4, CallChanges

LEMMA SecondWaitBounded ==
    ASSUME NEW d \in Int, SemTypeOK
    PROVE  SecondWait(d) \subseteq 0..Wrap - 1
BY SemAssumption DEF SecondWait, SemTypeOK

LEMMA GrantedStep == ASSUME SemInv, NEW t \in SemThreads, Granted(t) PROVE SemInv'
<1> USE DEF SemInv
<1>1. /\ Waiting(t) /\ count > 0 /\ count' = count - 1 /\ alive
      /\ call' = [call EXCEPT ![t].got = "unit"] /\ left' = [left EXCEPT ![t] = Forever]
      /\ UNCHANGED <<wide, alive, due, clock>>
  BY DEF Granted, Gets, UnitsAgree
<1>2. /\ call'[t].got = "unit" /\ call'[t].op = call[t].op
      /\ \A u \in SemThreads : u # t => call'[u] = call[u]
  BY <1>1, CallsType
<1>3. call' \in [SemThreads -> Calls] /\ left' \in [SemThreads -> -1..Wrap - 1]
  BY <1>1, CallsType DEF SemTypeOK, Calls, Results
<1>4. Units' = Units \cup {t} /\ t \notin Units
  BY <1>1, <1>2 DEF Units, Waiting
<1>5. Cardinality(Units') = Cardinality(Units) + 1
  BY <1>4, UnitsFinite, FS_AddElement
<1>6. UnitsAgree'
  BY <1>1, <1>5, UnitsFinite DEF UnitsAgree, SemTypeOK
<1>7. NoneGot'
  BY <1>1, <1>2 DEF NoneGot, InCall, Waiting
<1>8. SemTypeOK'
  BY <1>1, <1>3, SemAssumption DEF SemTypeOK, Calls
<1> QED BY <1>6, <1>7, <1>8

LEMMA ZeroStep == ASSUME SemInv, NEW t \in SemThreads, AnswerZero(t) PROVE SemInv'
<1> USE DEF SemInv
<1>1. /\ call[t].got \in {"unit", "spent"} /\ call' = [call EXCEPT ![t] = NoCall]
      /\ due' = IF call[t].got = "spent" THEN due ELSE due - 1
      /\ UNCHANGED <<wide, alive, count, clock, left>>
  BY DEF AnswerZero, Succeeded
<1>2. CASE call[t].got = "spent"
  <2>1. left' \in [SemThreads -> -1..Wrap - 1]
    BY <1>1 DEF SemTypeOK
  <2> QED BY <1>1, <1>2, <2>1, CallsType, CallChanges
<1>3. CASE call[t].got = "unit"
  <2>1. \A u \in SemThreads : call'[u] = IF u = t THEN NoCall ELSE call[u]
    BY <1>1, CallsType
  <2>2. Units' = Units \ {t} /\ t \in Units
    BY <1>3, <2>1, CallsType DEF Units
  <2>3. Cardinality(Units') = Cardinality(Units) - 1
    BY <2>2, UnitsFinite, FS_RemoveElement
  <2>4. UnitsAgree'
    BY <1>1, <1>3, <2>2, <2>3, UnitsFinite DEF UnitsAgree, SemTypeOK
  <2>5. NoneGot'
    BY <2>1, CallsType DEF NoneGot, InCall
  <2>6. SemTypeOK'
    BY <1>1, <1>3, CallsType DEF SemTypeOK, Calls
  <2> QED BY <2>4, <2>5, <2>6
<1> QED BY <1>1, <1>2, <1>3

LEMMA ErrorSteps ==
    ASSUME SemInv, NEW t \in SemThreads, Expired(t) \/ AnswerError(t) \/ WaitAgain(t)
    PROVE  SemInv'
<1> USE DEF SemInv
<1>0. call[t] \in Calls
  BY CallsType
<1>1. CASE Expired(t)
  <2> DEFINE c == [call[t] EXCEPT !.got = "error"]
  <2>1. /\ Waiting(t) /\ call' = [call EXCEPT ![t] = c] /\ left' = [left EXCEPT ![t] = Forever]
        /\ UNCHANGED <<wide, alive, count, due, clock>>
    BY <1>1 DEF Expired, Gets
  <2>2. c \in Calls /\ c.got = "error" /\ c.op = call[t].op
    BY <1>0 DEF Calls, Results
  <2>3. left' \in [SemThreads -> -1..Wrap - 1]
    BY <2>1, CallsType DEF SemTypeOK
  <2> HIDE DEF c
  <2> QED BY <2>1, <2>2, <2>3, CallChanges DEF Waiting, InCall
<1>2. CASE AnswerError(t)
  <2>1. /\ ~Succeeded(t) /\ call' = [call EXCEPT ![t] = NoCall]
        /\ UNCHANGED <<wide, alive, count, due, clock, left>>
    BY <1>2 DEF AnswerError
  <2> QED BY <2>1, CallsType, CallChanges DEF Succeeded, SemTypeOK
<1>3. CASE WaitAgain(t)
  <2> DEFINE g == IF alive THEN "nothing" ELSE "error"
             c == [call[t] EXCEPT !.again = TRUE, !.got = g]
  <2>1. /\ ~Succeeded(t) /\ call[t].op = "timedwait" /\ call' = [call EXCEPT ![t] = c]
        /\ UNCHANGED <<wide, alive, count, due, clock>>
    BY <1>3, CallsType DEF WaitAgain, TriesAgain
  <2>2. c \in Calls /\ c.got = g /\ c.op = call[t].op
    BY <1>0 DEF Calls, Results
  <2>3. left' \in [SemThreads -> -1..Wrap - 1]
    <3>1. CASE alive
      <4>1. PICK time \in SecondWait(call[t].deadline) : left' = [left EXCEPT ![t] = time]
        BY <1>3, <3>1 DEF WaitAgain
      <4>2. call[t].deadline \in Int
        BY <1>0 DEF Calls, NoDeadline
      <4>3. time \in -1..Wrap - 1
        BY <4>1, <4>2, SecondWaitBounded, SemAssumption
      <4> QED BY <4>1, <4>3 DEF SemTypeOK
    <3>2. CASE ~alive
      BY <1>3, <3>2 DEF WaitAgain, SemTypeOK
    <3> QED BY <3>1, <3>2
  <2> HIDE DEF c
  <2> QED BY <2>1, <2>2, <2>3, CallChanges DEF Succeeded
<1> QED BY <1>1, <1>2, <1>3

LEMMA DestroySemStep == ASSUME SemInv, NEW t \in SemThreads, sem_destroy(t) PROVE SemInv'
<1> USE DEF SemInv
<1>1. /\ alive' = FALSE /\ count' = 0 /\ due' = 0 /\ UNCHANGED <<wide, clock>>
      /\ left' = [u \in SemThreads |-> Forever]
      /\ call' = [u \in SemThreads |->
                     IF Waiting(u) THEN [call[u] EXCEPT !.got = "error"]
                     ELSE IF call[u].got = "unit" THEN [call[u] EXCEPT !.got = "spent"]
                     ELSE call[u]]
  BY DEF sem_destroy
<1>2. ASSUME NEW u \in SemThreads
      PROVE  /\ call'[u] \in Calls /\ call'[u].got # "unit" /\ ~Waiting(u)'
             /\ ~InCall(u)' => call'[u].got = "nothing"
  <2>1. call[u] \in Calls /\ (~InCall(u) => call[u].got = "nothing")
    BY CallsType DEF NoneGot
  <2>2. CASE Waiting(u)
    <3>1. call'[u] = [call[u] EXCEPT !.got = "error"]
      BY <1>1, <2>2
    <3>2. call'[u] \in Calls /\ call'[u].got = "error" /\ call'[u].op = call[u].op
      BY <2>1, <3>1 DEF Calls, Results
    <3> QED BY <2>2, <3>2 DEF Waiting, InCall
  <2>3. CASE ~Waiting(u) /\ call[u].got = "unit"
    <3>1. call'[u] = [call[u] EXCEPT !.got = "spent"]
      BY <1>1, <2>3
    <3>2. call'[u] \in Calls /\ call'[u].got = "spent" /\ call'[u].op = call[u].op
      BY <2>1, <3>1 DEF Calls, Results
    <3> QED BY <2>1, <2>3, <3>2 DEF Waiting, InCall
  <2>4. CASE ~Waiting(u) /\ call[u].got # "unit"
    <3>1. call'[u] = call[u]
      BY <1>1, <2>4
    <3> QED BY <2>1, <2>4, <3>1 DEF Waiting, InCall
  <2> QED BY <2>2, <2>3, <2>4
<1>3. call' \in [SemThreads -> Calls]
  BY <1>1, <1>2
<1>4. UnitsAgree' /\ NoneGot'
  BY <1>1, <1>2 DEF UnitsAgree, Units, NoneGot
<1>5. count' \in 0..MaxCount /\ due' \in Int /\ left' \in [SemThreads -> -1..Wrap - 1]
  BY <1>1, CallsType, SemAssumption
<1>6. SemTypeOK'
  BY <1>1, <1>3, <1>5 DEF SemTypeOK, Calls
<1> QED BY <1>4, <1>6

LEMMA SemStep == SemInv /\ [SemNext]_semVars => SemInv'
<1> SUFFICES ASSUME SemInv, [SemNext]_semVars PROVE SemInv'
  OBVIOUS
<1> USE DEF SemInv
<1>1. CASE Tick
  <2>1. clock' \in 0..MaxClock /\ left' \in [SemThreads -> -1..Wrap - 1]
    BY <1>1, SemAssumption DEF Tick, SemTypeOK
  <2>2. UNCHANGED <<wide, alive, count, due, call>>
    BY <1>1 DEF Tick
  <2> QED BY <2>1, <2>2 DEF SemTypeOK, UnitsAgree, Units, NoneGot, Waiting, InCall
<1>2. ASSUME NEW t \in SemThreads, sem_init(t) PROVE SemInv'
  <2>1. PICK value \in 0..1 :
            /\ count' = value /\ due' = value /\ alive' = TRUE /\ ~alive
            /\ UNCHANGED <<wide, clock, call, left>>
    BY <1>2 DEF sem_init
  <2>2. Units' = {}
    BY <2>1 DEF UnitsAgree, Units
  <2>3. UnitsAgree'
    BY <2>1, <2>2, FS_EmptySet DEF UnitsAgree
  <2> QED BY <2>1, <2>3, SemAssumption DEF SemTypeOK, NoneGot, InCall
<1>3. ASSUME NEW t \in SemThreads, sem_post(t) PROVE SemInv'
  <2>1. /\ alive /\ count < MaxCount /\ count' = count + 1 /\ due' = due + 1
        /\ UNCHANGED <<wide, alive, clock, call, left>>
    BY <1>3 DEF sem_post
  <2>2. Units' = Units
    BY <2>1 DEF Units
  <2>3. UnitsAgree'
    BY <2>1, <2>2, UnitsFinite DEF UnitsAgree, SemTypeOK
  <2> QED BY <2>1, <2>3, SemAssumption DEF SemTypeOK, NoneGot, InCall
<1>4. ASSUME NEW t \in SemThreads, sem_wait(t) \/ sem_trywait(t) \/ sem_timedwait(t)
      PROVE  SemInv'
  <2>1. {"wait", "trywait", "timedwait"} = SemWaits
    BY DEF SemWaits
  <2> QED BY <1>4, <2>1, CallsType, WaitBegins DEF sem_wait, sem_trywait, sem_timedwait
<1>5. CASE UNCHANGED semVars
  BY <1>5 DEF semVars, SemTypeOK, UnitsAgree, Units, NoneGot, Waiting, InCall
<1> QED BY <1>1, <1>2, <1>3, <1>4, <1>5, GrantedStep, ZeroStep, ErrorSteps, DestroySemStep
        DEF SemNext, Returns

\* Between posts, waits with and without a limit, trials that are granted late
\* and deletions, no unit is taken by a call that answers -1, and no call answers 0
\* without one, for any number of threads.
THEOREM SemUnits == SemSpec => [](SemTypeOK /\ NothingLost)
<1>1. SemInv => SemTypeOK /\ NothingLost
  BY DEF SemInv, UnitsAgree, NothingLost
<1> QED BY <1>1, SemInitially, SemStep, PTL DEF SemSpec

-----------------------------------------------------------------------------
(* Clocks.                                                                 *)

ClocksSpec == ClocksInit /\ [][ClocksNext]_clockVars

\* What an answer came from, and that its time has been.
Came(answer) ==
    /\ answer.from \in {"none", "wall", "up"} /\ answer.time \in Nat
    /\ answer.from = "wall" /\ ~wasSet => answer.time <= wallClock
    /\ answer.from = "up" => answer.time <= upTime
    /\ answer.from # "none" =>
          answer.from = IF clockid_bionic_to_vita(clk_id) \in Supported \ {"REALTIME"}
                        THEN "up" ELSE "wall"

ClocksInv ==
    /\ wallClock \in Nat /\ upTime \in Nat /\ wasSet \in BOOLEAN
    /\ shown = NoTime \/ shown.from # "none"
    /\ Came(shown) /\ Came(before)
    /\ ClocksKeepTime

LEMMA ClocksInitially == ClocksInit => ClocksInv
<1> SUFFICES ASSUME ClocksInit PROVE ClocksInv
  OBVIOUS
<1>1. /\ wallClock \in Nat /\ upTime = 0 /\ wasSet = FALSE
      /\ shown = [from |-> "none", time |-> 0] /\ before = [from |-> "none", time |-> 0]
  BY TimesAssumption DEF ClocksInit, NoTime
<1>2. Came(shown) /\ Came(before)
  BY <1>1 DEF Came
<1>3. ClocksKeepTime
  BY <1>1 DEF ClocksKeepTime, NoTime
<1> QED BY <1>1, <1>2, <1>3 DEF ClocksInv, NoTime

LEMMA ClocksStep == ClocksInv /\ [ClocksNext]_clockVars => ClocksInv'
<1> SUFFICES ASSUME ClocksInv, [ClocksNext]_clockVars PROVE ClocksInv'
  OBVIOUS
<1>1. CASE GoesOn
  <2>1. /\ wallClock' = wallClock + 1 /\ upTime' = upTime + 1
        /\ UNCHANGED <<wasSet, clk_id, shown, before>>
    BY <1>1 DEF GoesOn
  <2>2. Came(shown)' /\ Came(before)'
    BY <2>1 DEF ClocksInv, Came, clockid_bionic_to_vita, Name, BionicClocks
  <2> QED BY <2>1, <2>2 DEF ClocksInv, ClocksKeepTime, NoTime, Name, BionicClocks
<1>2. CASE SetTime
  <2>1. wallClock' \in Nat /\ wasSet' = TRUE /\ UNCHANGED <<upTime, clk_id, shown, before>>
    BY <1>2, TimesAssumption DEF SetTime
  <2>2. Came(shown)' /\ Came(before)'
    BY <2>1 DEF ClocksInv, Came, clockid_bionic_to_vita, Name, BionicClocks
  <2> QED BY <2>1, <2>2 DEF ClocksInv, ClocksKeepTime, NoTime, Name, BionicClocks
<1>3. CASE clock_gettime
  <2> DEFINE source == clockid_bionic_to_vita(clk_id)
  <2>1. /\ before' = shown
        /\ shown' = IF source \in Supported \ {"REALTIME"} THEN UpTime ELSE WallTime
        /\ UNCHANGED <<wallClock, upTime, wasSet, clk_id>>
    BY <1>3 DEF clock_gettime
  <2>2. source' = source
    BY <2>1 DEF clockid_bionic_to_vita, Name, BionicClocks
  <2>3. /\ Name(clk_id) \in Wall => source = "REALTIME"
        /\ Name(clk_id) = "MONOTONIC" => source = "MONOTONIC"
    BY DEF clockid_bionic_to_vita, Wall
  <2>4. "MONOTONIC" \in Supported \ {"REALTIME"}
    BY SupportedAssumption
  <2>5. Name(clk_id)' = Name(clk_id)
    BY <2>1 DEF Name, BionicClocks
  <2> HIDE DEF source
  <2>6. Came(shown)' /\ Came(before)' /\ shown'.from # "none"
    BY <2>1, <2>2 DEF ClocksInv, Came, UpTime, WallTime, source
  <2>7. ClocksKeepTime'
    <3>1. /\ shown'.from = "wall" \/ Name(clk_id)' \notin Wall
          /\ shown'.from = "up" \/ Name(clk_id)' # "MONOTONIC"
      BY <2>1, <2>3, <2>4, <2>5 DEF UpTime, WallTime
    <3>2. ASSUME before'.from # "none"
          PROVE  /\ shown'.from = before'.from
                 /\ shown'.time >= before'.time \/ (wasSet' /\ shown'.from = "wall")
      BY <3>2, <2>1 DEF ClocksInv, Came, UpTime, WallTime, source
    <3> QED BY <3>1, <3>2 DEF ClocksKeepTime
  <2> QED BY <2>1, <2>6, <2>7 DEF ClocksInv
<1>4. CASE UNCHANGED clockVars
  BY <1>4 DEF clockVars, ClocksInv, Came, ClocksKeepTime, NoTime,
              clockid_bionic_to_vita, Name, BionicClocks
<1> QED BY <1>1, <1>2, <1>3, <1>4 DEF ClocksNext

\* Whichever of its clocks newlib refuses, the game's difference of two answers
\* of clock_gettime_traced is below 0 only if the user set the time of day.
THEOREM ClocksHold == ClocksSpec => []ClocksKeepTime
<1>1. ClocksInv => ClocksKeepTime
  BY DEF ClocksInv
<1> QED BY <1>1, ClocksInitially, ClocksStep, PTL DEF ClocksSpec
=============================================================================
