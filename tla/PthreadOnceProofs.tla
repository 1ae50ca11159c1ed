-------------------------- MODULE PthreadOnceProofs -------------------------
(***************************************************************************)
(* What PthreadOnce guarantees for every set of threads and every set of   *)
(* control words: its types, the inductive invariant OnceInv and from it   *)
(* CompleteBeforeReturn, and that it implements OnceContract.  For any     *)
(* callers and depths of frames, what ProcessEnd records of each end.      *)
(***************************************************************************)
EXTENDS PthreadOnce, ProcessEnd, TLAPS

\* The variables of pthread_once_soloader and of its history keep their
\* types: a control word is never anything but 0, 1 or 2.
THEOREM TypeCorrect == Spec => []TypeOK
<1>1. Init => TypeOK
  BY DEF Init, TypeOK, Places
<1>2. TypeOK /\ [Next]_vars => TypeOK'
  <2> SUFFICES ASSUME TypeOK, [Next]_vars
               PROVE  TypeOK'
    OBVIOUS
  <2> USE DEF TypeOK, Places, Goto, Executing
  <2>1. ASSUME NEW t \in Threads, NEW c \in Controls, Call(t, c)
        PROVE  TypeOK'
    BY <2>1 DEF Call
  <2>2. ASSUME NEW t \in Threads, NEW c \in Controls, Win(t, c)
        PROVE  TypeOK'
    BY <2>2 DEF Win
  <2>3. ASSUME NEW t \in Threads, NEW c \in Controls, Lose(t, c)
        PROVE  TypeOK'
    BY <2>3 DEF Lose
  <2>4. ASSUME NEW t \in Threads, NEW c \in Controls, InitReturns(t, c)
        PROVE  TypeOK'
    BY <2>4 DEF InitReturns
  <2>5. ASSUME NEW t \in Threads, NEW c \in Controls, Publish(t, c)
        PROVE  TypeOK'
    BY <2>5 DEF Publish
  <2>6. ASSUME NEW t \in Threads, NEW c \in Controls, WaitDone(t, c)
        PROVE  TypeOK'
    BY <2>6 DEF WaitDone
  <2>7. CASE UNCHANGED vars
    BY <2>7 DEF vars
  <2> QED
    BY <2>1, <2>2, <2>3, <2>4, <2>5, <2>6, <2>7 DEF Next, Wrapper
<1> QED
  BY <1>1, <1>2, PTL DEF Spec

\* Moving one call leaves every other call where it was.
LEMMA GotoMoves ==
    ASSUME TypeOK, NEW t \in Threads, NEW c \in Controls,
           NEW place \in Places, Goto(t, c, place)
    PROVE  \A u \in Threads, d \in Controls :
               pc'[u][d] = IF u = t /\ d = c THEN place ELSE pc[u][d]
  BY DEF TypeOK, Goto

\* The joint meaning of the word, the initialiser's progress and the calls in
\* progress, for any number of racing callers of pthread_once_soloader.
THEOREM OnceInvariant == Spec => []OnceInv
<1>1. Init => OnceInv
  BY DEF Init, OnceInv, WordMeaning, OneInside, ReturnedMeansDone, InsideInit
<1>2. TypeOK /\ OnceInv /\ [Next]_vars => OnceInv'
  <2> SUFFICES ASSUME TypeOK, OnceInv, [Next]_vars
               PROVE  OnceInv'
    OBVIOUS
  <2> USE DEF OnceInv, WordMeaning, OneInside, ReturnedMeansDone, InsideInit,
              Executing, Places
  <2>1. ASSUME NEW t \in Threads, NEW c \in Controls, Call(t, c)
        PROVE  OnceInv'
    <3>1. \A u \in Threads, d \in Controls :
              pc'[u][d] = IF u = t /\ d = c THEN "cas" ELSE pc[u][d]
      BY <2>1, GotoMoves DEF Call
    <3>2. pc[t][c] = "out"
      BY <2>1, ControlsAssumption DEF Call
    <3> QED
      BY <2>1, <3>1, <3>2 DEF Call
  <2>2. ASSUME NEW t \in Threads, NEW c \in Controls, Win(t, c)
        PROVE  OnceInv'
    <3>1. \A u \in Threads, d \in Controls :
              pc'[u][d] = IF u = t /\ d = c THEN "init" ELSE pc[u][d]
      BY <2>2, GotoMoves DEF Win
    <3>2. WordMeaning'
      BY <2>2 DEF Win, TypeOK
    <3>3. OneInside'
      BY <2>2, <3>1 DEF Win, TypeOK
    <3>4. ReturnedMeansDone'
      BY <2>2 DEF Win, TypeOK
    <3> QED
      BY <3>2, <3>3, <3>4
  <2>3. ASSUME NEW t \in Threads, NEW c \in Controls, Lose(t, c)
        PROVE  OnceInv'
    <3>1. \A u \in Threads, d \in Controls :
              pc'[u][d] = IF u = t /\ d = c THEN "wait" ELSE pc[u][d]
      BY <2>3, GotoMoves DEF Lose
    <3> QED
      BY <2>3, <3>1 DEF Lose
  <2>4. ASSUME NEW t \in Threads, NEW c \in Controls, InitReturns(t, c)
        PROVE  OnceInv'
    <3>1. \A u \in Threads, d \in Controls :
              pc'[u][d] = IF u = t /\ d = c THEN "store" ELSE pc[u][d]
      BY <2>4, GotoMoves DEF InitReturns
    <3>2. WordMeaning'
      BY <2>4 DEF InitReturns, TypeOK
    <3>3. OneInside'
      BY <2>4, <3>1 DEF InitReturns, TypeOK
    <3>4. ReturnedMeansDone'
      BY <2>4 DEF InitReturns
    <3> QED
      BY <3>2, <3>3, <3>4
  <2>5. ASSUME NEW t \in Threads, NEW c \in Controls, Publish(t, c)
        PROVE  OnceInv'
    <3>1. \A u \in Threads, d \in Controls :
              pc'[u][d] = IF u = t /\ d = c THEN "out" ELSE pc[u][d]
      BY <2>5, GotoMoves DEF Publish
    <3>2. WordMeaning'
      BY <2>5 DEF Publish, TypeOK
    <3>3. OneInside'
      BY <2>5, <3>1 DEF Publish, TypeOK
    <3>4. ReturnedMeansDone'
      BY <2>5 DEF Publish, TypeOK
    <3> QED
      BY <3>2, <3>3, <3>4
  <2>6. ASSUME NEW t \in Threads, NEW c \in Controls, WaitDone(t, c)
        PROVE  OnceInv'
    <3>1. \A u \in Threads, d \in Controls :
              pc'[u][d] = IF u = t /\ d = c THEN "out" ELSE pc[u][d]
      BY <2>6, GotoMoves DEF WaitDone
    <3> QED
      BY <2>6, <3>1 DEF WaitDone
  <2>7. CASE UNCHANGED vars
    BY <2>7 DEF vars
  <2> QED
    BY <2>1, <2>2, <2>3, <2>4, <2>5, <2>6, <2>7 DEF Next, Wrapper
<1> QED
  BY <1>1, <1>2, TypeCorrect, PTL DEF Spec

\* No call returns before the initialiser has run, once, to its end.
THEOREM ReturnsComplete == Spec => []CompleteBeforeReturn
<1>1. OnceInv => CompleteBeforeReturn
  BY DEF OnceInv, WordMeaning, ReturnedMeansDone, CompleteBeforeReturn
<1> QED
  BY <1>1, OnceInvariant, PTL

\* Every step of the three-valued protocol is a step of the contract or
\* changes nothing the contract speaks of.
THEOREM Implements == Spec => ImplementsContract
<1>1. Init => Contract!Init
  BY DEF Init, Contract!Init
<1>2. TypeOK /\ OnceInv /\ [Next]_vars => [Contract!Next]_(Contract!vars)
  <2> SUFFICES ASSUME TypeOK, OnceInv, [Next]_vars
               PROVE  [Contract!Next]_(Contract!vars)
    OBVIOUS
  <2> USE DEF Executing, OnceInv
  <2>1. ASSUME NEW t \in Threads, NEW c \in Controls, Call(t, c)
        PROVE  UNCHANGED Contract!vars
    BY <2>1 DEF Call, Contract!vars
  <2>2. ASSUME NEW t \in Threads, NEW c \in Controls, Win(t, c)
        PROVE  Contract!Begin(c)
    <3>1. begun[c] = 0 /\ begun[c] + 1 = 1
      BY <2>2 DEF Win, WordMeaning
    <3>2. begun' = [begun EXCEPT ![c] = 1]
      BY <2>2, <3>1 DEF Win
    <3> QED
      BY <2>2, <3>1, <3>2 DEF Win, Contract!Begin
  <2>3. ASSUME NEW t \in Threads, NEW c \in Controls, Lose(t, c)
        PROVE  UNCHANGED Contract!vars
    BY <2>3 DEF Lose, Contract!vars
  <2>4. ASSUME NEW t \in Threads, NEW c \in Controls, InitReturns(t, c)
        PROVE  Contract!End(c)
    <3>1. pc[t][c] = "init"
      BY <2>4 DEF InitReturns
    <3>2. begun[c] = 1 /\ ended[c] = 0 /\ ended[c] + 1 = 1
      BY <3>1 DEF WordMeaning, OneInside, InsideInit
    <3>3. ended' = [ended EXCEPT ![c] = 1]
      BY <2>4, <3>2 DEF InitReturns
    <3> QED
      BY <2>4, <3>2, <3>3 DEF InitReturns, Contract!End
  <2>5. ASSUME NEW t \in Threads, NEW c \in Controls, Publish(t, c)
        PROVE  Contract!Return(t, c)
    BY <2>5 DEF Publish, OneInside, InsideInit, Contract!Return
  <2>6. ASSUME NEW t \in Threads, NEW c \in Controls, WaitDone(t, c)
        PROVE  Contract!Return(t, c)
    BY <2>6 DEF WaitDone, WordMeaning, Contract!Return
  <2>7. CASE UNCHANGED vars
    BY <2>7 DEF vars, Contract!vars
  <2> QED
    BY <2>1, <2>2, <2>3, <2>4, <2>5, <2>6, <2>7
       DEF Next, Wrapper, Contract!Next
<1> QED
  BY <1>1, <1>2, TypeCorrect, OnceInvariant, PTL
     DEF Spec, ImplementsContract, Contract!Spec

-----------------------------------------------------------------------------
(* The ends of the process.                                                *)

EndSpec == EndInit /\ [][EndNext]_endVars

\* A thread that has made its record, or was refused one, and has not ended the
\* process yet.
Recorded == {"kill", "trace", "exit", "trap"}

\* From the moment such a thread goes on to kill_soloader there is a record in the
\* file, or another thread is about to write its own.
RecordKept ==
    \A t \in Callers \ byKill : step[t] \in Recorded =>
        refused \/ record \in Callers \/ \E u \in Callers : step[u] = "write"

LEMMA EndStarts == EndInit => EndTypeOK /\ RecordKept
<1> SUFFICES ASSUME EndInit PROVE EndTypeOK /\ RecordKept
  OBVIOUS
<1> USE DEF EndInit
<1>1. step \in [Callers -> Steps] /\ sig \in [Callers -> Signals \cup {0}] /\ byKill \subseteq Callers
  BY DEF Steps
<1>2. stack \in [1..Deep -> Words] /\ frames \in 0..Deep /\ env \in 0..Deep
  BY DeepAssumption DEF Words
<1>3. /\ traced \in BOOLEAN /\ alive \in BOOLEAN /\ refused \in BOOLEAN /\ landed \in Words
      /\ record \in {Unset, "empty"} \cup Callers
  BY DEF Words
<1>4. \A t \in Callers : step[t] = "game"
  OBVIOUS
<1> QED BY <1>1, <1>2, <1>3, <1>4 DEF EndTypeOK, RecordKept, Recorded

\* Every way to end the process leaves the types of what it moves.
LEMMA EndingTyped ==
    ASSUME EndTypeOK, NEW t \in Callers, Ends(t) \/ EndNow(t)
    PROVE  /\ traced' \in BOOLEAN /\ alive' \in BOOLEAN /\ refused' \in BOOLEAN
           /\ step' \in [Callers -> Steps] /\ sig' \in [Callers -> Signals \cup {0}]
           /\ byKill' \subseteq Callers /\ record' \in {Unset, "empty"} \cup Callers
           /\ \A u \in Callers : step'[u] = "write" => record' # Unset
<1> USE DEF EndTypeOK, GoTo, Steps
<1>1. CASE EndNow(t)
  <2>1. PICK first \in {"kill", "log", "assert"}, s \in Signals : Ask(t, first, s)
    BY <1>1 DEF EndNow, KillCall, RaiseCall, AbortCall, AssertCall, Signals
  <2>2. byKill' = byKill \cup {t} \/ byKill' = byKill \ {t}
    BY <1>1 DEF EndNow, KillCall, RaiseCall, AbortCall, AssertCall
  <2> QED BY <2>1, <2>2 DEF Ask
<1>2. CASE AssertLog(t)
  BY <1>2 DEF AssertLog
<1>3. CASE OpenRecord(t)
  BY <1>3 DEF OpenRecord, Unset
<1>4. CASE WriteRecord(t)
  BY <1>4, CallersAssumption DEF WriteRecord, Unset
<1>5. CASE Kill(t)
  BY <1>5 DEF Kill, LibraryKill
<1>6. CASE KillTrace(t)
  BY <1>6 DEF KillTrace
<1>7. CASE ExitProcess(t)
  BY <1>7 DEF ExitProcess
<1> QED BY <1>1, <1>2, <1>3, <1>4, <1>5, <1>6, <1>7 DEF Ends

LEMMA EndTypeKept == EndTypeOK /\ [EndNext]_endVars => EndTypeOK'
<1> SUFFICES ASSUME EndTypeOK, [EndNext]_endVars PROVE EndTypeOK'
  OBVIOUS
<1>1. ASSUME NEW t \in Callers, Ends(t) \/ EndNow(t) PROVE EndTypeOK'
  <2>1. UNCHANGED <<stack, frames, env, landed>>
    BY <1>1 DEF Ends, EndNow, jumping
  <2> QED BY <1>1, <2>1, EndingTyped DEF EndTypeOK
<1>2. CASE Jumps
  <2>1. UNCHANGED ending
    BY <1>2 DEF Jumps, SigSetJmp, Enter, Leave, SigLongJmp
  <2>2. stack' \in [1..Deep -> Words] /\ frames' \in 0..Deep /\ env' \in 0..Deep /\ landed' \in Words
    <3> USE DeepAssumption DEF EndTypeOK
    <3>1. CASE SigSetJmp
      <4>1. frames + 1 \in 1..Deep /\ "setter" \in Words
        BY <3>1 DEF SigSetJmp, Words
      <4> QED BY <3>1, <4>1 DEF SigSetJmp
    <3>2. CASE Enter
      <4>1. frames + 1 \in 1..Deep /\ "other" \in Words
        BY <3>2 DEF Enter, Words
      <4> QED BY <3>2, <4>1 DEF Enter
    <3>3. CASE Leave
      BY <3>3 DEF Leave
    <3>4. CASE SigLongJmp
      <4>1. env \in 1..Deep
        BY <3>4 DEF SigLongJmp
      <4> QED BY <3>4, <4>1 DEF SigLongJmp
    <3> QED BY <1>2, <3>1, <3>2, <3>3, <3>4 DEF Jumps
  <2> QED BY <2>1, <2>2 DEF ending, EndTypeOK
<1>3. CASE UNCHANGED endVars
  BY <1>3 DEF endVars, ending, jumping, EndTypeOK
<1> QED BY <1>1, <1>2, <1>3 DEF EndNext

LEMMA RecordStaysKept == EndTypeOK /\ RecordKept /\ [EndNext]_endVars => RecordKept'
<1> SUFFICES ASSUME EndTypeOK, RecordKept, [EndNext]_endVars PROVE RecordKept'
  OBVIOUS
<1> USE DEF EndTypeOK, RecordKept, Recorded, GoTo
<1>1. ASSUME NEW t \in Callers, EndNow(t) PROVE RecordKept'
  <2>1. PICK first \in {"kill", "log", "assert"}, s \in Signals : Ask(t, first, s)
    BY <1>1 DEF EndNow, KillCall, RaiseCall, AbortCall, AssertCall, Signals
  <2>2. UNCHANGED <<record, refused>> /\ step' = [step EXCEPT ![t] = first] /\ step[t] = "game"
    BY <2>1 DEF Ask
  <2>3. t \in byKill' \/ first # "kill"
    BY <1>1, <2>2 DEF EndNow, KillCall, RaiseCall, AbortCall, AssertCall, Ask
  <2>4. \A u \in Callers : u # t => (u \in byKill <=> u \in byKill')
    BY <1>1 DEF EndNow, KillCall, RaiseCall, AbortCall, AssertCall
  <2> QED BY <2>2, <2>3, <2>4
<1>2. ASSUME NEW t \in Callers, Ends(t) PROVE RecordKept'
  <2>1. CASE AssertLog(t)
    BY <2>1 DEF AssertLog
  <2>2. CASE OpenRecord(t)
    BY <2>2 DEF OpenRecord
  <2>3. CASE WriteRecord(t)
    BY <2>3 DEF WriteRecord
  <2>4. CASE Kill(t)
    BY <2>4 DEF Kill, LibraryKill
  <2>5. CASE KillTrace(t)
    BY <2>5 DEF KillTrace
  <2>6. CASE ExitProcess(t)
    BY <2>6 DEF ExitProcess
  <2> QED BY <1>2, <2>1, <2>2, <2>3, <2>4, <2>5, <2>6 DEF Ends
<1>3. CASE Jumps \/ UNCHANGED endVars
  BY <1>3 DEF Jumps, SigSetJmp, Enter, Leave, SigLongJmp, endVars, ending
<1> QED BY <1>1, <1>2, <1>3 DEF EndNext

\* However many threads raise, abort, assert and kill at once, the process that exits
\* leaves the record of one of them, unless the card failed one or one is being made.
THEOREM EndsRecorded == EndSpec => []EndInv
<1>1. EndTypeOK /\ RecordKept => EndInv
  BY DEF EndInv, RecordLeft, RecordKept, Recorded
<1> QED BY <1>1, EndStarts, EndTypeKept, RecordStaysKept, PTL DEF EndSpec

=============================================================================
