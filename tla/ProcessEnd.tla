----------------------------- MODULE ProcessEnd -----------------------------
(***************************************************************************)
(* How the game ends its process, and its non-local jumps                  *)
(* (source/reimpl/proc_stubs.c).  kill, raise, abort and assert all come   *)
(* to kill_soloader, which lets two signals through to the C library and   *)
(* makes any other an exit of the process, after a record of the caller.   *)
(* Any thread may do it, several at once.                                  *)
(*                                                                         *)
(* sigsetjmp_soloader is a function around setjmp: its return address lies *)
(* on the stack below the caller's frame while setjmp runs (setjmp may     *)
(* return twice, so it is never called as the wrapper's last jump).        *)
(*                                                                         *)
(* External: the C library's kill, which knows two signals and traps on    *)
(* any other, for ever, and its longjmp; the card, which may refuse a      *)
(* record's file or what is written to it; the game.                       *)
(***************************************************************************)
EXTENDS Naturals, FiniteSets

CONSTANTS Callers,  \* threads of the game
          Deep      \* bound: frames below the one that calls sigsetjmp

ASSUME DeepAssumption == Deep \in Nat \ {0}

\* No thread is the record that was never made.
ASSUME CallersAssumption == "unset" \notin Callers

VARIABLES traced,   \* constant: GDASH_TRACE
          alive,    \* the process runs
          step,     \* where each thread is in ending it
          sig,      \* the signal it asked for
          byKill,   \* history: the threads whose last such call was kill itself
          record,   \* abort_trace.txt: what a thread left in it
          refused,  \* history: a record's file could not be opened or written
          stack,    \* the words below the frame that calls sigsetjmp
          frames,   \* how many functions that frame is in
          env,      \* the game's sigjmp_buf: the stack it returns to
          landed    \* where siglongjmp came back

ending  == <<traced, alive, step, sig, byKill, record, refused>>
jumping == <<stack, frames, env, landed>>
endVars == <<ending, jumping>>

Unset   == "unset"
Known   == {2, 15}       \* SIGINT and SIGTERM, that the C library has
SigAbrt == 6
Signals == Known \cup {SigAbrt, 11}
Steps   == {"game", "assert", "log", "write", "kill", "trace", "exit", "trap"}
Words   == {Unset, "setter", "other"}

EndTypeOK ==
    /\ traced \in BOOLEAN /\ alive \in BOOLEAN
    /\ step \in [Callers -> Steps]
    /\ sig \in [Callers -> Signals \cup {0}]
    /\ byKill \subseteq Callers
    /\ record \in {Unset, "empty"} \cup Callers
    /\ refused \in BOOLEAN
    /\ stack \in [1..Deep -> Words]
    /\ frames \in 0..Deep
    /\ env \in 0..Deep
    /\ landed \in Words
    /\ \A t \in Callers : step[t] = "write" => record # Unset

EndInit ==
    /\ traced \in BOOLEAN /\ alive = TRUE
    /\ step = [t \in Callers |-> "game"] /\ sig = [t \in Callers |-> 0]
    /\ byKill = {}
    /\ record = Unset /\ refused = FALSE
    /\ stack = [i \in 1..Deep |-> Unset] /\ frames = 0 /\ env = 0 /\ landed = Unset

-----------------------------------------------------------------------------
(* The end of the process.                                                 *)

GoTo(t, from, to) == alive /\ step[t] = from /\ step' = [step EXCEPT ![t] = to]

\* The game calls one of the four.
Ask(t, first, s) ==
    /\ GoTo(t, "game", first)
    /\ sig' = [sig EXCEPT ![t] = s]
    /\ UNCHANGED <<traced, alive, record, refused>>

KillCall(t)   == /\ \E s \in Signals : Ask(t, "kill", s)
                 /\ byKill' = byKill \cup {t}
\* raise_soloader logs before it looks at the signal.
RaiseCall(t)  == /\ \E s \in Signals : Ask(t, "log", s)
                 /\ byKill' = byKill \ {t}
\* abort_soloader, which takes the stack apart for abort_stack_walk_helper.
AbortCall(t)  == Ask(t, "log", SigAbrt) /\ byKill' = byKill \ {t}
\* __assert2_soloader
AssertCall(t) == Ask(t, "assert", SigAbrt) /\ byKill' = byKill \ {t}

\* Its record is in a file of its own, and only in a traced build.
AssertLog(t) == GoTo(t, "assert", "log") /\ UNCHANGED <<traced, alive, sig, byKill, record, refused>>

\* log_abort_caller, abort_stack_walk_helper: the file is opened for writing,
\* traced build or not, which empties it, and then written.
OpenRecord(t) ==
    \/ GoTo(t, "log", "write") /\ record' = "empty" /\ UNCHANGED <<traced, alive, sig, byKill, refused>>
    \/ GoTo(t, "log", "kill") /\ refused' = TRUE /\ UNCHANGED <<traced, alive, sig, byKill, record>>

\* Mutant: the record stays in the stream's buffer.
WriteRecord_Unflushed(t) ==
    /\ GoTo(t, "write", "kill")
    /\ UNCHANGED <<traced, alive, sig, byKill, record, refused>>
\* Whether what was written got to the card, nobody looks at.
WriteRecord(t) ==
    /\ GoTo(t, "write", "kill")
    /\ \/ record' = t /\ UNCHANGED refused
       \/ refused' = TRUE /\ UNCHANGED record
    /\ UNCHANGED <<traced, alive, sig, byKill>>

\* The C library's kill: it ends the process or comes back, or it traps.
LibraryKill(t) ==
    /\ UNCHANGED <<traced, sig, byKill, record, refused>>
    /\ IF sig[t] \in Known
       THEN GoTo(t, "kill", "game") /\ alive' \in BOOLEAN
       ELSE GoTo(t, "kill", "trap") /\ UNCHANGED alive

\* Mutant: the signal of an abort is let through.
Kill_Passed(t) == LibraryKill(t)

\* kill_soloader
Kill(t) ==
    \/ sig[t] \in Known /\ LibraryKill(t)
    \/ /\ sig[t] \notin Known
       /\ GoTo(t, "kill", IF traced THEN "trace" ELSE "exit")
       /\ UNCHANGED <<traced, alive, sig, byKill, record, refused>>

KillTrace(t) == GoTo(t, "trace", "exit") /\ UNCHANGED <<traced, alive, sig, byKill, record, refused>>

ExitProcess(t) ==
    /\ alive /\ step[t] = "exit"
    /\ alive' = FALSE
    /\ UNCHANGED <<traced, step, sig, byKill, record, refused>>

Ends(t) == /\ \/ AssertLog(t) \/ OpenRecord(t) \/ WriteRecord(t)
              \/ Kill(t) \/ KillTrace(t) \/ ExitProcess(t)
           /\ UNCHANGED jumping

EndNow(t) == /\ KillCall(t) \/ RaiseCall(t) \/ AbortCall(t) \/ AssertCall(t)
             /\ UNCHANGED jumping

-----------------------------------------------------------------------------
(* sigsetjmp and siglongjmp, on the stack of one thread.                   *)

\* sigsetjmp_soloader: its frame goes below the caller's, and is left.
SigSetJmp ==
    /\ alive /\ frames < Deep /\ landed = Unset
    /\ stack' = [stack EXCEPT ![frames + 1] = "setter"]
    /\ env' = frames + 1
    /\ UNCHANGED <<ending, frames, landed>>

\* The function that called it calls another, which has a frame there too, and
\* so on.
Enter ==
    /\ alive /\ frames < Deep /\ env # 0 /\ landed = Unset
    /\ frames' = frames + 1
    /\ stack' = [stack EXCEPT ![frames + 1] = "other"]
    /\ UNCHANGED <<ending, env, landed>>

Leave ==
    /\ alive /\ frames >= env /\ frames > 0 /\ landed = Unset
    /\ frames' = frames - 1
    /\ UNCHANGED <<ending, stack, env, landed>>

\* siglongjmp_soloader, from any of them: the stack is as setjmp found it, and
\* the wrapper returns to what is there now.
SigLongJmp ==
    /\ alive /\ env # 0 /\ landed = Unset
    /\ landed' = stack[env]
    /\ frames' = env - 1
    /\ UNCHANGED <<ending, stack, env>>

Jumps == SigSetJmp \/ Enter \/ Leave \/ SigLongJmp

-----------------------------------------------------------------------------
EndNext == (\E t \in Callers : EndNow(t) \/ Ends(t)) \/ Jumps

\* A thread that runs goes on: nothing it calls here waits.
EndFairness == \A t \in Callers : WF_endVars(Ends(t))

-----------------------------------------------------------------------------
(* Properties.                                                             *)

Dying(t) == step[t] # "game" /\ sig[t] \notin Known

\* Whoever aborts, by whichever of the four calls, on whichever thread, the
\* process ends: it is never left with one thread stuck in a trap and the others
\* waiting for it ("the infinite loading screen").
AbortEnds == \A t \in Callers : Dying(t) ~> ~alive

\* A process that exited by raise, abort or assert left a whole record of a caller,
\* unless the card failed one, or another thread, at that moment, had emptied the
\* file for a record of its own.
RecordLeft ==
    ~alive /\ ~refused /\ (\E t \in Callers \ byKill : step[t] = "exit") =>
        record \in Callers \/ \E u \in Callers : step[u] = "write"

\* "execution then just falls through to our own return back to whoever
\* originally called us".  The return address of a function that has returned is
\* on the stack only until something else is called.
JumpReturns == landed \in {Unset, "setter"}

\* What ends a process is in one of the states of its four calls, and what it
\* leaves is the record of a caller.
EndInv == EndTypeOK /\ RecordLeft
=============================================================================
