----------------------------- MODULE MCPthrCond -----------------------------
(* A small instance of PthrCond: three threads, two heap blocks (one more   *)
(* than a single condition needs, so that a second may overwrite the        *)
(* first) and a queue of two.  Beside it, the semaphore and the clocks: two *)
(* threads, two units, deadlines up to four steps, 2^32 microseconds as     *)
(* eight; newlib with and without the raw clock.                            *)
EXTENDS PthrCond, PthrSem, Clocks

CONSTANTS t1, t2, t3, b1, b2

MCThreads == {t1, t2, t3}
MCBlocks  == {b1, b2}
MCSemThreads == {t1, t2}

\* The three share no variable: each moves while the others have not begun.  The
\* waits of the condition come to no end by themselves, those of the semaphore do.
WaitInit == Init /\ SemInit /\ ClocksInit
CondStep == SemInit /\ ClocksInit /\ Next /\ UNCHANGED <<semVars, clockVars>>
SemStep(A) == Init /\ ClocksInit /\ A /\ UNCHANGED <<vars, clockVars>>
ClockStep == Init /\ SemInit /\ ClocksNext /\ UNCHANGED <<vars, semVars>>
WaitNext == \/ ~wide /\ clk_id = 0 /\ wallClock = 0 /\ CondStep
            \/ ~disciplined /\ clk_id = 0 /\ wallClock = 0 /\ SemStep(SemNext)
            \/ ~wide /\ ~disciplined /\ ClockStep

\* The clock goes on, a wait whose time is up is ended, and a thread that was given
\* an answer by the kernel goes on.
WaitSpec == /\ WaitInit /\ [][WaitNext]_<<vars, semVars, clockVars>>
            /\ WF_<<vars, semVars, clockVars>>(clk_id = 0 /\ wallClock = 0 /\ ~disciplined /\ SemStep(Tick))
            /\ \A t \in SemThreads :
                  WF_<<vars, semVars, clockVars>>(clk_id = 0 /\ wallClock = 0 /\ ~disciplined /\ SemStep(Expired(t)))
            /\ \A t \in SemThreads :
                  WF_<<vars, semVars, clockVars>>(clk_id = 0 /\ wallClock = 0 /\ ~disciplined /\ SemStep(Returns(t)))

=============================================================================
