------------------------------ MODULE MCProcess ------------------------------
(* Two nested control words, three threads: a winner, and two losers that  *)
(* reach the word before and after the store.  Beside them two threads that *)
(* end the process, over a stack of three frames.                           *)
EXTENDS PthreadOnce, ProcessEnd

CONSTANTS t1, t2, t3

MCThreads == {t1, t2, t3}
MCControls == 1..2
MCCallers == {t1, t2}

\* The parts share no variable: each moves while the others have not begun.  A
\* dead process stays as it is, a trap is taken again for ever, and a jump is followed up to where it lands.
Quiet == \A t \in MCCallers : sig[t] = 0
ProcessInit == Init /\ EndInit
OnceStep == EndInit /\ ~traced /\ Next /\ UNCHANGED endVars
EndStep  == /\ Init /\ UNCHANGED vars
            /\ \/ env = 0 /\ EndNext /\ UNCHANGED jumping
               \/ Quiet /\ Jumps
Stands   == /\ ~alive \/ landed # Unset \/ \E t \in MCCallers : step[t] = "trap"
            /\ UNCHANGED <<vars, endVars>>
ProcessSpec == /\ ProcessInit
               /\ [][OnceStep \/ EndStep \/ Stands]_<<vars, endVars>>
               /\ Fairness /\ EndFairness
=============================================================================
