---------------------------- MODULE PthreadOnce -----------------------------
(***************************************************************************)
(* pthread_once_soloader (source/reimpl/pthr.c).  A control word is 0 (not *)
(* started), 1 (in progress) or 2 (done).  The caller that moves it from 0 *)
(* to 1 runs the initialiser and stores 2 after a barrier; every other     *)
(* caller polls the word, 100 microseconds apart, until it reads 2.        *)
(*                                                                         *)
(* An initialiser may itself call pthread_once on other control words, so  *)
(* a thread can be inside several calls at once.  Controls are numbered so *)
(* that the initialiser of c only reaches words smaller than c (the static *)
(* call graph of the initialisers has no cycle: POSIX leaves a recursive   *)
(* call undefined); the smallest word a thread is inside of is then the    *)
(* call it is executing.  Memory is sequentially consistent here.          *)
(***************************************************************************)
EXTENDS Naturals

CONSTANTS Threads,   \* the threads of the process
          Controls   \* the once_control words, as numbers (see above)

ASSUME ControlsAssumption == Controls \subseteq Nat

VARIABLES once_control,  \* the shared words
          pc,            \* pc[t][c]: where the call of t on c is
          begun,         \* history: entries into an initialiser of c
          ended,         \* history: completions of an initialiser of c
          returned       \* history: the pairs <<t, c>> that returned

vars == <<once_control, pc, begun, ended, returned>>

Places == {"out", "cas", "init", "store", "wait"}

TypeOK ==
    /\ once_control \in [Controls -> 0..2]
    /\ pc \in [Threads -> [Controls -> Places]]
    /\ begun \in [Controls -> Nat]
    /\ ended \in [Controls -> Nat]
    /\ returned \subseteq Threads \X Controls

Init ==
    /\ once_control = [c \in Controls |-> 0]
    /\ pc = [t \in Threads |-> [c \in Controls |-> "out"]]
    /\ begun = [c \in Controls |-> 0]
    /\ ended = [c \in Controls |-> 0]
    /\ returned = {}

\* t executes its call on c: every call nested inside it has returned.
Executing(t, c, place) ==
    /\ pc[t][c] = place
    /\ \A d \in Controls : d < c => pc[t][d] = "out"

Goto(t, c, place) == pc' = [pc EXCEPT ![t][c] = place]

-----------------------------------------------------------------------------
\* A call from outside any initialiser, or from one of a larger word.
Call(t, c) ==
    /\ \A d \in Controls : pc[t][d] # "out" => c < d /\ pc[t][d] = "init"
    /\ Goto(t, c, "cas")
    /\ UNCHANGED <<once_control, begun, ended, returned>>

\* Mutant: the word is read and then written, with no compare-and-swap.
Win_Unguarded(t, c) ==
    /\ Executing(t, c, "cas")
    /\ once_control' = [once_control EXCEPT ![c] = 1]
    /\ begun' = [begun EXCEPT ![c] = @ + 1]
    /\ Goto(t, c, "init")
    /\ UNCHANGED <<ended, returned>>

\* The compare-and-swap succeeds and the initialiser is entered.
Win(t, c) ==
    /\ Executing(t, c, "cas")
    /\ once_control[c] = 0
    /\ once_control' = [once_control EXCEPT ![c] = 1]
    /\ begun' = [begun EXCEPT ![c] = @ + 1]
    /\ Goto(t, c, "init")
    /\ UNCHANGED <<ended, returned>>

\* Mutant: the loser returns at once, as before the fix.
Lose_ReturnsAtOnce(t, c) ==
    /\ Executing(t, c, "cas")
    /\ once_control[c] # 0
    /\ returned' = returned \cup {<<t, c>>}
    /\ Goto(t, c, "out")
    /\ UNCHANGED <<once_control, begun, ended>>

\* The compare-and-swap fails: start polling.
Lose(t, c) ==
    /\ Executing(t, c, "cas")
    /\ once_control[c] # 0
    /\ Goto(t, c, "wait")
    /\ UNCHANGED <<once_control, begun, ended, returned>>

\* The initialiser comes back to pthread_once_soloader.
InitReturns(t, c) ==
    /\ Executing(t, c, "init")
    /\ ended' = [ended EXCEPT ![c] = @ + 1]
    /\ Goto(t, c, "store")
    /\ UNCHANGED <<once_control, begun, returned>>

\* Mutant: the store is forgotten.
Publish_Forgets(t, c) ==
    /\ Executing(t, c, "store")
    /\ returned' = returned \cup {<<t, c>>}
    /\ Goto(t, c, "out")
    /\ UNCHANGED <<once_control, begun, ended>>

\* Barrier, store of 2, return 0.
Publish(t, c) ==
    /\ Executing(t, c, "store")
    /\ once_control' = [once_control EXCEPT ![c] = 2]
    /\ returned' = returned \cup {<<t, c>>}
    /\ Goto(t, c, "out")
    /\ UNCHANGED <<begun, ended>>

\* A poll reads 2: return 0.  (A poll that reads another value sleeps and
\* polls again, which changes nothing.)
WaitDone(t, c) ==
    /\ Executing(t, c, "wait")
    /\ once_control[c] = 2
    /\ returned' = returned \cup {<<t, c>>}
    /\ Goto(t, c, "out")
    /\ UNCHANGED <<once_control, begun, ended>>

Wrapper(t, c) == Win(t, c) \/ Lose(t, c) \/ Publish(t, c) \/ WaitDone(t, c)

Next == \E t \in Threads, c \in Controls :
            Call(t, c) \/ Wrapper(t, c) \/ InitReturns(t, c)

Spec == Init /\ [][Next]_vars

\* A runnable thread runs, the polling sleep included, and an initialiser is
\* a finite computation: it makes finitely many nested calls and comes back
\* when they do (strong, because each nested call suspends it).
Fairness ==
    \A t \in Threads, c \in Controls :
        WF_vars(Wrapper(t, c)) /\ SF_vars(InitReturns(t, c))

FairSpec == Spec /\ Fairness

-----------------------------------------------------------------------------
(* Properties.                                                             *)

\* A call returns only when the initialiser it names has run, exactly once,
\* to its end: the guarantee whose absence the comment above
\* pthread_once_soloader blames for the OPENSSL_die crash.
CompleteBeforeReturn ==
    \A t \in Threads, c \in Controls :
        <<t, c>> \in returned => begun[c] = 1 /\ ended[c] = 1

\* The inductive strengthening: what each value of the word says about the
\* initialiser and about the one thread that may be inside it.
InsideInit(t, c) == pc[t][c] \in {"init", "store"}

WordMeaning ==
    \A c \in Controls :
        /\ once_control[c] = 0 => begun[c] = 0 /\ ended[c] = 0
        /\ once_control[c] # 0 => begun[c] = 1
        /\ once_control[c] = 2 => ended[c] = 1

OneInside ==
    \A c \in Controls, t \in Threads : InsideInit(t, c) =>
        /\ once_control[c] = 1
        /\ ended[c] = IF pc[t][c] = "store" THEN 1 ELSE 0
        /\ \A u \in Threads : InsideInit(u, c) => u = t

ReturnedMeansDone ==
    \A t \in Threads, c \in Controls :
        <<t, c>> \in returned => once_control[c] = 2

\* The word, the initialiser's progress, the thread inside it and the calls
\* that returned agree in every state, nested calls included.
OnceInv == WordMeaning /\ OneInside /\ ReturnedMeansDone

\* PthreadOnce implements the contract, its history being the contract's state.
Contract == INSTANCE OnceContract
                WITH Threads <- Threads, Controls <- Controls,
                     begun <- begun, ended <- ended, returned <- returned
ImplementsContract == Contract!Spec

\* Every call returns, the losers of the race included, provided the
\* initialisers are finite: nobody polls for ever on a word that a finished
\* initialiser should have set.
EveryCallReturns ==
    \A t \in Threads, c \in Controls :
        pc[t][c] # "out" ~> pc[t][c] = "out"
=============================================================================
