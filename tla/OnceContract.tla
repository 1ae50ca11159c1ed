---------------------------- MODULE OnceContract ----------------------------
(***************************************************************************)
(* What pthread_once promises its callers, without saying how: for every   *)
(* control word the initialiser begins at most once, and no call returns   *)
(* before the initialiser has ended.  The promise is the one the comment   *)
(* above pthread_once_soloader ascribes to bionic.  PthreadOnce implements *)
(* this module.                                                            *)
(***************************************************************************)
EXTENDS Naturals

CONSTANTS Threads,   \* the threads that may call pthread_once
          Controls   \* the once_control words

VARIABLES begun,     \* begun[c]: how often an initialiser of c was entered
          ended,     \* ended[c]: how often one ran to its end
          returned   \* the pairs <<t, c>> for which a call of t on c returned

vars == <<begun, ended, returned>>

Init ==
    /\ begun = [c \in Controls |-> 0]
    /\ ended = [c \in Controls |-> 0]
    /\ returned = {}

Begin(c) ==
    /\ begun[c] = 0
    /\ begun' = [begun EXCEPT ![c] = 1]
    /\ UNCHANGED <<ended, returned>>

End(c) ==
    /\ begun[c] = 1
    /\ ended[c] = 0
    /\ ended' = [ended EXCEPT ![c] = 1]
    /\ UNCHANGED <<begun, returned>>

Return(t, c) ==
    /\ ended[c] = 1
    /\ returned' = returned \cup {<<t, c>>}
    /\ UNCHANGED <<begun, ended>>

Next ==
    \E c \in Controls : Begin(c) \/ End(c) \/ \E t \in Threads : Return(t, c)

Spec == Init /\ [][Next]_vars
=============================================================================
