---------------------------- MODULE MCNetSockets ----------------------------
(* Two threads and two consecutive descriptor numbers: a number is reused, *)
(* fd and fd + 1 are both open, and the entry of the one, fd + 1, is the    *)
(* number of the other.                                                     *)
(* Beside them, what the calls translate: buffers shorter than an IPv4      *)
(* address, of just its size, of the largest that is copied, and larger;    *)
(* two writers, with an empty piece first, last and in between.             *)
EXTENDS NetSockets, NetNames

CONSTANTS t1, t2, p1, p2

MCThreads == {t1, t2}
MCFds == 3..4
MCPeers == {p1, p2}
MCVectors == {<<2, 1>>, <<0, 1, 0, 2>>, <<1, 0>>}

\* The parts share no variable: each moves while the others have not begun.
CallsStep == NamesInit /\ Next /\ UNCHANGED nameVars
NoAddress == buffer = Blank /\ list = <<>>
NoHost    == pton = Unasked
NoMessage == sent = Unsent
NoOption  == got = Unanswered /\ \A o \in OptionNames : set[o] = 0
NoWrite   == wire = <<>> /\ \A t \in MCThreads : call[t] = Idle
\* Each writer writes once.
Written == \A t \in MCThreads : call[t].result # None
NamesStep ==
    /\ Init /\ UNCHANGED vars
    /\ \/ NoHost /\ NoOption /\ NoMessage /\ NoWrite /\ Addressing
       \/ NoAddress /\ NoHost /\ NoOption /\ NoWrite /\ Message
       \/ NoAddress /\ NoOption /\ NoMessage /\ NoWrite /\ AskHost
       \/ NoAddress /\ NoHost /\ NoMessage /\ NoWrite /\ (SetSockOpt \/ StackSets \/ GetSockOpt)
       \/ NoAddress /\ NoHost /\ NoOption /\ NoMessage /\ (Writing \/ (Written /\ UNCHANGED nameVars))
NetInit == Init /\ NamesInit
NetSpec == /\ NetInit
           /\ [][CallsStep \/ NamesStep]_<<vars, nameVars>>
           /\ Fairness
=============================================================================
