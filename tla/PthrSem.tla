------------------------------ MODULE PthrSem ------------------------------
(***************************************************************************)
(* The semaphore wrappers of source/reimpl/pthr.c over one semaphore of    *)
(* the kernel.  sem_trywait is a wait of a millisecond, and sem_timedwait  *)
(* one of a millisecond and then one for the time it computes from its     *)
(* deadline, whose test is the wrong way round: before the deadline it     *)
(* gives up at once, after it the difference is negative and is taken      *)
(* modulo 2^32.  A step of the clock is a millisecond.                     *)
(*                                                                         *)
(* External: the kernel, which hands a unit to any of those who wait, ends *)
(* a wait when its time is up, and all of them when the semaphore is       *)
(* deleted; the game, which deletes and makes it again.  What the kernel   *)
(* decided and what the wrapper answers are two steps.                     *)
(***************************************************************************)
EXTENDS Integers, FiniteSets

CONSTANTS SemThreads,  \* threads of the game
          MaxCount,    \* 0x7fffffff
          MaxClock,    \* bound: how far the clock is followed
          Wrap         \* 2^32 microseconds, in steps

ASSUME SemAssumption == /\ IsFiniteSet(SemThreads)
                        /\ MaxCount \in Nat \ {0} /\ MaxClock \in Nat
                        /\ Wrap \in Nat /\ Wrap > MaxClock /\ Wrap > 1

VARIABLES wide,     \* constant: tv_sec * 1000 * 1000 is computed in 64 bits
          alive,    \* the semaphore is there
          count,    \* external: its units
          due,      \* history: the units it must have, by the answers given
          clock,    \* current_timestamp_ms()
          call,     \* the call each thread is in, and what it got of the kernel
          left      \* how long its wait still may last

semVars == <<wide, alive, count, due, clock, call, left>>

Forever == -1
Trial == 1     \* uint timeout = 1000
NoDeadline == -1
SemWaits == {"wait", "trywait", "timedwait"}
NoCall == [op |-> "none", deadline |-> NoDeadline, again |-> FALSE, got |-> "nothing"]

\* What sceKernelWaitSema returned: nothing yet, 0 with a unit of the semaphore, or
\* of one that was deleted since ("spent"), or a negative number.
Results == {"nothing", "unit", "spent", "error"}

SemTypeOK ==
    /\ wide \in BOOLEAN /\ alive \in BOOLEAN
    /\ count \in 0..MaxCount /\ due \in Int
    /\ clock \in 0..MaxClock
    /\ call \in [SemThreads -> [op : SemWaits \cup {"none"}, again : BOOLEAN,
                                deadline : 0..MaxClock \cup {NoDeadline}, got : Results]]
    /\ left \in [SemThreads -> -1..Wrap - 1]

SemInit ==
    /\ wide \in BOOLEAN
    /\ alive = FALSE /\ count = 0 /\ due = 0 /\ clock = 0
    /\ call = [t \in SemThreads |-> NoCall]
    /\ left = [t \in SemThreads |-> Forever]

InCall(t) == call[t].op # "none"
Waiting(t) == InCall(t) /\ call[t].got = "nothing"

\* sceKernelWaitSema returns.
Gets(t, result) == /\ call' = [call EXCEPT ![t].got = result]
                   /\ left' = [left EXCEPT ![t] = Forever]

sem_init(t) ==
    /\ ~alive /\ ~InCall(t)
    /\ alive' = TRUE
    /\ \E value \in 0..1 : count' = value /\ due' = value
    /\ UNCHANGED <<wide, clock, call, left>>

\* sceKernelDeleteSema: whoever waits is told of an error.
sem_destroy(t) ==
    /\ alive /\ ~InCall(t)
    /\ alive' = FALSE /\ count' = 0 /\ due' = 0
    /\ call' = [u \in SemThreads |->
                  IF Waiting(u) THEN [call[u] EXCEPT !.got = "error"]
                  ELSE IF call[u].got = "unit" THEN [call[u] EXCEPT !.got = "spent"]
                  ELSE call[u]]
    /\ left' = [u \in SemThreads |-> Forever]
    /\ UNCHANGED <<wide, clock>>

\* At the limit the kernel refuses, and so does the wrapper.
sem_post(t) ==
    /\ alive /\ ~InCall(t)
    /\ count < MaxCount
    /\ count' = count + 1 /\ due' = due + 1
    /\ UNCHANGED <<wide, alive, clock, call, left>>

Wait(t, op, deadline, limit) ==
    /\ alive /\ ~InCall(t)
    /\ call' = [call EXCEPT ![t] = [op |-> op, deadline |-> deadline, again |-> FALSE,
                                    got |-> "nothing"]]
    /\ left' = [left EXCEPT ![t] = limit]
    /\ UNCHANGED <<wide, alive, count, due, clock>>

sem_wait(t) == Wait(t, "wait", NoDeadline, Forever)

\* Mutant: no time limit, as in sem_wait.
sem_trywait_Forever(t) == Wait(t, "trywait", NoDeadline, Forever)

sem_trywait(t) == Wait(t, "trywait", NoDeadline, Trial)

sem_timedwait(t) == \E d \in 0..MaxClock \cup {NoDeadline} : Wait(t, "timedwait", d, Trial)

\* The kernel hands out a unit.
Granted(t) ==
    /\ Waiting(t) /\ count > 0
    /\ count' = count - 1
    /\ Gets(t, "unit")
    /\ UNCHANGED <<wide, alive, due, clock>>

\* The time of a wait is up.
Expired(t) ==
    /\ Waiting(t) /\ left[t] = 0
    /\ Gets(t, "error")
    /\ UNCHANGED <<wide, alive, count, due, clock>>

\* Mutant: the result is tested with > 0, which it never is.
Succeeded_Positive(t) == FALSE

Succeeded(t) == call[t].got \in {"unit", "spent"}

\* timeout_real.  In 32 bits the product wraps, and is far below the clock.
SecondWait(deadline) == IF wide THEN {(deadline - clock) % Wrap} ELSE 0..Wrap - 1

\* The wrapper answers 0 for a unit.
AnswerZero(t) ==
    /\ InCall(t) /\ ~Waiting(t) /\ Succeeded(t)
    /\ due' = IF call[t].got = "spent" THEN due ELSE due - 1
    /\ call' = [call EXCEPT ![t] = NoCall]
    /\ UNCHANGED <<wide, alive, count, clock, left>>

\* sem_timedwait after its trial, which it does not wait after unless the deadline
\* is over.
TriesAgain(t) == /\ call[t].op = "timedwait" /\ ~call[t].again
                 /\ call[t].deadline # NoDeadline
                 /\ ~(wide /\ call[t].deadline >= clock)

AnswerError(t) ==
    /\ InCall(t) /\ ~Waiting(t) /\ ~Succeeded(t) /\ ~TriesAgain(t)
    /\ call' = [call EXCEPT ![t] = NoCall]
    /\ UNCHANGED <<wide, alive, count, due, clock, left>>

\* A semaphore that is not there any more is an error at once.
WaitAgain(t) ==
    /\ InCall(t) /\ ~Waiting(t) /\ ~Succeeded(t) /\ TriesAgain(t)
    /\ call' = [call EXCEPT ![t].again = TRUE,
                            ![t].got = IF alive THEN "nothing" ELSE "error"]
    /\ IF alive THEN \E time \in SecondWait(call[t].deadline) : left' = [left EXCEPT ![t] = time]
       ELSE UNCHANGED left
    /\ UNCHANGED <<wide, alive, count, due, clock>>

Returns(t) == AnswerZero(t) \/ AnswerError(t) \/ WaitAgain(t)

\* A wait is not held up once its time is over.
Tick ==
    /\ \A t \in SemThreads : left[t] # 0
    /\ clock' = IF clock < MaxClock THEN clock + 1 ELSE clock
    /\ left' = [t \in SemThreads |-> IF left[t] > 0 THEN left[t] - 1 ELSE left[t]]
    /\ UNCHANGED <<wide, alive, count, due, call>>

SemNext ==
    \/ Tick
    \/ \E t \in SemThreads : \/ sem_init(t) \/ sem_destroy(t) \/ sem_post(t)
                             \/ sem_wait(t) \/ sem_trywait(t) \/ sem_timedwait(t)
                             \/ Granted(t) \/ Expired(t) \/ Returns(t)

SemSpec == SemInit /\ [][SemNext]_semVars

-----------------------------------------------------------------------------
(* Properties.                                                             *)

\* Units under way: the kernel gave them, and the game was not told yet.
Units == {t \in SemThreads : call[t].got = "unit"}

\* No unit is taken and reported as not taken, or the other way round, by the two
\* waits of sem_timedwait, the trial of sem_trywait, or a wait the deletion of the
\* semaphore ended: the units the kernel has and those under way are what the game
\* must think there are by its posts and the answers to its waits.
NothingLost == alive => count + Cardinality(Units) = due

\* Whatever its deadline, and however wrongly that is read, a call with a limit
\* comes back though nobody posts: its longest wait is 2^32 microseconds.
LimitedWaitsEnd ==
    \A t \in SemThreads :
        call[t].op \in {"trywait", "timedwait"} ~> call[t].op = "none"
=============================================================================
