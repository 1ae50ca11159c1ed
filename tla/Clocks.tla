------------------------------- MODULE Clocks -------------------------------
(***************************************************************************)
(* The clock calls of source/dynlib.c: bionic and newlib number their      *)
(* clocks differently, and where newlib has no such clock the caller is    *)
(* given the time of day.                                                  *)
(*                                                                         *)
(* External: the two clocks of the console.  The time of day goes on with  *)
(* the other, and the user may set it to any time.                         *)
(***************************************************************************)
EXTENDS Integers

CONSTANTS Times,     \* the times that are followed
          Supported  \* newlib's clocks: an id newlib rejects is not among them

Wall == {"REALTIME", "REALTIME_COARSE"}
Newlib == {"REALTIME", "MONOTONIC", "MONOTONIC_RAW"}

ASSUME TimesAssumption == Times \subseteq Nat /\ 0 \in Times
ASSUME SupportedAssumption == {"REALTIME", "MONOTONIC"} \subseteq Supported
                              /\ Supported \subseteq Newlib

VARIABLES wallClock,  \* external: the time of day
          upTime,     \* external: the time since the console was started
          wasSet,     \* history: the time of day was set
          clk_id,     \* constant: the clock the game asks for
          shown,      \* the last answer
          before      \* and the one before

clockVars == <<wallClock, upTime, wasSet, clk_id, shown, before>>

BionicClocks ==
    <<"MONOTONIC", "PROCESS_CPUTIME", "THREAD_CPUTIME", "MONOTONIC_RAW",
      "REALTIME_COARSE", "MONOTONIC_COARSE", "BOOTTIME">>
ClockIds == 0..8  \* 8 for any other
Name(id) == IF id = 0 THEN "REALTIME" ELSE IF id <= 7 THEN BionicClocks[id] ELSE "other"

NoTime == [from |-> "none", time |-> 0]
WallTime == [from |-> "wall", time |-> wallClock]
UpTime   == [from |-> "up", time |-> upTime]

ClocksInit ==
    /\ wallClock \in Times /\ upTime = 0 /\ wasSet = FALSE
    /\ clk_id \in ClockIds
    /\ shown = NoTime /\ before = NoTime

\* Mutant: the game's number is taken for newlib's.
clockid_bionic_to_vita_Same(id) ==
    CASE id = 1 -> "REALTIME" [] id = 4 -> "MONOTONIC"
      [] id = 5 -> "MONOTONIC_RAW" [] OTHER -> "rejected"

clockid_bionic_to_vita(id) ==
    CASE Name(id) \in Wall \cup {"other"} -> "REALTIME"
      [] Name(id) = "MONOTONIC_RAW" -> "MONOTONIC_RAW"
      [] OTHER -> "MONOTONIC"

\* Mutant: the error is passed on, and *tp is as it was.
clock_gettime_Untouched ==
    LET clockid == clockid_bionic_to_vita(clk_id)
    IN  /\ before' = shown
        /\ shown' = IF clockid \notin Supported THEN NoTime
                    ELSE IF clockid = "REALTIME" THEN WallTime ELSE UpTime
        /\ UNCHANGED <<wallClock, upTime, wasSet, clk_id>>

\* clock_gettime_traced: the time of day when newlib refuses.
clock_gettime ==
    LET clockid == clockid_bionic_to_vita(clk_id)
    IN  /\ before' = shown
        /\ shown' = IF clockid \notin Supported \/ clockid = "REALTIME"
                    THEN WallTime ELSE UpTime
        /\ UNCHANGED <<wallClock, upTime, wasSet, clk_id>>

GoesOn ==
    /\ {wallClock + 1, upTime + 1} \subseteq Times
    /\ wallClock' = wallClock + 1 /\ upTime' = upTime + 1
    /\ UNCHANGED <<wasSet, clk_id, shown, before>>

SetTime ==
    /\ wallClock' \in Times
    /\ wasSet' = TRUE
    /\ UNCHANGED <<upTime, clk_id, shown, before>>

ClocksNext == GoesOn \/ SetTime \/ clock_gettime

-----------------------------------------------------------------------------
(* Properties.                                                             *)

\* A clock of the game is one clock of the console from its first answer on, so
\* that the difference of two answers is a time: the counters of the rewards
\* page subtract the time of day, curl's timeouts the other.  Only the user's
\* setting the time of day makes a clock go back, and curl's not even that.
ClocksKeepTime ==
    /\ shown.from = "wall" \/ Name(clk_id) \notin Wall \/ shown = NoTime
    /\ shown.from = "up" \/ Name(clk_id) # "MONOTONIC" \/ shown = NoTime
    /\ before.from # "none" =>
          /\ shown.from = before.from
          /\ shown.time >= before.time \/ (wasSet /\ shown.from = "wall")
=============================================================================
