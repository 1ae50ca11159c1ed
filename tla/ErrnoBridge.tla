----------------------------- MODULE ErrnoBridge ----------------------------
(***************************************************************************)
(* How the game sees errno (source/reimpl/errno.c) and what a failed       *)
(* fopen_soloader leaves there (source/reimpl/io.c).                       *)
(*                                                                         *)
(* newlib keeps one errno per thread.  __errno_soloader, which every       *)
(* `errno' in the game calls, looks the thread's value up in the table     *)
(* errno_translation and returns the ADDRESS of the matching entry's       *)
(* bionic value: reading through it translates, and storing through it     *)
(* changes the entry, for every thread, and leaves newlib's errno alone.   *)
(***************************************************************************)
EXTENDS Integers

CONSTANTS Threads,   \* the threads of the game
          Listed,    \* the newlib codes of errno_translation, 0 among them
          Bionic,    \* Bionic[c]: the bionic value of a listed code
          Unlisted,  \* newlib codes the table does not have
          ENOENT,    \* newlib's code for a missing file
          UseSceLibc \* USE_SCELIBC_IO: fopen is SceLibc's, the default build

ASSUME CodesAssumption ==
    /\ 0 \in Listed /\ ENOENT \in Listed /\ ENOENT # 0
    /\ Listed \cap Unlisted = {}
    /\ Bionic \in [Listed -> Nat] /\ Bionic[0] = 0
    /\ UseSceLibc \in BOOLEAN

VARIABLES errno,     \* newlib's, per thread
          table,     \* errno_translation: the bionic column
          stored,    \* history: the entries the game stored into
          setter,    \* history: who set the thread's errno last, if anyone
          seen,      \* history: what a thread last read, -1 if nothing since
          open       \* history: the thread's last fopen, and errno before it

vars == <<errno, table, stored, setter, seen, open>>

Codes  == Listed \cup Unlisted
Values == {Bionic[c] : c \in Listed}
NoOpen == [failed |-> FALSE, before |-> 0]

TypeOK ==
    /\ errno \in [Threads -> Codes]
    /\ table \in [Listed -> Values]
    /\ stored \subseteq Listed
    /\ setter \in [Threads -> {"nobody", "library", "game"}]
    /\ seen \in [Threads -> Values \cup {-1}]
    /\ open \in [Threads -> [failed : BOOLEAN, before : Codes]]

Init ==
    /\ errno = [t \in Threads |-> 0]
    /\ table = Bionic
    /\ stored = {}
    /\ setter = [t \in Threads |-> "nobody"]
    /\ seen = [t \in Threads |-> -1]
    /\ open = [t \in Threads |-> NoOpen]

\* __errno_soloader: the entry whose address is returned.  A code the table
\* does not have is logged and treated as 0.
Entry(c) == IF c \in Listed THEN c ELSE 0
__errno(t) == Entry(errno[t])

SetErrno(t, c) == errno' = [errno EXCEPT ![t] = c]
SetBy(t, who) == /\ setter' = [setter EXCEPT ![t] = who]
                 /\ seen' = [seen EXCEPT ![t] = -1]

\* External: a libc function the game calls fails.  (One that succeeds
\* leaves errno as it is.)
Fail(t) ==
    /\ \E c \in Codes \ {0} : SetErrno(t, c)
    /\ SetBy(t, "library")
    /\ open' = [open EXCEPT ![t] = NoOpen]
    /\ UNCHANGED <<table, stored>>

\* The game reads errno.
Read(t) ==
    /\ seen' = [seen EXCEPT ![t] = table[__errno(t)]]
    /\ UNCHANGED <<errno, table, stored, setter, open>>

\* The game assigns errno: it clears it, or sets a bionic value.
Store(t) ==
    /\ \E v \in Values : table' = [table EXCEPT ![__errno(t)] = v]
    /\ stored' = stored \cup {__errno(t)}
    /\ SetBy(t, "game")
    /\ open' = [open EXCEPT ![t] = NoOpen]
    /\ UNCHANGED errno

\* Mutant: errno is left as SceLibc's fopen leaves it.
FopenFails_NoRepair(t) ==
    /\ SetBy(t, "library")
    /\ open' = [open EXCEPT ![t] = [failed |-> TRUE, before |-> errno[t]]]
    /\ UNCHANGED <<errno, table, stored>>

\* fopen_soloader of a file that is not there.  SceLibc's fopen does not
\* touch newlib's errno, newlib's own sets it; then comes the repair.
FopenFails(t) ==
    /\ SetErrno(t, IF ~UseSceLibc \/ errno[t] = 0 THEN ENOENT ELSE errno[t])
    /\ SetBy(t, "library")
    /\ open' = [open EXCEPT ![t] = [failed |-> TRUE, before |-> errno[t]]]
    /\ UNCHANGED <<table, stored>>

Next == \E t \in Threads : Fail(t) \/ Read(t) \/ Store(t) \/ FopenFails(t)

Spec == Init /\ [][Next]_vars

-----------------------------------------------------------------------------
(* Properties.                                                             *)

\* A thread reads the translation of its own last error, whatever the other
\* threads do, as long as nobody stored into the entry of that very error.
ReadsOwnError ==
    \A t \in Threads : seen[t] # -1 /\ __errno(t) \notin stored =>
        seen[t] = IF errno[t] \in Listed THEN Bionic[errno[t]] ELSE 0

\* After a failed fopen the thread has an error to read, whichever C library
\* opened the file: the wrapper's repair of a fopen that sets no errno.
FailedOpenHasError ==
    \A t \in Threads : open[t].failed => errno[t] # 0

\* When no error was pending before it, the error of a failed fopen is ENOENT,
\* the one value OpenSSL's configuration loader accepts.
CleanOpenIsENOENT ==
    \A t \in Threads : open[t].failed /\ open[t].before = 0 =>
        /\ errno[t] = ENOENT
        /\ seen[t] # -1 /\ ENOENT \notin stored => seen[t] = Bionic[ENOENT]

\* errno.c: the target can perform its error checking normally.  What a
\* thread reads after a library call set errno is the bionic value of that
\* error.
ReadsTranslation ==
    \A t \in Threads :
        seen[t] # -1 /\ setter[t] = "library" /\ errno[t] \in Listed =>
            seen[t] = Bionic[errno[t]]

\* The bridge as a game meets it that stores into no entry it reads later: its own
\* error, and one that a failed open has always left.
ErrnoServes == TypeOK /\ ReadsOwnError /\ FailedOpenHasError /\ CleanOpenIsENOENT
=============================================================================
