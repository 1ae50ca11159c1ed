------------------------------ MODULE TableLock ------------------------------
(***************************************************************************)
(* The lock of the table of initialised objects in source/reimpl/pthr.c,   *)
(* which is made by whoever needs it first: PthrMutex takes isObject-      *)
(* Initialized, rememberObject and forgetObject for one step each, here    *)
(* they are not.  Two threads that both find pthr_mutex_inited unset both  *)
(* make the lock, the second one over the first.  (LOG_LOCK of             *)
(* source/utils/logger.c is the same macro over another lock.)             *)
(*                                                                         *)
(* External: the lock.  It lives in its work area, so that a second        *)
(* creation frees it under its holder; a thread that sleeps for it sleeps  *)
(* in the kernel, for the lock that was there, and is lost with that one.  *)
(***************************************************************************)
EXTENDS Integers, FiniteSets

CONSTANTS LockUsers,   \* threads that use the table
          NoUser,      \* not a thread
          Addresses,   \* what is kept in the table
          Empty,       \* a free entry
          Slots        \* entries of the table: enough for all the addresses

ASSUME TableLockAssumption ==
    NoUser \notin LockUsers /\ Empty \notin Addresses /\ Slots \in Nat

VARIABLES lockInited,  \* pthr_mutex_inited
          owner,       \* pthr_mutex: its owner, by the work area
          table,       \* initializedObjects
          place,       \* where each thread is in the function
          work,        \* the function and its argument
          slot,        \* the entry it found, 0 for none
          healed,      \* history: all were outside after the lock was made
          known,       \* history: the addresses in the table, by the answers
          overlapped   \* history: of those last changed while another change was
                       \* between its search and its write

records == <<known, overlapped>>
lockVars == <<lockInited, owner, table, place, work, slot, healed, known, overlapped>>

TableFunctions == {"isObjectInitialized", "rememberObject", "forgetObject"}
Idle == [fun |-> "none", object |-> Empty]

LockInit ==
    /\ lockInited = FALSE /\ owner = NoUser
    /\ table = [i \in 1..Slots |-> Empty]
    /\ place = [u \in LockUsers |-> "outside"]
    /\ work = [u \in LockUsers |-> Idle]
    /\ slot = [u \in LockUsers |-> 0]
    /\ healed = FALSE /\ known = {} /\ overlapped = {}

Move(u, p) == place' = [place EXCEPT ![u] = p]

\* All are outside, or lost: from here on the lock is one lock.
Leave(u, places) ==
    /\ place' = [places EXCEPT ![u] = "outside"]
    /\ work' = [work EXCEPT ![u] = Idle]
    /\ slot' = [slot EXCEPT ![u] = 0]
    /\ healed' = (healed \/ (lockInited /\ \A v \in LockUsers : place'[v] \in {"outside", "lost"}))

Kept == {table[i] : i \in 1..Slots} \ {Empty}

\* What the answers say is in the table, once u has its answer.
Recorded(u) ==
    LET o == work[u].object
    IN  IF work[u].fun = "isObjectInitialized" THEN known
        ELSE IF work[u].fun = "rememberObject" /\ slot[u] # 0 THEN known \cup {o}
        ELSE known \ {o}

\* Between the search for an entry and the write to it.
Changing(u) == /\ place[u] \in {"searching", "writing"}
               /\ work[u].fun \in {"rememberObject", "forgetObject"}

\* u gets the lock: its change is the only one there, or one of several.
Entered(u) ==
    LET o == work[u].object
        others == {v \in LockUsers \ {u} : Changing(v)}
    IN  IF work[u].fun = "isObjectInitialized" THEN overlapped
        ELSE IF others = {} THEN overlapped \ {o}
        ELSE overlapped \cup {o} \cup {work[v].object : v \in others}

\* PTHR_LOCK: the test.  An object is remembered by one thread at a time, and
\* not twice.
TestInited(u) ==
    /\ place[u] = "outside"
    /\ \E f \in TableFunctions, o \in Addresses :
        /\ f = "rememberObject" => \A i \in 1..Slots : table[i] # o
        /\ f # "isObjectInitialized" => \A v \in LockUsers : work[v].object # o
        /\ work' = [work EXCEPT ![u] = [fun |-> f, object |-> o]]
    /\ Move(u, IF lockInited THEN "locking" ELSE "creating")
    /\ UNCHANGED <<lockInited, owner, table, slot, healed, records>>

\* sceKernelCreateLwMutex: whoever sleeps for the lock before it is lost.
CreateLock(u) ==
    /\ place[u] = "creating"
    /\ owner' = NoUser
    /\ place' = [v \in LockUsers |-> IF v = u THEN "marking"
                                     ELSE IF place[v] = "asleep" THEN "lost" ELSE place[v]]
    /\ UNCHANGED <<lockInited, table, work, slot, healed, records>>

\* It cannot be made: the function answers 0, as if the address were not there.
CreateFails(u) ==
    /\ place[u] = "creating"
    /\ Leave(u, place)
    /\ UNCHANGED <<lockInited, owner, table, records>>

MarkInited(u) ==
    /\ place[u] = "marking"
    /\ lockInited' = TRUE
    /\ Move(u, "locking")
    /\ UNCHANGED <<owner, table, work, slot, healed, records>>

LockTable(u) ==
    /\ place[u] = "locking"
    /\ \/ /\ owner = NoUser /\ owner' = u
          /\ Move(u, "searching") /\ overlapped' = Entered(u)
       \/ owner # NoUser /\ Move(u, "asleep") /\ UNCHANGED <<owner, overlapped>>
    /\ UNCHANGED <<lockInited, table, work, slot, healed, known>>

FirstSlot(o) ==
    LET S == {i \in 1..Slots : table[i] = o}
    IN  IF S = {} THEN 0 ELSE CHOOSE i \in S : \A j \in S : i <= j

Wanted(u) == IF work[u].fun = "rememberObject" THEN Empty ELSE work[u].object

Search(u) == slot' = [slot EXCEPT ![u] = FirstSlot(Wanted(u))]

\* Mutant: unlocked before the entry is written.
SearchTable_Unlocks(u) ==
    /\ place[u] = "searching"
    /\ Search(u)
    /\ Move(u, "writing")
    /\ owner' = IF owner = u THEN NoUser ELSE owner
    /\ UNCHANGED <<lockInited, table, work, healed, records>>

\* The loop up to the entry it looks for.
SearchTable(u) ==
    /\ place[u] = "searching"
    /\ Search(u)
    /\ Move(u, "writing")
    /\ UNCHANGED <<lockInited, owner, table, work, healed, records>>

WriteEntry(u) ==
    /\ place[u] = "writing"
    /\ table' = IF slot[u] = 0 THEN table
                ELSE CASE work[u].fun = "rememberObject" -> [table EXCEPT ![slot[u]] = work[u].object]
                       [] work[u].fun = "forgetObject" -> [table EXCEPT ![slot[u]] = Empty]
                       [] OTHER -> table
    /\ Move(u, "unlocking")
    /\ UNCHANGED <<lockInited, owner, work, slot, healed, records>>

\* PTHR_UNLOCK; a lock that is another's, or nobody's, stays as it is.
UnlockTable(u) ==
    /\ place[u] = "unlocking"
    /\ \/ /\ owner = u
          /\ \/ /\ \A v \in LockUsers : place[v] # "asleep"
                /\ owner' = NoUser /\ Leave(u, place) /\ UNCHANGED overlapped
             \/ \E v \in LockUsers :
                    /\ place[v] = "asleep"
                    /\ owner' = v
                    /\ Leave(u, [place EXCEPT ![v] = "searching"])
                    /\ overlapped' = Entered(v)
       \/ owner # u /\ Leave(u, place) /\ UNCHANGED <<owner, overlapped>>
    /\ known' = Recorded(u)
    /\ UNCHANGED <<lockInited, table>>

LockNext ==
    \E u \in LockUsers :
        \/ TestInited(u) \/ CreateLock(u) \/ CreateFails(u) \/ MarkInited(u)
        \/ LockTable(u) \/ SearchTable(u) \/ WriteEntry(u) \/ UnlockTable(u)

LockSpec == LockInit /\ [][LockNext]_lockVars

-----------------------------------------------------------------------------
(* Property.                                                               *)

\* What the race to make the lock may cost.  While no change is under way, the
\* table is what the answers say, but for addresses that were remembered and are
\* gone: those last changed while another change was between its search and its
\* write.  Once the lock was made and all threads were out of the functions, no
\* two are in them again, so that no address joins those that are gone; one that
\* is gone stays so until it is remembered again, and then it is found.
TableHeals ==
    /\ healed =>
        \A u, v \in LockUsers :
            {place[u], place[v]} \subseteq {"searching", "writing", "unlocking"} => u = v
    /\ (\A u \in LockUsers : ~Changing(u) /\ place[u] # "unlocking") =>
        /\ Kept \subseteq known
        /\ known \subseteq Kept \cup overlapped
    /\ healed =>
        \A u \in LockUsers :
            place[u] = "writing" /\ work[u].fun = "isObjectInitialized" =>
                IF slot[u] # 0 THEN work[u].object \in known
                ELSE work[u].object \notin known \ overlapped
=============================================================================
