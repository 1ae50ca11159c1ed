------------------------------- MODULE RwLock -------------------------------
(***************************************************************************)
(* The rwlock wrappers of source/reimpl/pthr.c: the game's word is handed  *)
(* to newlib as its pthread_rwlock_t, which is a pointer.                  *)
(*                                                                         *)
(* External: newlib's rwlocks, and the game, which locks what it made and  *)
(* unlocks what it holds.  A lock made by bionic's static initialiser is a *)
(* null pointer to newlib, which answers EINVAL.                           *)
(***************************************************************************)
EXTENDS Integers

CONSTANTS RwThreads

VARIABLES handle,    \* the game's word: "null", "lock", or "junk"
          made,      \* how this life began: "init", "static", "no" before it
          real,      \* external: what each thread holds of the lock
          told,      \* history: what it holds by the answers
          refused    \* history: a call of this life was answered EINVAL

rwVars == <<handle, made, real, told, refused>>

NoHold == [t \in RwThreads |-> "none"]

RwInit == /\ handle = "junk" /\ made = "no" /\ real = NoHold /\ told = NoHold
          /\ refused = FALSE

StaticRwlock ==
    /\ made = "no"
    /\ handle' = "null" /\ made' = "static" /\ refused' = FALSE
    /\ UNCHANGED <<real, told>>

\* The word is set to the initialiser first; a failure, which the game is told,
\* leaves it so, and the game has no lock.
rwlock_init ==
    /\ made = "no"
    /\ \/ handle' = "lock" /\ made' = "init" /\ real' = NoHold /\ refused' = FALSE
       \/ handle' = "null" /\ UNCHANGED <<made, real, refused>>
    /\ UNCHANGED told

Admits(t, how) == IF how = "write" THEN \A u \in RwThreads : real[u] = "none"
                ELSE \A u \in RwThreads : real[u] # "write"

\* rdlock and wrlock.
rwlock_lock(t, how) ==
    /\ made # "no" /\ told[t] = "none"
    /\ \/ /\ handle = "lock" /\ Admits(t, how)
          /\ real' = [real EXCEPT ![t] = how]
          /\ told' = [told EXCEPT ![t] = how]
          /\ UNCHANGED refused
       \/ handle # "lock" /\ refused' = TRUE /\ UNCHANGED <<real, told>>
    /\ UNCHANGED <<handle, made>>

\* Mutant: the earlier version, which destroyed the lock on every unlock.
rwlock_unlock_Destroys(t) ==
    /\ told[t] # "none"
    /\ handle' = "null" /\ real' = NoHold
    /\ told' = [told EXCEPT ![t] = "none"]
    /\ UNCHANGED <<made, refused>>

rwlock_unlock(t) ==
    /\ told[t] # "none"
    /\ real' = IF handle = "lock" THEN [real EXCEPT ![t] = "none"] ELSE real
    /\ told' = [told EXCEPT ![t] = "none"]
    /\ UNCHANGED <<handle, made, refused>>

rwlock_destroy ==
    /\ made # "no" /\ told = NoHold
    /\ handle' = IF handle = "lock" THEN "null" ELSE handle
    /\ made' = "no"
    /\ UNCHANGED <<real, told, refused>>

RwNext == \/ StaticRwlock \/ rwlock_init \/ rwlock_destroy
          \/ \E t \in RwThreads : \/ \E how \in {"read", "write"} : rwlock_lock(t, how)
                                  \/ rwlock_unlock(t)

RwSpec == RwInit /\ [][RwNext]_rwVars

-----------------------------------------------------------------------------
(* Property.                                                               *)

\* A lock that pthread_rwlock_init made serves until pthread_rwlock_destroy, for
\* any number of locks and unlocks by any threads: it refuses nobody, a writer
\* is alone, and who was told that he holds it does.  (The comment at pthr.c:205
\* tells of a version whose unlock ended the lock.)
RwLockLasts ==
    /\ made = "init" => handle = "lock" /\ ~refused /\ real = told
    /\ \A t, u \in RwThreads : told[t] = "write" /\ told[u] # "none" => t = u
=============================================================================
