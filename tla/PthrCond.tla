------------------------------ MODULE PthrCond ------------------------------
(***************************************************************************)
(* The condition variable wrappers of source/reimpl/pthr.c, over one       *)
(* condition, its mutex and the queue they guard.  As for mutexes, the     *)
(* game's object holds a pointer to a real condition that is made on first *)
(* use, and a table of addresses says whether that was done; the look-up,  *)
(* the making and the entry in the table are separate steps.               *)
(*                                                                         *)
(* External: the real conditions (a wait releases the mutex and falls      *)
(* asleep in one step; a signal wakes one sleeper, if any), the mutex,     *)
(* which PthrMutex is about and here simply has an owner, and the game: a  *)
(* thread takes from the queue under the mutex and waits while it is       *)
(* empty; one that puts sends one notification for it, either before it    *)
(* unlocks (disciplined) or, as POSIX allows, at any time afterwards.      *)
(***************************************************************************)
EXTENDS Naturals, FiniteSets

CONSTANTS Threads,  \* the threads of the game
          Nobody,   \* not a thread
          Null,     \* the null pointer: also BIONIC_PTHREAD_COND_INITIALIZER
          Blocks,   \* heap blocks that can hold a real condition
          MaxItems  \* bound: how many items the queue holds

ASSUME PointersAssumption == Nobody \notin Threads /\ Null \notin Blocks
ASSUME MaxItemsAssumption == MaxItems \in Nat \ {0}
ASSUME ThreadsAssumption == IsFiniteSet(Threads)

VARIABLES
    disciplined, \* constant: the game notifies with the mutex held
    entries,  \* how often the address is in initializedObjects
    word,     \* real_ptr, the first word of the object
    state,    \* external: what a block is
    asleep,   \* external: who sleeps on the real condition of a block
    owner,    \* external: who owns the mutex
    queue,    \* external: the number of items
    wants,    \* external: the thread is out for an item
    owes,     \* external: the thread has put one and not notified yet
    life,     \* whether the game's object is alive
    lost,     \* history: the wrapper lost track of it in this life
    pc, op    \* where a thread is, "game" when outside, and in which wrapper

heap == <<word, state, asleep>>
game == <<owner, queue, wants, owes>>
vars == <<disciplined, entries, heap, game, life, lost, pc, op>>

Waits  == {"wait", "timedwait"}
Wakes  == {"signal", "broadcast"}
Places == {"game", "check", "create", "initreal", "remember", "real",
           "asleep", "reacquire", "destroyreal"}

TypeOK ==
    /\ disciplined \in BOOLEAN
    /\ entries \in Nat
    /\ word \in Blocks \cup {Null}
    /\ state \in [Blocks -> {"free", "raw", "cond"}]
    /\ asleep \in [Blocks -> SUBSET Threads]
    /\ owner \in Threads \cup {Nobody}
    /\ queue \in 0..MaxItems
    /\ wants \in [Threads -> BOOLEAN] /\ owes \in [Threads -> BOOLEAN]
    /\ life \in {"over", "starting", "live"}
    /\ lost \in BOOLEAN
    /\ pc \in [Threads -> Places]
    /\ op \in [Threads -> Waits \cup Wakes \cup {"none", "init", "destroy"}]

Init ==
    /\ disciplined \in BOOLEAN
    /\ entries = 0
    /\ word = Null
    /\ state = [b \in Blocks |-> "free"]
    /\ asleep = [b \in Blocks |-> {}]
    /\ owner = Nobody
    /\ queue = 0
    /\ wants = [t \in Threads |-> FALSE]
    /\ owes = [t \in Threads |-> FALSE]
    /\ life = "over"
    /\ lost = FALSE
    /\ pc = [t \in Threads |-> "game"]
    /\ op = [t \in Threads |-> "none"]

At(t, place) == pc[t] = place
Goto(t, place) == pc' = [pc EXCEPT ![t] = place]

Enter(t, wrapper, place) ==
    /\ At(t, "game")
    /\ Goto(t, place)
    /\ op' = [op EXCEPT ![t] = wrapper]

Return(t) ==
    /\ Goto(t, "game")
    /\ op' = [op EXCEPT ![t] = "none"]

-----------------------------------------------------------------------------
(* The game.                                                               *)

Unused == /\ \A t \in Threads : At(t, "game") /\ ~wants[t] /\ ~owes[t]
          /\ owner = Nobody /\ queue = 0

Begin == /\ life = "over" /\ \A t \in Threads : At(t, "game")
         /\ lost' = (entries > 0)

\* PTHREAD_COND_INITIALIZER
StaticInit ==
    /\ Begin
    /\ life' = "live"
    /\ word' = Null
    /\ UNCHANGED <<disciplined, entries, state, asleep, game, pc, op>>

CallInit(t) ==
    /\ Begin
    /\ life' = "starting"
    /\ Enter(t, "init", "check")
    /\ UNCHANGED <<disciplined, entries, heap, game>>

CallDestroy(t) ==
    /\ life = "live"
    /\ Unused
    /\ life' = "over"
    /\ entries' = IF entries > 0 THEN entries - 1 ELSE 0     \* forgetObject
    /\ Enter(t, "destroy", "destroyreal")
    /\ UNCHANGED <<disciplined, heap, game, lost>>

Outside(t) == At(t, "game") /\ life = "live"

Want(t) ==
    /\ Outside(t) /\ ~wants[t] /\ ~owes[t] /\ owner # t
    /\ wants' = [wants EXCEPT ![t] = TRUE]
    /\ UNCHANGED <<disciplined, entries, heap, owner, queue, owes, life, lost, pc, op>>

Lock(t) ==
    /\ Outside(t)
    /\ owner = Nobody
    /\ owner' = t
    /\ UNCHANGED <<disciplined, entries, heap, queue, wants, owes, life, lost, pc, op>>

Put(t) ==
    /\ Outside(t) /\ owner = t
    /\ ~wants[t] /\ ~owes[t] /\ queue < MaxItems
    /\ queue' = queue + 1
    /\ owes' = [owes EXCEPT ![t] = TRUE]
    /\ UNCHANGED <<disciplined, entries, heap, owner, wants, life, lost, pc, op>>

Take(t) ==
    /\ Outside(t) /\ owner = t
    /\ wants[t] /\ queue > 0
    /\ queue' = queue - 1
    /\ wants' = [wants EXCEPT ![t] = FALSE]
    /\ UNCHANGED <<disciplined, entries, heap, owner, owes, life, lost, pc, op>>

\* After a time-out a thread may give up; an item that is there is taken.
GiveUp(t) ==
    /\ Outside(t) /\ owner = t
    /\ wants[t] /\ queue = 0
    /\ wants' = [wants EXCEPT ![t] = FALSE]
    /\ UNCHANGED <<disciplined, entries, heap, owner, queue, owes, life, lost, pc, op>>

Unlock(t) ==
    /\ Outside(t) /\ owner = t
    /\ ~wants[t] /\ (disciplined => ~owes[t])
    /\ owner' = Nobody
    /\ UNCHANGED <<disciplined, entries, heap, queue, wants, owes, life, lost, pc, op>>

CallWait(t) ==
    /\ Outside(t) /\ owner = t
    /\ wants[t] /\ queue = 0
    /\ \E wrapper \in Waits : Enter(t, wrapper, "check")
    /\ UNCHANGED <<disciplined, entries, heap, game, life, lost>>

CallWake(t) ==
    /\ Outside(t) /\ owes[t]
    /\ disciplined => owner = t
    /\ \E wrapper \in Wakes : Enter(t, wrapper, "check")
    /\ UNCHANGED <<disciplined, entries, heap, game, life, lost>>

-----------------------------------------------------------------------------
(* _cond_t_static_init                                                     *)

\* "Init" is the end of pthread_cond_init; the others go on to the real call.
AfterInit(t) == IF op[t] = "init"
                THEN Return(t) /\ life' = "live"
                ELSE Goto(t, "real") /\ UNCHANGED <<op, life>>

Creating == {t \in Threads : pc[t] \in {"create", "initreal", "remember"}}

\* Mutant: a wait gives the mutex up before it looks.
Check_Unlocks(t) ==
    /\ At(t, "check")
    /\ owner' = IF op[t] \in Waits THEN Nobody ELSE owner
    /\ IF entries > 0
       THEN AfterInit(t) /\ UNCHANGED lost
       ELSE /\ Goto(t, "create")
            /\ lost' = (lost \/ Creating # {})
            /\ UNCHANGED <<op, life>>
    /\ UNCHANGED <<disciplined, entries, heap, queue, wants, owes>>

\* isObjectInitialized
Check(t) ==
    /\ At(t, "check")
    /\ IF entries > 0
       THEN AfterInit(t) /\ UNCHANGED lost
       ELSE /\ Goto(t, "create")
            /\ lost' = (lost \/ Creating # {})
            /\ UNCHANGED <<op, life>>
    /\ UNCHANGED <<disciplined, entries, heap, game>>

\* Which block malloc picks makes no difference.
Create(t) ==
    /\ At(t, "create")
    /\ \E b \in Blocks : state[b] = "free"
    /\ word' = CHOOSE b \in Blocks : state[b] = "free"
    /\ state' = [state EXCEPT ![word'] = "raw"]
    /\ Goto(t, "initreal")
    /\ UNCHANGED <<disciplined, entries, asleep, game, life, lost, op>>

\* pthread_cond_init on the pointer as the object holds it NOW; when it fails
\* the object is not remembered and the caller goes on.
InitReal(t) ==
    /\ At(t, "initreal")
    /\ \/ /\ state' = [state EXCEPT ![word] = "cond"]
          /\ Goto(t, "remember")
          /\ UNCHANGED <<life, lost, op>>
       \/ AfterInit(t) /\ lost' = TRUE /\ UNCHANGED state
    /\ UNCHANGED <<disciplined, entries, word, asleep, game>>

\* Mutant: the address is not entered.
Remember_Skips(t) ==
    /\ At(t, "remember")
    /\ AfterInit(t)
    /\ UNCHANGED <<disciplined, entries, heap, game, lost>>

\* rememberObject; nobody looks whether there was room.
Remember(t) ==
    /\ At(t, "remember")
    /\ \/ entries' = entries + 1 /\ UNCHANGED lost
       \/ UNCHANGED entries /\ lost' = TRUE
    /\ AfterInit(t)
    /\ UNCHANGED <<disciplined, heap, game>>

-----------------------------------------------------------------------------
(* The real functions, through the pointer as it is now.                   *)

IsReal(w) == w \in Blocks /\ state[w] = "cond"

RealWait(t) ==
    /\ At(t, "real") /\ op[t] \in Waits
    /\ IsReal(word)
    /\ asleep' = [asleep EXCEPT ![word] = @ \cup {t}]
    /\ owner' = Nobody
    /\ Goto(t, "asleep")
    /\ UNCHANGED <<disciplined, entries, word, state, queue, wants, owes, life, lost, op>>

Rouse(S) == pc' = [u \in Threads |-> IF u \in S THEN "reacquire" ELSE pc[u]]

\* pthread_cond_timedwait reaches its time.
Timeout(t) ==
    /\ At(t, "asleep") /\ op[t] = "timedwait"
    /\ asleep' = [b \in Blocks |-> asleep[b] \ {t}]
    /\ Rouse({t})
    /\ UNCHANGED <<disciplined, entries, word, state, game, life, lost, op>>

Reacquire(t) ==
    /\ At(t, "reacquire")
    /\ owner = Nobody
    /\ owner' = t
    /\ Return(t)
    /\ UNCHANGED <<disciplined, entries, heap, queue, wants, owes, life, lost>>

\* Whom a notification wakes: one sleeper, or all of them.
Chosen(wrapper, S) ==
    IF wrapper = "broadcast" \/ S = {} THEN {S} ELSE {{u} : u \in S}

RealWake(t) ==
    /\ At(t, "real") /\ op[t] \in Wakes
    /\ IsReal(word)
    /\ \E S \in Chosen(op[t], asleep[word]) :
        /\ asleep' = [asleep EXCEPT ![word] = @ \ S]
        /\ pc' = [u \in Threads |-> IF u \in S THEN "reacquire"
                                    ELSE IF u = t THEN "game" ELSE pc[u]]
    /\ op' = [op EXCEPT ![t] = "none"]
    /\ owes' = [owes EXCEPT ![t] = FALSE]
    /\ UNCHANGED <<disciplined, entries, word, state, owner, queue, wants, life, lost>>

\* real_ptr is no condition.  Undefined; here the call comes back.
Wild(t) ==
    /\ At(t, "real")
    /\ ~IsReal(word)
    /\ Return(t)
    /\ owes' = [owes EXCEPT ![t] = @ /\ op[t] \notin Wakes]
    /\ UNCHANGED <<disciplined, entries, heap, owner, queue, wants, life, lost>>

\* pthread_cond_destroy(real_ptr), free(real_ptr), real_ptr = 0.  A null
\* real_ptr, of an object never used, goes to pthread_cond_destroy as it is.
DestroyReal(t) ==
    /\ At(t, "destroyreal")
    /\ state' = IF word \in Blocks THEN [state EXCEPT ![word] = "free"] ELSE state
    /\ word' = Null
    /\ Return(t)
    /\ UNCHANGED <<disciplined, entries, asleep, game, life, lost>>

-----------------------------------------------------------------------------
\* What a thread that holds the mutex or owes a notification does next.
Proceed(t) == Take(t) \/ GiveUp(t) \/ Unlock(t) \/ CallWait(t) \/ CallWake(t)

Wrapper(t) == \/ Check(t) \/ Create(t) \/ InitReal(t) \/ Remember(t)
              \/ RealWait(t) \/ RealWake(t) \/ Wild(t) \/ DestroyReal(t)

Next == \/ StaticInit
        \/ \E t \in Threads :
            \/ CallInit(t) \/ CallDestroy(t) \/ Want(t) \/ Lock(t) \/ Put(t)
            \/ Proceed(t) \/ Wrapper(t) \/ Timeout(t) \/ Reacquire(t)

Spec == Init /\ [][Next]_vars

-----------------------------------------------------------------------------
(* Properties.                                                             *)

Sleepers == UNION {asleep[b] : b \in Blocks}
Owing    == {t \in Threads : owes[t]}
Awake    == {t \in Threads : At(t, "reacquire") \/ (owner = t /\ wants[t])}

\* As long as the wrapper keeps one real condition for the object, whoever
\* sleeps does so on that one, and no item lies unclaimed while a thread sleeps:
\* for each there is a notification still to come or a thread awake to take it.
NoLostWakeup ==
    ~lost =>
        /\ Sleepers # {} => word \in Blocks /\ Sleepers = asleep[word]
        /\ Sleepers # {} => queue =< Cardinality(Owing) + Cardinality(Awake)

\* pthr.c looks, makes and remembers in separate steps and takes no lock over
\* them.  A program that calls every wrapper of a condition with its mutex held
\* never has two threads between them.
DisciplinedNeverRaces == disciplined => \A t, u \in Creating : t = u

=============================================================================
