----------------------------- MODULE PthrMutex ------------------------------
(***************************************************************************)
(* The mutex wrappers of source/reimpl/pthr.c.  The game's pthread_mutex_t *)
(* is an object of bionic's layout; the wrapper keeps in its first word a  *)
(* pointer to a real, heap-allocated mutex, made on first use.  Whether    *)
(* that was done is recorded by ADDRESS in a fixed table,                  *)
(* initializedObjects; looking an address up, entering it and removing it  *)
(* are three critical sections of pthr_mutex, and the work in between is   *)
(* not protected by anything.                                              *)
(*                                                                         *)
(* The real mutexes are external.  The game obeys POSIX: it uses an object *)
(* only between its initialisation and its end, ends it only when no       *)
(* thread is using it, and unlocks what it holds.  A C++ std::mutex may    *)
(* end WITHOUT pthread_mutex_destroy (its destructor is trivial), and any  *)
(* thread may be the first to use a statically initialised mutex.          *)
(***************************************************************************)
EXTENDS Naturals, FiniteSets

CONSTANTS Threads,   \* the threads of the game
          Nobody,    \* not a thread
          Objects,   \* the addresses where the game keeps mutexes
          Null,      \* the null pointer: also BIONIC_PTHREAD_MUTEX_INITIALIZER
          Blocks,    \* heap blocks that can hold a real mutex
          TableSize, \* the number of entries of initializedObjects (512)
          MaxDepth   \* bound: how deep a thread re-enters a recursive mutex

ASSUME PointersAssumption ==
    Nobody \notin Threads /\ Null \notin Objects \cup Blocks
ASSUME SizesAssumption == TableSize \in Nat \ {0} /\ MaxDepth \in Nat \ {0}

VARIABLES
    initializedObjects,  \* the table: an address, or Null for a free entry
    word,     \* the first word of an object: an initialiser, real_ptr or junk
    block,    \* external: the real mutex in a block
    life,     \* the kind the game gave a live object, "over" if it has none
    broken,   \* history: the wrapper lost track of an object in this life
    depth,    \* history: how often a thread holds an object, as it was told
    pc,       \* where a thread is in a wrapper, "game" when outside
    op,       \* the wrapper it is in
    arg,      \* its mutex argument
    kind      \* the local `kind' of _mutex_t_static_init

shared  == <<initializedObjects, word, block>>
history == <<life, broken, depth>>
control == <<pc, op, arg, kind>>
vars    == <<shared, history, control>>

Entries == 1..TableSize
Kinds   == {"normal", "recursive", "errorcheck"}
\* 0x4000 and 0x8000; "junk" is what unrelated use of the memory left there.
Statics == {"recursive", "errorcheck"}
Words   == Blocks \cup Statics \cup {Null, "junk"}

ASSUME WordsAssumption == (Blocks \cup {Null}) \cap (Statics \cup {"junk"}) = {}

\* A block: free, allocated but not initialised ("raw"), or a real mutex.
Free == [state |-> "free", owner |-> Nobody, count |-> 0]
Raw  == [Free EXCEPT !.state = "raw"]
Real(k) == [Free EXCEPT !.state = k]

TypeOK ==
    /\ initializedObjects \in [Entries -> Objects \cup {Null}]
    /\ word \in [Objects -> Words]
    /\ block \in [Blocks -> [state : Kinds \cup {"free", "raw"},
                             owner : Threads \cup {Nobody}, count : Nat]]
    /\ life \in [Objects -> Kinds \cup {"over"}]
    /\ broken \in [Objects -> BOOLEAN]
    /\ depth \in [Threads -> [Objects -> Nat]]
    /\ pc \in [Threads -> {"game", "check", "create", "initreal", "remember",
                           "real", "destroyreal"}]
    /\ op \in [Threads -> {"none", "init", "init0", "lock", "trylock", "destroy"}]
    /\ arg \in [Threads -> Objects \cup {Null}]
    /\ kind \in [Threads -> Kinds]

Init ==
    /\ initializedObjects = [i \in Entries |-> Null]
    /\ word = [o \in Objects |-> "junk"]
    /\ block = [b \in Blocks |-> Free]
    /\ life = [o \in Objects |-> "over"]
    /\ broken = [o \in Objects |-> FALSE]
    /\ depth = [t \in Threads |-> [o \in Objects |-> 0]]
    /\ pc = [t \in Threads |-> "game"]
    /\ op = [t \in Threads |-> "none"]
    /\ arg = [t \in Threads |-> Null]
    /\ kind = [t \in Threads |-> "normal"]

-----------------------------------------------------------------------------
(* The table: each of these is one critical section of pthr_mutex.         *)

EntriesOf(x) == {i \in Entries : initializedObjects[i] = x}
FirstOf(S) == CHOOSE i \in S : \A j \in S : i <= j
\* Mutant: a word that is not 0 is taken for a real mutex.
isObjectInitialized_ByWord(o) == word[o] # Null
isObjectInitialized(o) == EntriesOf(o) # {}

Replace(x, y) ==
    initializedObjects' =
        IF EntriesOf(x) = {} THEN initializedObjects
        ELSE [initializedObjects EXCEPT ![FirstOf(EntriesOf(x))] = y]

\* Mutants: an address is not entered; it is not removed.
rememberObject_Skips(o) == UNCHANGED initializedObjects
forgetObject_Skips(o) == UNCHANGED initializedObjects

rememberObject(o) == Replace(Null, o)
forgetObject(o)   == Replace(o, Null)

-----------------------------------------------------------------------------
(* The game.                                                               *)

At(t, place) == pc[t] = place
Goto(t, place) == pc' = [pc EXCEPT ![t] = place]
Using(t, o) == arg[t] = o \/ depth[t][o] > 0
Unused(o) == \A t \in Threads : ~Using(t, o)

Enter(t, wrapper, o, place) ==
    /\ At(t, "game")
    /\ Goto(t, place)
    /\ op' = [op EXCEPT ![t] = wrapper]
    /\ arg' = [arg EXCEPT ![t] = o]
    /\ UNCHANGED kind

Return(t) ==
    /\ Goto(t, "game")
    /\ op' = [op EXCEPT ![t] = "none"]
    /\ arg' = [arg EXCEPT ![t] = Null]
    /\ kind' = [kind EXCEPT ![t] = "normal"]

Break(o) == broken' = [broken EXCEPT ![o] = TRUE]

\* A life begins: the wrapper already lost the object if its address is still
\* in the table from an earlier life.
Begin(o, k) ==
    /\ life[o] = "over"
    /\ Unused(o)
    /\ life' = [life EXCEPT ![o] = k]
    /\ broken' = [broken EXCEPT ![o] = EntriesOf(o) # {}]

\* PTHREAD_MUTEX_INITIALIZER and its two variants: a plain store.
StaticInit(o) ==
    \E k \in Kinds :
        /\ Begin(o, k)
        /\ word' = [word EXCEPT ![o] = IF k = "normal" THEN Null ELSE k]
        /\ UNCHANGED <<initializedObjects, block, depth, control>>

\* pthread_mutex_init(o, attr), and with no attribute.
CallInit(t, o) ==
    /\ \/ (\E k \in Kinds : Begin(o, k)) /\ Enter(t, "init", o, "check")
       \/ Begin(o, "normal") /\ Enter(t, "init0", o, "check")
    /\ UNCHANGED <<shared, depth>>

\* (Locking a normal mutex twice would be the game's own deadlock.)
MayLock(t, o) ==
    /\ life[o] # "over"
    /\ \A u \in Threads : arg[u] = o => op[u] \in {"lock", "trylock"}
    /\ depth[t][o] < IF life[o] = "normal" THEN 1 ELSE MaxDepth

CallLock(t, o) ==
    /\ MayLock(t, o)
    /\ \E wrapper \in {"lock", "trylock"} : Enter(t, wrapper, o, "check")
    /\ UNCHANGED <<shared, history>>

CallDestroy(t, o) ==
    /\ life[o] # "over"
    /\ Unused(o)
    /\ Enter(t, "destroy", o, "destroyreal")
    /\ forgetObject(o)
    /\ UNCHANGED <<word, block, history>>

\* The memory of an object is given up without pthread_mutex_destroy.
Abandon(o) ==
    /\ life[o] # "over"
    /\ Unused(o)
    /\ life' = [life EXCEPT ![o] = "over"]
    /\ word' = [word EXCEPT ![o] = "junk"]
    /\ UNCHANGED <<initializedObjects, block, broken, depth, control>>

-----------------------------------------------------------------------------
(* _mutex_t_static_init                                                    *)

Creating(t, o) == arg[t] = o /\ pc[t] \in {"create", "initreal", "remember"}

AfterInit(t) == IF op[t] \in {"init", "init0"} THEN Return(t)
                ELSE Goto(t, "real") /\ UNCHANGED <<op, arg, kind>>

\* The address is in the table: nothing to do.  Otherwise the mutex will be
\* made here, even if another thread is making it too.
Check(t) ==
    /\ At(t, "check")
    /\ IF isObjectInitialized(arg[t])
       THEN AfterInit(t) /\ UNCHANGED broken
       ELSE /\ Goto(t, "create")
            /\ IF \E u \in Threads : Creating(u, arg[t])
               THEN Break(arg[t]) ELSE UNCHANGED broken
            /\ UNCHANGED <<op, arg, kind>>
    /\ UNCHANGED <<shared, life, depth>>

\* The kind, from the attribute or from the word before it is overwritten.
\* Mutant: the initialiser is ignored.
WordKind_Normal(w) == "normal"
WordKind(w) == IF w \in Statics THEN w ELSE "normal"
\* (With neither, the word is read uninitialised: any of the initialisers.)
AskedKinds(t) ==
    CASE op[t] = "init" -> {life[arg[t]]}
      [] op[t] = "init0" /\ word[arg[t]] = "junk" -> Kinds
      [] OTHER -> {WordKind(word[arg[t]])}

\* malloc; the pointer to the block, still uninitialised, goes into the object.
Create(t) ==
    /\ At(t, "create")
    /\ \E b \in Blocks :
        /\ block[b].state = "free"
        /\ block' = [block EXCEPT ![b] = Raw]
        /\ word' = [word EXCEPT ![arg[t]] = b]
    /\ \E k \in AskedKinds(t) :
        /\ kind' = [kind EXCEPT ![t] = k]
        /\ IF op[t] = "init0" /\ k # "normal"
           THEN Break(arg[t]) ELSE UNCHANGED broken
    /\ Goto(t, "initreal")
    /\ UNCHANGED <<initializedObjects, life, depth, op, arg>>

\* pthread_mutex_init on the pointer as the object holds it NOW.  If that
\* fails the object is not remembered and the wrapper goes on regardless.
InitReal(t) ==
    /\ At(t, "initreal")
    /\ \/ /\ block' = [block EXCEPT ![word[arg[t]]] = Real(kind[t])]
          /\ Goto(t, "remember")
          /\ UNCHANGED <<op, arg, kind, broken>>
       \/ /\ AfterInit(t)
          /\ Break(arg[t])
          /\ UNCHANGED block
    /\ UNCHANGED <<initializedObjects, word, life, depth>>

\* rememberObject, whose failure on a full table nobody looks at.
Remember(t) ==
    /\ At(t, "remember")
    /\ rememberObject(arg[t])
    /\ IF EntriesOf(Null) = {} THEN Break(arg[t]) ELSE UNCHANGED broken
    /\ AfterInit(t)
    /\ UNCHANGED <<word, block, life, depth>>

-----------------------------------------------------------------------------
(* The real functions.                                                     *)

IsReal(w) == w \in Blocks /\ block[w].state \in Kinds

Take(t, b) ==
    /\ block' = [block EXCEPT ![b].owner = t, ![b].count = @ + 1]
    /\ depth' = [depth EXCEPT ![t][arg[t]] = @ + 1]

RealLock(t) ==
    /\ At(t, "real")
    /\ op[t] \in {"lock", "trylock"}
    /\ IsReal(word[arg[t]])
    /\ LET b == word[arg[t]]
           mine == block[b].owner = t /\ block[b].state = "recursive"
       IN  \/ /\ block[b].owner = Nobody \/ mine
              /\ Take(t, b)
           \/ /\ block[b].owner # Nobody /\ ~mine
              /\ \/ op[t] = "trylock"                  \* EBUSY
                 \/ /\ block[b].state = "errorcheck"   \* EDEADLK
                    /\ block[b].owner = t
              /\ UNCHANGED <<block, depth>>
    /\ Return(t)
    /\ UNCHANGED <<initializedObjects, word, life, broken>>

\* real_ptr is no mutex.  Undefined; here the call comes back without it.
WildLock(t) ==
    /\ At(t, "real")
    /\ ~IsReal(word[arg[t]])
    /\ Return(t)
    /\ UNCHANGED <<shared, history>>

\* pthread_mutex_unlock_soloader never initialises: EINVAL on a null word.
\* The real function releases one level; only a normal mutex lets a thread
\* release what another one holds.
Unlock(t, o) ==
    /\ At(t, "game")
    /\ depth[t][o] > 0
    /\ depth' = [depth EXCEPT ![t][o] = @ - 1]
    /\ LET b == word[o] IN
        IF IsReal(b) /\ block[b].count > 0
           /\ (block[b].owner = t \/ block[b].state = "normal")
        THEN block' = [block EXCEPT ![b].count = @ - 1,
                         ![b].owner = IF block[b].count = 1 THEN Nobody ELSE @]
        ELSE UNCHANGED block
    /\ UNCHANGED <<initializedObjects, word, life, broken, control>>

\* pthread_mutex_destroy(real_ptr), free(real_ptr), real_ptr = 0; the game's
\* object is over.  An object that was never locked still holds its static
\* initialiser, which is handed to both functions as it is (undefined).
DestroyReal(t) ==
    /\ At(t, "destroyreal")
    /\ LET b == word[arg[t]] IN
        block' = IF b \in Blocks THEN [block EXCEPT ![b] = Free] ELSE block
    /\ word' = [word EXCEPT ![arg[t]] = Null]
    /\ life' = [life EXCEPT ![arg[t]] = "over"]
    /\ Return(t)
    /\ UNCHANGED <<initializedObjects, broken, depth>>

-----------------------------------------------------------------------------
Game(t, o) == \/ CallInit(t, o) \/ CallLock(t, o) \/ CallDestroy(t, o)
              \/ Unlock(t, o)

Wrapper(t) == \/ Check(t) \/ Create(t) \/ InitReal(t) \/ Remember(t)
              \/ RealLock(t) \/ WildLock(t) \/ DestroyReal(t)

Next == \/ \E t \in Threads : Wrapper(t) \/ \E o \in Objects : Game(t, o)
        \/ \E o \in Objects : StaticInit(o) \/ Abandon(o)

Spec == Init /\ [][Next]_vars

-----------------------------------------------------------------------------
(* Properties.  The wrapper loses track of an object in exactly these ways *)
(* (`broken'): its address is in the table when its life begins, two       *)
(* threads make its real mutex at the same time, that mutex cannot be      *)
(* initialised, the table is full, or pthread_mutex_init without an        *)
(* attribute found a static initialiser in unused memory.  In every other  *)
(* life, whatever the interleaving, it is a mutex of the kind asked for.   *)

\* No two threads hold the same object, whoever made the real mutex.
Exclusion ==
    \A o \in Objects : ~broken[o] =>
        \A t, u \in Threads : depth[t][o] > 0 /\ depth[u][o] > 0 => t = u

\* What a thread believes it holds, the real mutex agrees it owns, as often
\* as it was locked, with the kind of the initialiser: so a recursive mutex
\* never blocks its own holder and an unlock always reaches what was locked.
HoldingIsReal ==
    \A t \in Threads, o \in Objects :
        ~broken[o] /\ depth[t][o] > 0 =>
            /\ IsReal(word[o])
            /\ block[word[o]] = [state |-> life[o], owner |-> t,
                                 count |-> depth[t][o]]

\* No real function is reached through a pointer to something else, other
\* than a destroy of an object that was never locked.
NoWildPointer ==
    \A t \in Threads : arg[t] # Null /\ ~broken[arg[t]] =>
        /\ At(t, "real") => IsReal(word[arg[t]])
        /\ At(t, "destroyreal") => IsReal(word[arg[t]])
                                    \/ word[arg[t]] \in Statics \cup {Null}

\* The table tells the truth: a live object is in it once, with its real
\* mutex behind it, or not at all and still as the game initialised it; and
\* a destroyed object is gone from it before its memory can be used again.
TableExact ==
    \A o \in Objects : ~broken[o] =>
        /\ \A t \in Threads : arg[t] = o /\ At(t, "destroyreal") =>
                EntriesOf(o) = {}
        /\ life[o] # "over"
           /\ (\A t \in Threads : ~Creating(t, o) /\
                   (arg[t] = o => op[t] \notin {"init", "init0", "destroy"})) =>
                \/ Cardinality(EntriesOf(o)) = 1 /\ IsReal(word[o])
                \/ EntriesOf(o) = {} /\ word[o] \in Statics \cup {Null}
=============================================================================
