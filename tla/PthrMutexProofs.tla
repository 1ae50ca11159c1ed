-------------------------- MODULE PthrMutexProofs ---------------------------
(***************************************************************************)
(* Proofs about the mutex bridge and what shares its file: PthrMutex, for   *)
(* any numbers of threads, objects, heap blocks and table entries, and any  *)
(* depth of re-entry; TableLock, for any number of threads and any table,   *)
(* what the race to make the lock may lose, and that its functions are then *)
(* the steps PthrMutex takes them for; RwLock, for any number of threads;   *)
(* ThreadAttr, for any heap.                                                *)
(***************************************************************************)
EXTENDS PthrMutex, TableLock, RwLock, ThreadAttr,
        FiniteSetTheorems, WellFoundedInduction, TLAPS

-----------------------------------------------------------------------------
(* The inductive invariant.  First what holds of every object, tracked or    *)
(* not: how the places, wrappers and arguments of a thread go together;      *)
(* that what is in use is alive; that whoever begins or ends a life is alone *)
(* with the object; and that no two objects point to the same block, nor one *)
(* to a block that is free.                                                  *)

ControlOK ==
    \A t \in Threads :
        /\ pc[t] = "game" => op[t] = "none" /\ arg[t] = Null
        /\ pc[t] # "game" => arg[t] \in Objects /\ op[t] # "none"
        /\ pc[t] = "destroyreal" <=> op[t] = "destroy"
        /\ pc[t] = "real" => op[t] \in {"lock", "trylock"}

UsedLives == \A t \in Threads, o \in Objects : Using(t, o) => life[o] # "over"

Alone ==
    \A t \in Threads : op[t] \in {"init", "init0", "destroy"} =>
        \A u \in Threads : (arg[u] = arg[t] => u = t) /\ depth[u][arg[t]] = 0

OwnBlocks ==
    \A o \in Objects : word[o] \in Blocks =>
        /\ block[word[o]].state # "free"
        /\ \A p \in Objects : word[p] = word[o] => p = o

CreatedWord ==
    \A t \in Threads : pc[t] \in {"initreal", "remember"} => word[arg[t]] \in Blocks

InitNormal == \A t \in Threads : op[t] = "init0" => life[arg[t]] = "normal"

Common == TypeOK /\ ControlOK /\ UsedLives /\ Alone /\ OwnBlocks /\ CreatedWord /\ InitNormal

(* Then a life in which the wrapper did not lose track of the object.  The   *)
(* object is in one of five phases.                                          *)

Unheld(o) == \A t \in Threads : depth[t][o] = 0
Locking(t) == op[t] \in {"lock", "trylock"}

\* The real mutex behind the word says who holds the object, and how often.
Truthful(o) ==
    /\ word[o] \in Blocks
    /\ block[word[o]].state = life[o]
    /\ block[word[o]].owner = Nobody <=> block[word[o]].count = 0
    /\ \A t \in Threads :
          depth[t][o] = IF block[word[o]].owner = t THEN block[word[o]].count ELSE 0

InUse(o) ==
    /\ \E i \in Entries : EntriesOf(o) = {i}
    /\ Truthful(o)
    /\ \A t \in Threads : arg[t] = o => Locking(t) /\ pc[t] \in {"check", "real"}

AsInitialised(o) == word[o] \in Statics \cup {Null} /\ WordKind(word[o]) = life[o]

Untouched(o) ==
    /\ EntriesOf(o) = {} /\ Unheld(o)
    /\ AsInitialised(o)
    /\ \A t \in Threads : arg[t] = o => Locking(t) /\ pc[t] = "check"

Beginning(o) ==
    /\ EntriesOf(o) = {} /\ Unheld(o)
    /\ \E t \in Threads : arg[t] = o /\ pc[t] = "check" /\ op[t] \in {"init", "init0"}

BeingMade(o) ==
    /\ EntriesOf(o) = {} /\ Unheld(o)
    /\ \E t \in Threads :
          /\ Creating(t, o)
          /\ \A u \in Threads : arg[u] = o /\ u # t => Locking(u) /\ pc[u] = "check"
          /\ pc[t] = "create" /\ Locking(t) => AsInitialised(o)
          /\ pc[t] = "initreal" => kind[t] = life[o]
          /\ pc[t] = "remember" => Truthful(o)

Ending(o) ==
    /\ EntriesOf(o) = {} /\ Unheld(o)
    /\ \E t \in Threads : arg[t] = o /\ pc[t] = "destroyreal"
    /\ IsReal(word[o]) \/ word[o] \in Statics \cup {Null}

Phase(o) == InUse(o) \/ Untouched(o) \/ Beginning(o) \/ BeingMade(o) \/ Ending(o)

Tracked == \A o \in Objects : life[o] # "over" /\ ~broken[o] => Phase(o)

MutexInv == Common /\ Tracked

-----------------------------------------------------------------------------
(* The table.                                                              *)

LEMMA FirstExists ==
    ASSUME NEW S, S \subseteq Entries, S # {}
    PROVE  FirstOf(S) \in S
<1> DEFINE R == OpToRel(<, Nat)
<1>1. S \subseteq Nat
  BY SizesAssumption DEF Entries
<1>2. \A x, y \in Nat : <<x, y>> \in R <=> x < y
  BY DEF OpToRel
<1>3. IsWellFoundedOn(R, Nat)
  BY NatLessThanWellFounded
<1> HIDE DEF R
<1>4. PICK i \in S : \A j \in S : ~ (<<j, i>> \in R)
  BY <1>1, <1>3, WFMin, Zenon
<1>5. \A j \in S : ~(j < i)
  BY <1>1, <1>2, <1>4, Zenon
<1>6. \E k \in S : \A j \in S : k <= j
  BY <1>1, <1>5
<1> QED BY <1>6 DEF FirstOf

\* An entry is replaced, if there is one; entries of anything else stay.
LEMMA ReplaceEffect ==
    ASSUME TypeOK, NEW x, NEW y \in Objects \cup {Null}, Replace(x, y)
    PROVE  /\ initializedObjects' \in [Entries -> Objects \cup {Null}]
           /\ EntriesOf(x) = {} => UNCHANGED initializedObjects
           /\ EntriesOf(x) # {} =>
                \E i \in EntriesOf(x) : initializedObjects' = [initializedObjects EXCEPT ![i] = y]
           /\ \A p : p # x /\ p # y => EntriesOf(p)' = EntriesOf(p)
<1>1. EntriesOf(x) # {} => FirstOf(EntriesOf(x)) \in EntriesOf(x)
  BY FirstExists DEF EntriesOf
<1>2. EntriesOf(x) # {} =>
        \E i \in EntriesOf(x) : initializedObjects' = [initializedObjects EXCEPT ![i] = y]
  BY <1>1 DEF Replace
<1>3. EntriesOf(x) = {} => UNCHANGED initializedObjects
  BY DEF Replace
<1>4. initializedObjects' \in [Entries -> Objects \cup {Null}]
  BY <1>2, <1>3 DEF TypeOK, EntriesOf
<1>5. \A p : p # x /\ p # y => EntriesOf(p)' = EntriesOf(p)
  BY <1>2, <1>3 DEF TypeOK, EntriesOf
<1> QED BY <1>2, <1>3, <1>4, <1>5

LEMMA RememberEffect ==
    ASSUME TypeOK, NEW o \in Objects, rememberObject(o)
    PROVE  /\ initializedObjects' \in [Entries -> Objects \cup {Null}]
           /\ \A p \in Objects : p # o => EntriesOf(p)' = EntriesOf(p)
           /\ EntriesOf(Null) # {} /\ EntriesOf(o) = {} =>
                \E i \in Entries : EntriesOf(o)' = {i}
<1>1. Replace(Null, o)
  BY DEF rememberObject
<1>2. /\ initializedObjects' \in [Entries -> Objects \cup {Null}]
      /\ \A p \in Objects : p # o => EntriesOf(p)' = EntriesOf(p)
  BY <1>1, ReplaceEffect, PointersAssumption
<1>3. ASSUME EntriesOf(Null) # {}, EntriesOf(o) = {} PROVE \E i \in Entries : EntriesOf(o)' = {i}
  <2>1. PICK i \in EntriesOf(Null) : initializedObjects' = [initializedObjects EXCEPT ![i] = o]
    BY <1>1, <1>3, ReplaceEffect
  <2>2. EntriesOf(o)' = {i} /\ i \in Entries
    BY <1>3, <2>1 DEF EntriesOf, TypeOK
  <2> QED BY <2>2
<1> QED BY <1>2, <1>3

LEMMA ForgetEffect ==
    ASSUME TypeOK, NEW o \in Objects, forgetObject(o)
    PROVE  /\ initializedObjects' \in [Entries -> Objects \cup {Null}]
           /\ \A p \in Objects : p # o => EntriesOf(p)' = EntriesOf(p)
           /\ EntriesOf(o) = {} \/ (\E i \in Entries : EntriesOf(o) = {i}) =>
                EntriesOf(o)' = {}
<1>1. Replace(o, Null)
  BY DEF forgetObject
<1>2. /\ initializedObjects' \in [Entries -> Objects \cup {Null}]
      /\ \A p \in Objects : p # o => EntriesOf(p)' = EntriesOf(p)
  BY <1>1, ReplaceEffect, PointersAssumption
<1>3. EntriesOf(o) = {} => EntriesOf(o)' = {}
  BY <1>1, ReplaceEffect DEF EntriesOf
<1>4. ASSUME NEW i \in Entries, EntriesOf(o) = {i} PROVE EntriesOf(o)' = {}
  <2>1. initializedObjects' = [initializedObjects EXCEPT ![i] = Null]
    BY <1>1, <1>4, ReplaceEffect
  <2> QED BY <1>4, <2>1, PointersAssumption DEF EntriesOf, TypeOK
<1> QED BY <1>2, <1>3, <1>4

-----------------------------------------------------------------------------
(* What an action leaves alone of an object, it leaves in its phase.       *)

LEMMA PhaseFrame ==
    ASSUME Common, NEW o \in Objects, Phase(o),
           EntriesOf(o)' = EntriesOf(o), word'[o] = word[o], life'[o] = life[o],
           word[o] \in Blocks => block'[word[o]] = block[word[o]],
           \A t \in Threads :
              /\ depth'[t][o] = depth[t][o]
              /\ arg'[t] = o <=> arg[t] = o
              /\ arg[t] = o => pc'[t] = pc[t] /\ op'[t] = op[t] /\ kind'[t] = kind[t]
    PROVE  Phase(o)'
<1>1. Truthful(o) => Truthful(o)'
  BY DEF Truthful
<1>2. Unheld(o) => Unheld(o)'
  BY DEF Unheld
<1>3. AsInitialised(o) => AsInitialised(o)'
  BY DEF AsInitialised, WordKind
<1>4. ASSUME InUse(o) PROVE InUse(o)'
  BY <1>1, <1>4 DEF InUse, Locking
<1>5. ASSUME Untouched(o) PROVE Untouched(o)'
  BY <1>2, <1>3, <1>5 DEF Untouched, Locking
<1>6. ASSUME Beginning(o) PROVE Beginning(o)'
  BY <1>2, <1>6 DEF Beginning
<1>7. ASSUME BeingMade(o) PROVE BeingMade(o)'
  <2>1. PICK t \in Threads :
          /\ Creating(t, o)
          /\ \A u \in Threads : arg[u] = o /\ u # t => Locking(u) /\ pc[u] = "check"
          /\ pc[t] = "create" /\ Locking(t) => AsInitialised(o)
          /\ pc[t] = "initreal" => kind[t] = life[o]
          /\ pc[t] = "remember" => Truthful(o)
    BY <1>7 DEF BeingMade
  <2>2. Creating(t, o)'
    BY <2>1 DEF Creating
  <2> QED BY <1>1, <1>2, <1>3, <1>7, <2>1, <2>2 DEF BeingMade, Creating, Locking
<1>8. ASSUME Ending(o) PROVE Ending(o)'
  BY <1>2, <1>8 DEF Ending, IsReal
<1> QED BY <1>4, <1>5, <1>6, <1>7, <1>8 DEF Phase

\* The same for all objects but one: they keep their phases when nothing of
\* theirs changes.
LEMMA OthersFrame ==
    ASSUME MutexInv, NEW o \in Objects,
           \A p \in Objects \ {o} :
              /\ EntriesOf(p)' = EntriesOf(p) /\ word'[p] = word[p] /\ life'[p] = life[p]
              /\ broken'[p] = broken[p]
              /\ word[p] \in Blocks => block'[word[p]] = block[word[p]]
              /\ \A t \in Threads :
                    /\ depth'[t][p] = depth[t][p]
                    /\ arg'[t] = p <=> arg[t] = p
                    /\ arg[t] = p => pc'[t] = pc[t] /\ op'[t] = op[t] /\ kind'[t] = kind[t],
           life'[o] # "over" /\ ~broken'[o] => Phase(o)'
    PROVE  Tracked'
<1> SUFFICES ASSUME NEW p \in Objects, life'[p] # "over", ~broken'[p]
             PROVE  Phase(p)'
  BY DEF Tracked
<1>1. CASE p = o
  BY <1>1
<1>2. CASE p # o
  <2>1. Phase(p)
    BY <1>2 DEF MutexInv, Tracked
  <2> QED BY <1>2, <2>1, PhaseFrame DEF MutexInv
<1> QED BY <1>1, <1>2

-----------------------------------------------------------------------------
(* Where a thread goes.                                                    *)

Places   == {"game", "check", "create", "initreal", "remember", "real", "destroyreal"}
Wrappers == {"none", "init", "init0", "lock", "trylock", "destroy"}

ControlTyped ==
    /\ pc \in [Threads -> Places] /\ op \in [Threads -> Wrappers]
    /\ arg \in [Threads -> Objects \cup {Null}] /\ kind \in [Threads -> Kinds]

DataTyped ==
    /\ initializedObjects \in [Entries -> Objects \cup {Null}]
    /\ word \in [Objects -> Words]
    /\ block \in [Blocks -> [state : Kinds \cup {"free", "raw"},
                             owner : Threads \cup {Nobody}, count : Nat]]
    /\ life \in [Objects -> Kinds \cup {"over"}]
    /\ broken \in [Objects -> BOOLEAN]
    /\ depth \in [Threads -> [Objects -> Nat]]

LEMMA TypeSplit == TypeOK <=> ControlTyped /\ DataTyped
BY DEF TypeOK, ControlTyped, DataTyped, Places, Wrappers

LEMMA TypeSplitNext == (ControlTyped /\ DataTyped)' => TypeOK'
BY DEF TypeOK, ControlTyped, DataTyped, Places, Wrappers

\* Thread t is now at place p of wrapper w with argument x, the others as before.
Moved(t, p, w, x) ==
    /\ ControlTyped'
    /\ \A u \in Threads :
          /\ pc'[u] = IF u = t THEN p ELSE pc[u]
          /\ op'[u] = IF u = t THEN w ELSE op[u]
          /\ arg'[u] = IF u = t THEN x ELSE arg[u]
          /\ u # t => kind'[u] = kind[u]

LEMMA Enters ==
    ASSUME TypeOK, NEW t \in Threads, NEW w \in Wrappers, NEW x \in Objects,
           NEW p \in Places, Enter(t, w, x, p)
    PROVE  Moved(t, p, w, x)
BY TypeSplit DEF ControlTyped, Enter, Goto, Moved

LEMMA Returns ==
    ASSUME TypeOK, NEW t \in Threads, Return(t)
    PROVE  Moved(t, "game", "none", Null)
BY TypeSplit DEF ControlTyped, Return, Goto, Moved, Places, Wrappers, Kinds

LEMMA Goes ==
    ASSUME TypeOK, NEW t \in Threads, NEW p \in Places, Goto(t, p), UNCHANGED <<op, arg>>,
           kind' \in [Threads -> Kinds], \A u \in Threads \ {t} : kind'[u] = kind[u]
    PROVE  Moved(t, p, op[t], arg[t])
BY TypeSplit DEF ControlTyped, Goto, Moved

LEMMA AfterInits ==
    ASSUME TypeOK, NEW t \in Threads, AfterInit(t)
    PROVE  \/ op[t] \in {"init", "init0"} /\ Moved(t, "game", "none", Null)
           \/ op[t] \notin {"init", "init0"} /\ Moved(t, "real", op[t], arg[t])
<1>1. CASE op[t] \in {"init", "init0"}
  BY <1>1, Returns DEF AfterInit
<1>2. CASE op[t] \notin {"init", "init0"}
  <2>1. Goto(t, "real") /\ UNCHANGED <<op, arg, kind>> /\ "real" \in Places
    BY <1>2 DEF AfterInit, Places
  <2> QED BY <1>2, <2>1, Goes, TypeSplit DEF ControlTyped
<1> QED BY <1>1, <1>2

-----------------------------------------------------------------------------
(* The steps.                                                              *)

LEMMA Initially == Init => MutexInv
<1> SUFFICES ASSUME Init PROVE MutexInv
  OBVIOUS
<1>1. ControlTyped
  BY DEF Init, ControlTyped, Places, Wrappers, Kinds
<1>2. /\ initializedObjects \in [Entries -> Objects \cup {Null}]
      /\ word \in [Objects -> Words] /\ life \in [Objects -> Kinds \cup {"over"}]
      /\ broken \in [Objects -> BOOLEAN]
  BY DEF Init, Words
<1>3. block \in [Blocks -> [state : Kinds \cup {"free", "raw"},
                            owner : Threads \cup {Nobody}, count : Nat]]
  BY DEF Init, Free
<1>4. depth \in [Threads -> [Objects -> Nat]]
  BY DEF Init
<1>5. TypeOK
  BY <1>1, <1>2, <1>3, <1>4, TypeSplit DEF DataTyped
<1>6. ControlOK /\ Alone /\ CreatedWord /\ InitNormal
  BY DEF Init, ControlOK, Alone, CreatedWord, InitNormal
<1>7. UsedLives
  BY PointersAssumption DEF Init, UsedLives, Using
<1>8. OwnBlocks
  BY WordsAssumption DEF Init, OwnBlocks
<1>9. Tracked
  BY DEF Init, Tracked
<1> QED BY <1>5, <1>6, <1>7, <1>8, <1>9 DEF MutexInv, Common

LEMMA StaticInitStep ==
    ASSUME MutexInv, NEW o \in Objects, StaticInit(o) PROVE MutexInv'
<1> USE DEF MutexInv, Common
<1>1. PICK k \in Kinds :
        /\ Begin(o, k)
        /\ word' = [word EXCEPT ![o] = IF k = "normal" THEN Null ELSE k]
        /\ UNCHANGED <<initializedObjects, block, depth, control>>
  BY DEF StaticInit
<1>2. /\ \A p \in Objects : life'[p] = IF p = o THEN k ELSE life[p]
      /\ \A p \in Objects : broken'[p] = IF p = o THEN EntriesOf(o) # {} ELSE broken[p]
      /\ \A p \in Objects : word'[p] = IF p = o THEN IF k = "normal" THEN Null ELSE k ELSE word[p]
      /\ life[o] = "over" /\ Unused(o)
      /\ UNCHANGED <<initializedObjects, block, depth, pc, op, arg, kind>>
  BY <1>1, TypeSplit DEF Begin, DataTyped, control
<1>3. word' \in [Objects -> Words]
  BY <1>1, TypeSplit DEF DataTyped, Words, Kinds, Statics
<1>4. DataTyped' /\ ControlTyped'
  BY <1>1, <1>2, <1>3, TypeSplit DEF Begin, DataTyped, ControlTyped
<1>5. word'[o] \in Statics \cup {Null} /\ word'[o] \notin Blocks
  BY <1>2, WordsAssumption, PointersAssumption DEF Kinds, Statics
<1>6. ControlOK' /\ Alone'
  BY <1>2 DEF ControlOK, Alone
<1>7. UsedLives'
  BY <1>2 DEF UsedLives, Using, Kinds
<1>8. OwnBlocks'
  BY <1>2, <1>5 DEF OwnBlocks
<1>9. CreatedWord' /\ InitNormal'
  BY <1>2 DEF CreatedWord, InitNormal, Unused, Using, ControlOK
<1>10. ~broken'[o] => Phase(o)'
  <2>1. WordKind(word'[o]) = k
    BY <1>2, WordsAssumption DEF WordKind, Kinds, Statics
  <2>2. AsInitialised(o)'
    BY <1>2, <1>5, <2>1 DEF AsInitialised, WordKind
  <2>3. Unheld(o)'
    BY <1>2, TypeSplit DEF Unheld, Unused, Using, DataTyped
  <2>4. \A t \in Threads : arg'[t] # o
    BY <1>2 DEF Unused, Using
  <2>5. ~broken'[o] => EntriesOf(o)' = {}
    BY <1>2 DEF EntriesOf
  <2> QED BY <2>2, <2>3, <2>4, <2>5 DEF Phase, Untouched
<1>11. \A p \in Objects : EntriesOf(p)' = EntriesOf(p)
  BY <1>2 DEF EntriesOf
<1>12. Tracked'
  BY <1>2, <1>10, <1>11, OthersFrame
<1> QED BY <1>4, <1>6, <1>7, <1>8, <1>9, <1>12, TypeSplitNext

LEMMA CallInitStep ==
    ASSUME MutexInv, NEW t \in Threads, NEW o \in Objects, CallInit(t, o) PROVE MutexInv'
<1> USE DEF MutexInv, Common
<1>1. PICK k \in Kinds, w \in {"init", "init0"} :
        Begin(o, k) /\ Enter(t, w, o, "check") /\ (w = "init0" => k = "normal")
  BY DEF CallInit, Kinds
<1>2. /\ \A p \in Objects : life'[p] = IF p = o THEN k ELSE life[p]
      /\ \A p \in Objects : broken'[p] = IF p = o THEN EntriesOf(o) # {} ELSE broken[p]
      /\ life[o] = "over" /\ Unused(o) /\ pc[t] = "game"
      /\ UNCHANGED <<initializedObjects, word, block, depth>>
  BY <1>1, TypeSplit DEF Begin, DataTyped, CallInit, shared, Enter, At
<1>3. Moved(t, "check", w, o)
  BY <1>1, Enters DEF Places, Wrappers
<1>4. TypeOK'
  <2>1. DataTyped'
    BY <1>1, <1>2, TypeSplit DEF Begin, DataTyped
  <2> QED BY <1>3, <2>1, TypeSplitNext DEF Moved
<1>5. ControlOK'
  BY <1>3 DEF ControlOK, Moved
<1>6. UsedLives'
  BY <1>2, <1>3 DEF UsedLives, Using, Kinds, Moved
<1>7. Alone'
  <2>1. \A u \in Threads : arg[u] # o /\ depth[u][o] = 0
    BY <1>2, TypeSplit DEF Unused, Using, DataTyped
  <2> QED BY <1>2, <1>3, <2>1 DEF Alone, Moved
<1>8. OwnBlocks' /\ CreatedWord'
  BY <1>2, <1>3 DEF OwnBlocks, CreatedWord, Moved
<1>9. InitNormal'
  BY <1>1, <1>2, <1>3 DEF InitNormal, ControlOK, Unused, Using, Moved
<1>10. ~broken'[o] => Phase(o)'
  <2>1. Unheld(o)'
    BY <1>2, TypeSplit DEF Unheld, Unused, Using, DataTyped
  <2>2. ~broken'[o] => EntriesOf(o)' = {}
    BY <1>2 DEF EntriesOf
  <2>3. arg'[t] = o /\ pc'[t] = "check" /\ op'[t] \in {"init", "init0"}
    BY <1>3 DEF Moved
  <2> QED BY <2>1, <2>2, <2>3 DEF Phase, Beginning
<1>11. \A p \in Objects : EntriesOf(p)' = EntriesOf(p)
  BY <1>2 DEF EntriesOf
<1>12. arg[t] = Null
  BY <1>2 DEF ControlOK
<1>13. Tracked'
  BY <1>2, <1>3, <1>10, <1>11, <1>12, PointersAssumption, OthersFrame DEF Moved
<1> QED BY <1>4, <1>5, <1>6, <1>7, <1>8, <1>9, <1>13

LEMMA CallLockStep ==
    ASSUME MutexInv, NEW t \in Threads, NEW o \in Objects, CallLock(t, o) PROVE MutexInv'
<1> USE DEF MutexInv, Common
<1>1. PICK w \in {"lock", "trylock"} : Enter(t, w, o, "check")
  BY DEF CallLock
<1>2. /\ life[o] # "over" /\ pc[t] = "game"
      /\ \A u \in Threads : arg[u] = o => op[u] \in {"lock", "trylock"}
      /\ UNCHANGED <<initializedObjects, word, block, depth, life, broken>>
  BY <1>1 DEF CallLock, MayLock, shared, history, Enter, At
<1>3. Moved(t, "check", w, o)
  BY <1>1, Enters DEF Places, Wrappers
<1>4. TypeOK'
  <2>1. DataTyped'
    BY <1>2, TypeSplit DEF DataTyped
  <2> QED BY <1>3, <2>1, TypeSplitNext DEF Moved
<1>5. ControlOK'
  BY <1>3 DEF ControlOK, Moved
<1>6. UsedLives'
  BY <1>2, <1>3 DEF UsedLives, Using, Moved
<1>7. Alone'
  BY <1>2, <1>3 DEF Alone, Moved
<1>8. OwnBlocks' /\ CreatedWord' /\ InitNormal'
  BY <1>2, <1>3 DEF OwnBlocks, CreatedWord, InitNormal, Moved
<1>9. arg[t] = Null /\ Null # o
  BY <1>2, PointersAssumption DEF ControlOK
<1>10. \A p \in Objects : EntriesOf(p)' = EntriesOf(p)
  BY <1>2 DEF EntriesOf
<1>11. ASSUME ~broken'[o] PROVE Phase(o)'
  <2>1. Phase(o)
    BY <1>2, <1>11 DEF Tracked
  <2>2. Truthful(o) => Truthful(o)'
    BY <1>2 DEF Truthful
  <2>3. Unheld(o) => Unheld(o)'
    BY <1>2 DEF Unheld
  <2>4. AsInitialised(o) => AsInitialised(o)'
    BY <1>2 DEF AsInitialised, WordKind
  <2>5. CASE InUse(o)
    <3>1. InUse(o)'
      BY <1>3, <1>10, <2>2, <2>5 DEF InUse, Moved, Locking
    <3> QED BY <3>1 DEF Phase
  <2>6. CASE Untouched(o)
    <3>1. Untouched(o)'
      BY <1>3, <1>10, <2>3, <2>4, <2>6 DEF Untouched, Moved, Locking
    <3> QED BY <3>1 DEF Phase
  <2>7. CASE BeingMade(o)
    <3>1. PICK v \in Threads :
            /\ Creating(v, o)
            /\ \A u \in Threads : arg[u] = o /\ u # v => Locking(u) /\ pc[u] = "check"
            /\ pc[v] = "create" /\ Locking(v) => AsInitialised(o)
            /\ pc[v] = "initreal" => kind[v] = life[o]
            /\ pc[v] = "remember" => Truthful(o)
      BY <2>7 DEF BeingMade
    <3>2. v # t /\ Creating(v, o)'
      BY <1>3, <1>9, <3>1 DEF Creating, Moved
    <3>3. \A u \in Threads : arg'[u] = o /\ u # v => Locking(u)' /\ pc'[u] = "check"
      BY <1>3, <3>1 DEF Moved, Locking
    <3>4. BeingMade(o)'
      BY <1>2, <1>3, <1>10, <2>2, <2>3, <2>4, <2>7, <3>1, <3>2, <3>3
         DEF BeingMade, Moved, Locking
    <3> QED BY <3>4 DEF Phase
  <2>8. ~Beginning(o) /\ ~Ending(o)
    BY <1>2 DEF Beginning, Ending, ControlOK
  <2> QED BY <2>1, <2>5, <2>6, <2>7, <2>8 DEF Phase
<1>12. Tracked'
  BY <1>2, <1>3, <1>9, <1>10, <1>11, PointersAssumption, OthersFrame DEF Moved
<1> QED BY <1>4, <1>5, <1>6, <1>7, <1>8, <1>12

LEMMA CallDestroyStep ==
    ASSUME MutexInv, NEW t \in Threads, NEW o \in Objects, CallDestroy(t, o)
    PROVE  MutexInv'
<1> USE DEF MutexInv, Common
<1>1. /\ life[o] # "over" /\ Unused(o) /\ forgetObject(o) /\ pc[t] = "game"
      /\ Enter(t, "destroy", o, "destroyreal")
      /\ UNCHANGED <<word, block, depth, life, broken>>
  BY DEF CallDestroy, history, Enter, At
<1>2. Moved(t, "destroyreal", "destroy", o)
  BY <1>1, Enters DEF Places, Wrappers
<1>3. /\ initializedObjects' \in [Entries -> Objects \cup {Null}]
      /\ \A p \in Objects : p # o => EntriesOf(p)' = EntriesOf(p)
      /\ EntriesOf(o) = {} \/ (\E i \in Entries : EntriesOf(o) = {i}) => EntriesOf(o)' = {}
  BY <1>1, ForgetEffect
<1>4. TypeOK'
  <2>1. DataTyped'
    BY <1>1, <1>3, TypeSplit DEF DataTyped
  <2> QED BY <1>2, <2>1, TypeSplitNext DEF Moved
<1>5. ControlOK'
  BY <1>2 DEF ControlOK, Moved
<1>6. UsedLives'
  BY <1>1, <1>2 DEF UsedLives, Using, Moved
<1>7. \A u \in Threads : arg[u] # o /\ depth[u][o] = 0
  BY <1>1, TypeSplit DEF Unused, Using, DataTyped
<1>8. Alone'
  BY <1>1, <1>2, <1>7 DEF Alone, Moved
<1>9. OwnBlocks' /\ CreatedWord' /\ InitNormal'
  BY <1>1, <1>2 DEF OwnBlocks, CreatedWord, InitNormal, Moved
<1>10. arg[t] = Null /\ Null # o
  BY <1>1, PointersAssumption DEF ControlOK
<1>11. ASSUME ~broken'[o] PROVE Phase(o)'
  <2>1. Phase(o)
    BY <1>1, <1>11 DEF Tracked
  <2>2. InUse(o) \/ Untouched(o)
    BY <1>7, <2>1 DEF Phase, Beginning, BeingMade, Creating, Ending
  <2>3. EntriesOf(o)' = {}
    BY <1>3, <2>2 DEF InUse, Untouched
  <2>4. Unheld(o)'
    BY <1>1, <1>7 DEF Unheld
  <2>5. life[o] \in Kinds
    BY <1>1, TypeSplit DEF DataTyped
  <2>6. (IsReal(word[o]) \/ word[o] \in Statics \cup {Null})'
    BY <1>1, <2>2, <2>5 DEF InUse, Untouched, Truthful, IsReal, AsInitialised
  <2>7. arg'[t] = o /\ pc'[t] = "destroyreal"
    BY <1>2 DEF Moved
  <2> QED BY <2>3, <2>4, <2>6, <2>7 DEF Phase, Ending
<1>12. Tracked'
  BY <1>1, <1>2, <1>3, <1>10, <1>11, PointersAssumption, OthersFrame DEF Moved
<1> QED BY <1>4, <1>5, <1>6, <1>8, <1>9, <1>12

LEMMA AbandonStep ==
    ASSUME MutexInv, NEW o \in Objects, Abandon(o) PROVE MutexInv'
<1> USE DEF MutexInv, Common
<1>1. /\ \A p \in Objects : life'[p] = IF p = o THEN "over" ELSE life[p]
      /\ \A p \in Objects : word'[p] = IF p = o THEN "junk" ELSE word[p]
      /\ Unused(o)
      /\ UNCHANGED <<initializedObjects, block, depth, broken, pc, op, arg, kind>>
  BY TypeSplit DEF Abandon, DataTyped, control
<1>2. DataTyped' /\ ControlTyped'
  BY <1>1, TypeSplit DEF Abandon, DataTyped, ControlTyped, Words
<1>3. \A u \in Threads : arg[u] # o /\ ~(depth[u][o] > 0)
  BY <1>1 DEF Unused, Using
<1>4. ControlOK' /\ Alone' /\ InitNormal'
  BY <1>1, <1>3 DEF ControlOK, Alone, InitNormal
<1>5. UsedLives'
  BY <1>1, <1>3 DEF UsedLives, Using
<1>6. OwnBlocks'
  BY <1>1, WordsAssumption DEF OwnBlocks
<1>7. CreatedWord'
  BY <1>1, <1>3 DEF CreatedWord, ControlOK
<1>8. \A p \in Objects : EntriesOf(p)' = EntriesOf(p)
  BY <1>1 DEF EntriesOf
<1>9. Tracked'
  BY <1>1, <1>8, OthersFrame
<1> QED BY <1>2, <1>4, <1>5, <1>6, <1>7, <1>9, TypeSplitNext

\* A thread in a wrapper, and nothing of its object but its own place changes.
LEMMA CheckStep ==
    ASSUME MutexInv, NEW t \in Threads, Check(t) PROVE MutexInv'
<1> USE DEF MutexInv, Common
<1>0. PICK o \in Objects : o = arg[t]
  BY DEF Check, At, ControlOK
<1> USE <1>0
<1>1. pc[t] = "check" /\ o \in Objects /\ op[t] \notin {"none", "destroy"}
  BY DEF Check, At, ControlOK
<1>2. UNCHANGED <<initializedObjects, word, block, life, depth>>
  BY DEF Check, shared
<1>3. life[o] # "over" /\ life[o] \in Kinds /\ op[t] \in {"init", "init0", "lock", "trylock"}
  BY <1>1, TypeSplit DEF UsedLives, Using, DataTyped, ControlTyped, Wrappers
<1>4. \A p \in Objects : EntriesOf(p)' = EntriesOf(p)
  BY <1>2 DEF EntriesOf
<1>5. /\ Truthful(o) => Truthful(o)'
      /\ Unheld(o) => Unheld(o)'
      /\ AsInitialised(o) => AsInitialised(o)'
  BY <1>2 DEF Truthful, Unheld, AsInitialised, WordKind
<1>6. ASSUME NEW p \in Places, NEW w \in Wrappers, NEW x, Moved(t, p, w, x),
             \/ p = "game" /\ w = "none" /\ x = Null
             \/ p = "create" /\ w = op[t] /\ x = o
             \/ p = "real" /\ w = op[t] /\ x = o /\ op[t] \in {"lock", "trylock"},
             broken' \in [Objects -> BOOLEAN]
      PROVE  Common'
  <2>1. TypeOK'
    <3>1. DataTyped'
      BY <1>2, <1>6, TypeSplit DEF DataTyped
    <3> QED BY <1>6, <3>1, TypeSplitNext DEF Moved
  <2>2. ControlOK'
    BY <1>1, <1>6 DEF ControlOK, Moved
  <2>3. UsedLives'
    BY <1>2, <1>6, PointersAssumption DEF UsedLives, Using, Moved
  <2>4. Alone'
    BY <1>2, <1>6, PointersAssumption DEF Alone, Moved, ControlOK
  <2>5. OwnBlocks' /\ CreatedWord' /\ InitNormal'
    BY <1>2, <1>6 DEF OwnBlocks, CreatedWord, InitNormal, Moved
  <2> QED BY <2>1, <2>2, <2>3, <2>4, <2>5
<1>7. CASE isObjectInitialized(o)
  <2>1. AfterInit(t) /\ broken' = broken
    BY <1>7 DEF Check
  <2>2. EntriesOf(o) # {}
    BY <1>7 DEF isObjectInitialized
  <2>3. ~broken[o] => InUse(o)
    BY <1>1, <1>3, <2>2 DEF Tracked, Phase, Untouched, Beginning, BeingMade, Ending
  <2>4. CASE op[t] \in {"init", "init0"} /\ Moved(t, "game", "none", Null)
    <3>1. broken[o]
      BY <1>1, <2>3, <2>4 DEF InUse, Locking
    <3>2. Tracked'
      BY <1>1, <1>2, <1>4, <2>1, <2>4, <3>1, PointersAssumption, OthersFrame DEF Moved
    <3> QED BY <1>6, <2>1, <2>4, <3>2, TypeSplit DEF Places, Wrappers, DataTyped
  <2>5. CASE op[t] \notin {"init", "init0"} /\ Moved(t, "real", op[t], o)
    <3>1. ~broken[o] => InUse(o)'
      BY <1>1, <1>3, <1>4, <1>5, <2>3, <2>5 DEF InUse, Moved, Locking
    <3>2. Tracked'
      BY <1>1, <1>2, <1>4, <2>1, <2>5, <3>1, OthersFrame DEF Moved, Phase
    <3>3. Common'
      BY <1>3, <1>6, <2>1, <2>5, TypeSplit DEF Places, Wrappers, DataTyped
    <3> QED BY <3>2, <3>3
  <2> QED BY <2>1, <2>4, <2>5, AfterInits
<1>8. CASE ~isObjectInitialized(o)
  <2>1. Goto(t, "create") /\ UNCHANGED <<op, arg, kind>>
    BY <1>8 DEF Check
  <2>2. Moved(t, "create", op[t], o)
    BY <2>1, Goes, TypeSplit DEF Places, ControlTyped
  <2>3. broken' = IF \E u \in Threads : Creating(u, o) THEN [broken EXCEPT ![o] = TRUE]
                  ELSE broken
    BY <1>8 DEF Check, Break
  <2>4. broken' \in [Objects -> BOOLEAN] /\ \A p \in Objects : p # o => broken'[p] = broken[p]
    BY <2>3, TypeSplit DEF DataTyped
  <2>5. Common'
    BY <1>3, <1>6, <2>2, <2>4 DEF Places, Wrappers
  <2>6. ASSUME ~broken'[o] PROVE Phase(o)'
    <3>1. ~broken[o] /\ \A u \in Threads : ~Creating(u, o)
      BY <1>1, <2>3, <2>6, TypeSplit DEF DataTyped
    <3>2. Untouched(o) \/ Beginning(o)
      <4>1. ~InUse(o)
        BY <1>8 DEF InUse, isObjectInitialized
      <4>2. ~BeingMade(o)
        BY <3>1 DEF BeingMade
      <4>3. ~Ending(o)
        BY <1>1 DEF Ending, ControlOK, Alone
      <4> QED BY <1>1, <1>3, <3>1, <4>1, <4>2, <4>3 DEF Tracked, Phase
    <3>3. EntriesOf(o)' = {} /\ Unheld(o)'
      BY <1>1, <1>4, <1>5, <3>2 DEF Untouched, Beginning
    <3>4. Creating(t, o)' /\ pc'[t] = "create"
      BY <2>2 DEF Creating, Moved
    <3>5. CASE Untouched(o)
      <4>1. \A u \in Threads : arg'[u] = o /\ u # t => Locking(u)' /\ pc'[u] = "check"
        BY <2>2, <3>5 DEF Untouched, Locking, Moved
      <4>2. AsInitialised(o)'
        BY <1>5, <3>5 DEF Untouched
      <4> QED BY <3>3, <3>4, <4>1, <4>2 DEF Phase, BeingMade
    <3>6. CASE Beginning(o)
      <4>1. \A u \in Threads : arg[u] = o => u = t
        BY <1>1, <3>6 DEF Beginning, Alone
      <4>2. op[t] \in {"init", "init0"}
        BY <3>6, <4>1 DEF Beginning
      <4>3. ~Locking(t)' /\ \A u \in Threads : arg'[u] = o => u = t
        BY <2>2, <4>1, <4>2 DEF Locking, Moved
      <4> QED BY <3>3, <3>4, <4>3 DEF Phase, BeingMade
    <3> QED BY <3>2, <3>5, <3>6
  <2>7. Tracked'
    BY <1>1, <1>2, <1>4, <2>2, <2>4, <2>6, OthersFrame DEF Moved
  <2> QED BY <2>5, <2>7
<1> QED BY <1>7, <1>8

\* The thread that is making the mutex of an object is the one of its phase.
LEMMA Maker ==
    ASSUME MutexInv, NEW t \in Threads, pc[t] \in {"create", "initreal", "remember"},
           ~broken[arg[t]]
    PROVE  /\ EntriesOf(arg[t]) = {} /\ Unheld(arg[t])
           /\ \A u \in Threads : arg[u] = arg[t] /\ u # t => Locking(u) /\ pc[u] = "check"
           /\ pc[t] = "create" /\ Locking(t) => AsInitialised(arg[t])
           /\ pc[t] = "initreal" => kind[t] = life[arg[t]]
           /\ pc[t] = "remember" => Truthful(arg[t])
<1> DEFINE o == arg[t]
<1>1. o \in Objects
  BY DEF MutexInv, Common, ControlOK
<1>2. life[o] # "over"
  BY <1>1 DEF MutexInv, Common, UsedLives, Using
<1>3. Phase(o)
  BY <1>1, <1>2 DEF MutexInv, Tracked
<1>4. ~Ending(o) /\ ~Beginning(o)
  BY DEF Ending, Beginning, MutexInv, Common, ControlOK, Alone
<1>5. BeingMade(o)
  BY <1>3, <1>4 DEF Phase, InUse, Untouched
<1>6. PICK v \in Threads :
        /\ Creating(v, o)
        /\ \A u \in Threads : arg[u] = o /\ u # v => Locking(u) /\ pc[u] = "check"
        /\ pc[v] = "create" /\ Locking(v) => AsInitialised(o)
        /\ pc[v] = "initreal" => kind[v] = life[o]
        /\ pc[v] = "remember" => Truthful(o)
  BY <1>5 DEF BeingMade
<1>7. v = t
  BY <1>6
<1> QED BY <1>5, <1>6, <1>7 DEF BeingMade

LEMMA CreateStep ==
    ASSUME MutexInv, NEW t \in Threads, Create(t) PROVE MutexInv'
<1> USE DEF MutexInv, Common
<1>0. PICK o \in Objects : o = arg[t]
  BY DEF Create, At, ControlOK
<1> USE <1>0
<1>1. pc[t] = "create" /\ o \in Objects /\ op[t] \notin {"none", "destroy"}
  BY DEF Create, At, ControlOK
<1>2. PICK b \in Blocks :
        /\ block[b].state = "free" /\ block' = [block EXCEPT ![b] = Raw]
        /\ word' = [word EXCEPT ![o] = b]
  BY DEF Create
<1>3. PICK k \in AskedKinds(t) :
        /\ kind' = [kind EXCEPT ![t] = k]
        /\ IF op[t] = "init0" /\ k # "normal" THEN Break(o) ELSE UNCHANGED broken
  BY DEF Create
<1>4. Goto(t, "initreal") /\ UNCHANGED <<initializedObjects, life, depth, op, arg>>
  BY DEF Create
<1>5. life[o] # "over" /\ life[o] \in Kinds
  BY <1>1, TypeSplit DEF UsedLives, Using, DataTyped
<1>6. k \in Kinds
  BY <1>3, <1>5 DEF AskedKinds, WordKind, Kinds, Statics
<1>7. Moved(t, "initreal", op[t], o)
  <2>1. kind' \in [Threads -> Kinds] /\ \A u \in Threads \ {t} : kind'[u] = kind[u]
    BY <1>3, <1>6, TypeSplit DEF ControlTyped
  <2> QED BY <1>4, <2>1, Goes DEF Places
<1>8. /\ \A p \in Objects : word'[p] = IF p = o THEN b ELSE word[p]
      /\ \A c \in Blocks : block'[c] = IF c = b THEN Raw ELSE block[c]
      /\ broken' \in [Objects -> BOOLEAN]
      /\ \A p \in Objects : p # o => broken'[p] = broken[p]
      /\ ~broken'[o] => ~broken[o] /\ (op[t] = "init0" => k = "normal")
  BY <1>1, <1>2, <1>3, TypeSplit DEF DataTyped, Break
<1>9. \A p \in Objects : word[p] # b
  BY <1>2 DEF OwnBlocks
<1>10. TypeOK'
  <2>1. word' \in [Objects -> Words]
    BY <1>2, TypeSplit DEF DataTyped, Words
  <2>2. block' \in [Blocks -> [state : Kinds \cup {"free", "raw"},
                               owner : Threads \cup {Nobody}, count : Nat]]
    BY <1>2, TypeSplit DEF DataTyped, Raw, Free
  <2>3. DataTyped'
    BY <1>4, <1>8, <2>1, <2>2, TypeSplit DEF DataTyped
  <2> QED BY <1>7, <2>3, TypeSplitNext DEF Moved
<1>11. ControlOK' /\ UsedLives' /\ Alone' /\ InitNormal'
  <2>1. ControlOK'
    BY <1>1, <1>7 DEF ControlOK, Moved
  <2>2. UsedLives' /\ InitNormal'
    BY <1>4, <1>7 DEF UsedLives, Using, InitNormal, Moved
  <2>3. Alone'
    BY <1>4 DEF Alone
  <2> QED BY <2>1, <2>2, <2>3
<1>12. OwnBlocks'
  BY <1>8, <1>9 DEF OwnBlocks, Raw, Free
<1>13. CreatedWord'
  BY <1>1, <1>7, <1>8 DEF CreatedWord, Moved, ControlOK
<1>14. \A p \in Objects : EntriesOf(p)' = EntriesOf(p)
  BY <1>4 DEF EntriesOf
<1>15. ASSUME ~broken'[o] PROVE Phase(o)'
  <2>1. /\ EntriesOf(o) = {} /\ Unheld(o)
        /\ \A u \in Threads : arg[u] = o /\ u # t => Locking(u) /\ pc[u] = "check"
        /\ Locking(t) => AsInitialised(o)
    BY <1>1, <1>8, <1>15, Maker
  <2>2. EntriesOf(o)' = {} /\ Unheld(o)'
    BY <1>1, <1>4, <1>14, <2>1 DEF Unheld
  <2>3. Creating(t, o)' /\ pc'[t] = "initreal"
    BY <1>7 DEF Creating, Moved
  <2>4. \A u \in Threads : arg'[u] = o /\ u # t => Locking(u)' /\ pc'[u] = "check"
    BY <1>7, <2>1 DEF Locking, Moved
  <2>5. k = life[o]
    <3>1. CASE op[t] = "init"
      BY <1>3, <3>1 DEF AskedKinds
    <3>2. CASE op[t] = "init0"
      BY <1>8, <1>15, <3>2 DEF InitNormal
    <3>3. CASE Locking(t)
      BY <1>3, <2>1, <3>3 DEF AskedKinds, AsInitialised, Locking
    <3> QED BY <1>1, <3>1, <3>2, <3>3, TypeSplit DEF Locking, ControlTyped, Wrappers
  <2>6. kind'[t] = life'[o]
    BY <1>3, <1>4, <2>5, TypeSplit DEF ControlTyped
  <2> QED BY <2>2, <2>3, <2>4, <2>6 DEF Phase, BeingMade
<1>16. Tracked'
  BY <1>1, <1>4, <1>7, <1>8, <1>9, <1>14, <1>15, OthersFrame DEF Moved
<1> QED BY <1>10, <1>11, <1>12, <1>13, <1>16

\* What AfterInit does to the invariant of all objects: the thread leaves, or
\* goes on to the real function.
LEMMA AfterInitCommon ==
    ASSUME MutexInv, NEW t \in Threads, pc[t] \in {"initreal", "remember"}, AfterInit(t),
           UNCHANGED <<word, life, depth>>, DataTyped',
           \A o \in Objects : word[o] \in Blocks => block'[word[o]].state = block[word[o]].state
    PROVE  Common'
<1> USE DEF MutexInv, Common
<1>1. /\ op[t] \notin {"none", "destroy"}
      /\ \/ op[t] \in {"init", "init0"} /\ Moved(t, "game", "none", Null)
         \/ op[t] \in {"lock", "trylock"} /\ Moved(t, "real", op[t], arg[t])
  BY AfterInits, TypeSplit DEF ControlOK, ControlTyped, Wrappers
<1>2. TypeOK'
  BY <1>1, TypeSplitNext DEF Moved
<1>3. ControlOK'
  BY <1>1 DEF ControlOK, Moved
<1>4. UsedLives'
  BY <1>1, PointersAssumption DEF UsedLives, Using, Moved
<1>5. Alone'
  BY <1>1, PointersAssumption DEF Alone, Moved, ControlOK
<1>6. OwnBlocks'
  BY DEF OwnBlocks
<1>7. CreatedWord' /\ InitNormal'
  BY <1>1 DEF CreatedWord, InitNormal, Moved
<1> QED BY <1>2, <1>3, <1>4, <1>5, <1>6, <1>7

LEMMA InitRealStep ==
    ASSUME MutexInv, NEW t \in Threads, InitReal(t) PROVE MutexInv'
<1> USE DEF MutexInv, Common
<1>0. PICK o \in Objects : o = arg[t]
  BY DEF InitReal, At, ControlOK
<1> USE <1>0
<1>1. pc[t] = "initreal" /\ UNCHANGED <<initializedObjects, word, life, depth>>
  BY DEF InitReal, At
<1>2. word[o] \in Blocks /\ kind[t] \in Kinds
  BY <1>1, TypeSplit DEF CreatedWord, ControlTyped
<1>3. \A p \in Objects : EntriesOf(p)' = EntriesOf(p)
  BY <1>1 DEF EntriesOf
<1>4. CASE block' = [block EXCEPT ![word[o]] = Real(kind[t])] /\ Goto(t, "remember")
           /\ UNCHANGED <<op, arg, kind, broken>>
  <2>1. Moved(t, "remember", op[t], o)
    BY <1>4, Goes, TypeSplit DEF Places, ControlTyped
  <2>2. \A b \in Blocks : block'[b] = IF b = word[o] THEN Real(kind[t]) ELSE block[b]
    BY <1>4, TypeSplit DEF DataTyped
  <2>3. TypeOK'
    <3>1. block' \in [Blocks -> [state : Kinds \cup {"free", "raw"},
                                 owner : Threads \cup {Nobody}, count : Nat]]
      BY <1>2, <1>4, TypeSplit DEF DataTyped, Real, Free
    <3>2. DataTyped'
      BY <1>1, <1>4, <3>1, TypeSplit DEF DataTyped
    <3> QED BY <2>1, <3>2, TypeSplitNext DEF Moved
  <2>4. ControlOK' /\ UsedLives' /\ Alone' /\ InitNormal' /\ CreatedWord'
    <3>1. ControlOK'
      BY <1>1, <2>1 DEF ControlOK, Moved
    <3>2. UsedLives' /\ InitNormal' /\ CreatedWord'
      BY <1>1, <2>1 DEF UsedLives, Using, InitNormal, CreatedWord, Moved
    <3>3. Alone'
      BY <1>1, <1>4 DEF Alone
    <3> QED BY <3>1, <3>2, <3>3
  <2>5. OwnBlocks'
    BY <1>1, <1>2, <2>2 DEF OwnBlocks, Real, Free, Kinds
  <2>6. ASSUME ~broken'[o] PROVE Phase(o)'
    <3>1. /\ EntriesOf(o) = {} /\ Unheld(o) /\ kind[t] = life[o]
          /\ \A u \in Threads : arg[u] = o /\ u # t => Locking(u) /\ pc[u] = "check"
      BY <1>1, <1>4, <2>6, Maker
    <3>2. EntriesOf(o)' = {} /\ Unheld(o)'
      BY <1>1, <1>3, <3>1 DEF Unheld
    <3>3. Creating(t, o)' /\ pc'[t] = "remember"
      BY <2>1 DEF Creating, Moved
    <3>4. \A u \in Threads : arg'[u] = o /\ u # t => Locking(u)' /\ pc'[u] = "check"
      BY <2>1, <3>1 DEF Locking, Moved
    <3>5. block'[word'[o]] = [state |-> life'[o], owner |-> Nobody, count |-> 0]
      BY <1>1, <1>2, <2>2, <3>1 DEF Real, Free
    <3>6. Truthful(o)'
      BY <1>1, <1>2, <3>1, <3>5, PointersAssumption DEF Truthful, Unheld
    <3> QED BY <3>2, <3>3, <3>4, <3>6 DEF Phase, BeingMade
  <2>7. Tracked'
    BY <1>1, <1>2, <1>3, <1>4, <2>1, <2>2, <2>6, OthersFrame DEF Moved, OwnBlocks
  <2> QED BY <2>3, <2>4, <2>5, <2>7
<1>5. CASE AfterInit(t) /\ Break(o) /\ UNCHANGED block
  <2>1. \A p \in Objects : broken'[p] = IF p = o THEN TRUE ELSE broken[p]
    BY <1>5, TypeSplit DEF Break, DataTyped
  <2>2. DataTyped'
    BY <1>1, <1>5, TypeSplit DEF Break, DataTyped
  <2>3. Common'
    BY <1>1, <1>5, <2>2, AfterInitCommon
  <2>4. \/ Moved(t, "game", "none", Null)
        \/ Moved(t, "real", op[t], o)
    BY <1>5, AfterInits
  <2>5. \A p \in Objects \ {o}, u \in Threads :
            /\ arg'[u] = p <=> arg[u] = p
            /\ arg[u] = p => pc'[u] = pc[u] /\ op'[u] = op[u] /\ kind'[u] = kind[u]
    BY <2>4, PointersAssumption DEF Moved
  <2>6. \A p \in Objects \ {o} :
            /\ EntriesOf(p)' = EntriesOf(p) /\ word'[p] = word[p] /\ life'[p] = life[p]
            /\ broken'[p] = broken[p]
            /\ word[p] \in Blocks => block'[word[p]] = block[word[p]]
            /\ \A u \in Threads : depth'[u][p] = depth[u][p]
    BY <1>1, <1>3, <1>5, <2>1
  <2>7. life'[o] # "over" /\ ~broken'[o] => Phase(o)'
    BY <2>1
  <2>8. Tracked'
    BY <2>5, <2>6, <2>7, OthersFrame
  <2> QED BY <2>3, <2>8
<1> QED BY <1>4, <1>5 DEF InitReal

LEMMA RememberStep ==
    ASSUME MutexInv, NEW t \in Threads, Remember(t) PROVE MutexInv'
<1> USE DEF MutexInv, Common
<1>0. PICK o \in Objects : o = arg[t]
  BY DEF Remember, At, ControlOK
<1> USE <1>0
<1>1. /\ pc[t] = "remember" /\ rememberObject(o) /\ AfterInit(t)
      /\ UNCHANGED <<word, block, life, depth>>
      /\ IF EntriesOf(Null) = {} THEN Break(o) ELSE UNCHANGED broken
  BY DEF Remember, At
<1>2. /\ initializedObjects' \in [Entries -> Objects \cup {Null}]
      /\ \A p \in Objects : p # o => EntriesOf(p)' = EntriesOf(p)
      /\ EntriesOf(Null) # {} /\ EntriesOf(o) = {} => \E i \in Entries : EntriesOf(o)' = {i}
  BY <1>1, RememberEffect
<1>3. /\ broken' \in [Objects -> BOOLEAN]
      /\ \A p \in Objects : p # o => broken'[p] = broken[p]
      /\ ~broken'[o] => ~broken[o] /\ EntriesOf(Null) # {}
  BY <1>1, TypeSplit DEF DataTyped, Break
<1>4. DataTyped'
  BY <1>1, <1>2, <1>3, TypeSplit DEF DataTyped
<1>5. Common'
  BY <1>1, <1>4, AfterInitCommon
<1>6. \/ op[t] \in {"init", "init0"} /\ Moved(t, "game", "none", Null)
      \/ op[t] \in {"lock", "trylock"} /\ Moved(t, "real", op[t], o)
  BY <1>1, AfterInits, TypeSplit DEF ControlOK, ControlTyped, Wrappers
<1>7. ASSUME ~broken'[o] PROVE InUse(o)'
  <2>1. /\ EntriesOf(o) = {} /\ Truthful(o)
        /\ \A u \in Threads : arg[u] = o /\ u # t => Locking(u) /\ pc[u] = "check"
    BY <1>1, <1>3, <1>7, Maker
  <2>2. \E i \in Entries : EntriesOf(o)' = {i}
    BY <1>2, <1>3, <1>7, <2>1
  <2>3. Truthful(o)'
    BY <1>1, <2>1 DEF Truthful
  <2>4. \A u \in Threads : arg'[u] = o => Locking(u)' /\ pc'[u] \in {"check", "real"}
    BY <1>6, <2>1, PointersAssumption DEF Moved, Locking
  <2>5. Entries' = Entries
    BY DEF Entries
  <2> QED BY <2>2, <2>3, <2>4, <2>5 DEF InUse
<1>8. Tracked'
  BY <1>1, <1>2, <1>3, <1>6, <1>7, PointersAssumption, OthersFrame DEF Moved, Phase
<1> QED BY <1>5, <1>8

\* A thread that is about to call a real function, or that holds the object,
\* finds the real mutex behind the word.
LEMMA UserFinds ==
    ASSUME MutexInv, NEW t \in Threads, NEW o \in Objects, ~broken[o],
           (arg[t] = o /\ pc[t] = "real") \/ depth[t][o] > 0
    PROVE  InUse(o)
<1>1. Phase(o)
  BY DEF MutexInv, Common, UsedLives, Using, Tracked
<1>2. ~Unheld(o) \/ (arg[t] = o /\ pc[t] = "real")
  BY DEF Unheld
<1>3. ~Untouched(o)
  BY <1>2 DEF Untouched
<1>4. ~Beginning(o) /\ ~Ending(o)
  BY <1>2 DEF Beginning, Ending, MutexInv, Common, ControlOK, Alone
<1>5. ~BeingMade(o)
  BY <1>2 DEF BeingMade, Creating
<1> QED BY <1>1, <1>3, <1>4, <1>5 DEF Phase

LEMMA RealLockStep ==
    ASSUME MutexInv, NEW t \in Threads, RealLock(t) PROVE MutexInv'
<1> USE DEF MutexInv, Common
<1>0. PICK o \in Objects : o = arg[t]
  BY DEF RealLock, At, ControlOK
<1> USE <1>0
<1>1. /\ pc[t] = "real" /\ IsReal(word[o]) /\ Return(t) /\ op[t] \in {"lock", "trylock"}
      /\ UNCHANGED <<initializedObjects, word, life, broken>>
  BY DEF RealLock, At
<1>2. PICK b \in Blocks : b = word[o]
  BY <1>1 DEF IsReal
<1>3. Moved(t, "game", "none", Null)
  BY <1>1, Returns
<1>4. \/ /\ block[b].owner = Nobody \/ (block[b].owner = t /\ block[b].state = "recursive")
         /\ Take(t, b)
      \/ UNCHANGED <<block, depth>>
  BY <1>2 DEF RealLock
<1>5. block[b] \in [state : Kinds \cup {"free", "raw"}, owner : Threads \cup {Nobody}, count : Nat]
      /\ depth[t] \in [Objects -> Nat]
  BY TypeSplit DEF DataTyped
<1>6. \/ /\ block[b].owner \in {Nobody, t}
         /\ \A c \in Blocks : block'[c] = IF c = b THEN [state |-> block[b].state, owner |-> t,
                                                        count |-> block[b].count + 1]
                              ELSE block[c]
         /\ \A u \in Threads, p \in Objects :
               depth'[u][p] = IF u = t /\ p = o THEN depth[t][o] + 1 ELSE depth[u][p]
         /\ block' = [block EXCEPT ![b] = [state |-> block[b].state, owner |-> t,
                                           count |-> block[b].count + 1]]
      \/ UNCHANGED <<block, depth>>
  BY <1>4, <1>5, TypeSplit DEF Take, DataTyped
<1>7. TypeOK'
  <2>1. block' \in [Blocks -> [state : Kinds \cup {"free", "raw"},
                               owner : Threads \cup {Nobody}, count : Nat]]
    BY <1>5, <1>6, TypeSplit DEF DataTyped
  <2>2. depth' \in [Threads -> [Objects -> Nat]]
    BY <1>4, <1>5, TypeSplit DEF DataTyped, Take
  <2>3. DataTyped'
    BY <1>1, <2>1, <2>2, TypeSplit DEF DataTyped
  <2> QED BY <1>3, <2>3, TypeSplitNext DEF Moved
<1>8. ControlOK' /\ CreatedWord' /\ InitNormal'
  BY <1>1, <1>3 DEF ControlOK, CreatedWord, InitNormal, Moved
<1>9. UsedLives'
  BY <1>1, <1>3, <1>6, PointersAssumption DEF UsedLives, Using, Moved
<1>10. Alone'
  <2>1. \A u \in Threads : op'[u] \in {"init", "init0", "destroy"} =>
           u # t /\ arg[u] # o /\ arg[u] \in Objects
    BY <1>1, <1>3 DEF Moved, Alone, ControlOK
  <2> QED BY <1>3, <1>6, <2>1, PointersAssumption DEF Alone, Moved
<1>11. OwnBlocks'
  BY <1>1, <1>6 DEF OwnBlocks
<1>12. \A p \in Objects : EntriesOf(p)' = EntriesOf(p)
  BY <1>1 DEF EntriesOf
<1>13. ASSUME ~broken'[o] PROVE InUse(o)'
  <2>1. InUse(o)
    BY <1>1, <1>13, UserFinds
  <2>2. Truthful(o)
    BY <2>1 DEF InUse
  <2>3. Truthful(o)'
    <3>1. CASE UNCHANGED <<block, depth>>
      BY <1>1, <2>2, <3>1 DEF Truthful
    <3>2. CASE ~UNCHANGED <<block, depth>>
      <4>1. /\ block'[b] = [state |-> block[b].state, owner |-> t, count |-> block[b].count + 1]
            /\ block[b].owner \in {Nobody, t}
            /\ \A u \in Threads : depth'[u][o] = IF u = t THEN depth[t][o] + 1 ELSE depth[u][o]
        BY <1>6, <3>2
      <4>2. \A u \in Threads : depth[u][o] = IF block[b].owner = u THEN block[b].count ELSE 0
        BY <1>2, <2>2 DEF Truthful
      <4>3. depth[t][o] = block[b].count
        BY <1>2, <2>2, <4>1, <4>2, PointersAssumption DEF Truthful
      <4>4. \A u \in Threads : u # t => depth[u][o] = 0
        BY <4>1, <4>2, PointersAssumption
      <4>5. \A u \in Threads : depth'[u][o] = IF t = u THEN block[b].count + 1 ELSE 0
        BY <4>1, <4>3, <4>4
      <4>6. block[b].count + 1 # 0 /\ t # Nobody
        BY <1>5, PointersAssumption
      <4> QED BY <1>1, <1>2, <2>2, <4>1, <4>5, <4>6 DEF Truthful
    <3> QED BY <3>1, <3>2
  <2>4. \A u \in Threads : arg'[u] = o => Locking(u)' /\ pc'[u] \in {"check", "real"}
    BY <1>3, <2>1, PointersAssumption DEF InUse, Moved, Locking
  <2>5. \E i \in Entries' : EntriesOf(o)' = {i}
    BY <1>12, <2>1 DEF InUse, Entries
  <2> QED BY <2>3, <2>4, <2>5 DEF InUse
<1>14. \A p \in Objects \ {o} : word[p] \in Blocks => block'[word[p]] = block[word[p]]
  BY <1>2, <1>6 DEF OwnBlocks
<1>15. Tracked'
  BY <1>1, <1>3, <1>6, <1>12, <1>13, <1>14, PointersAssumption, OthersFrame DEF Moved, Phase
<1> QED BY <1>7, <1>8, <1>9, <1>10, <1>11, <1>15

LEMMA WildLockStep ==
    ASSUME MutexInv, NEW t \in Threads, WildLock(t) PROVE MutexInv'
<1> USE DEF MutexInv, Common
<1>0. PICK o \in Objects : o = arg[t]
  BY DEF WildLock, At, ControlOK
<1> USE <1>0
<1>1. /\ pc[t] = "real" /\ ~IsReal(word[o])
      /\ UNCHANGED <<initializedObjects, word, block, life, broken, depth>>
  BY DEF WildLock, At, shared, history
<1>2. Moved(t, "game", "none", Null)
  BY Returns DEF WildLock
<1>3. TypeOK'
  <2>1. DataTyped'
    BY <1>1, TypeSplit DEF DataTyped
  <2> QED BY <1>2, <2>1, TypeSplitNext DEF Moved
<1>4. ControlOK' /\ CreatedWord' /\ InitNormal' /\ OwnBlocks'
  BY <1>1, <1>2 DEF ControlOK, CreatedWord, InitNormal, OwnBlocks, Moved
<1>5. UsedLives'
  BY <1>1, <1>2, PointersAssumption DEF UsedLives, Using, Moved
<1>6. Alone'
  BY <1>1, <1>2, PointersAssumption DEF Alone, Moved, ControlOK
<1>7. \A p \in Objects : EntriesOf(p)' = EntriesOf(p)
  BY <1>1 DEF EntriesOf
<1>8. broken[o]
  <2>1. life[o] \in Kinds
    BY TypeSplit DEF DataTyped, UsedLives, Using
  <2> QED BY <1>1, <2>1, UserFinds DEF InUse, Truthful, IsReal
<1>9. Tracked'
  BY <1>1, <1>2, <1>7, <1>8, PointersAssumption, OthersFrame DEF Moved
<1> QED BY <1>3, <1>4, <1>5, <1>6, <1>9

LEMMA RecordWritten ==
    ASSUME NEW r \in [state : Kinds \cup {"free", "raw"},
                      owner : Threads \cup {Nobody}, count : Nat],
           NEW n \in Nat, NEW w \in Threads \cup {Nobody}
    PROVE  [r EXCEPT !.count = n, !.owner = w] = [state |-> r.state, owner |-> w, count |-> n]
<1> DEFINE q == [r EXCEPT !.count = n, !.owner = w]
<1>1. /\ q \in [state : Kinds \cup {"free", "raw"}, owner : Threads \cup {Nobody}, count : Nat]
      /\ q.state = r.state /\ q.count = n /\ q.owner = w
  OBVIOUS
<1> HIDE DEF q
<1>2. q = [state |-> r.state, owner |-> w, count |-> n]
  BY <1>1
<1> QED BY <1>2 DEF q

LEMMA UnlockStep ==
    ASSUME MutexInv, NEW t \in Threads, NEW o \in Objects, Unlock(t, o) PROVE MutexInv'
<1> USE DEF MutexInv, Common
<1> DEFINE b == word[o]
           reached == /\ IsReal(b) /\ block[b].count > 0
                      /\ block[b].owner = t \/ block[b].state = "normal"
           left == [state |-> block[b].state,
                    owner |-> IF block[b].count = 1 THEN Nobody ELSE block[b].owner,
                    count |-> block[b].count - 1]
<1>1. /\ pc[t] = "game" /\ depth[t][o] > 0
      /\ depth' = [depth EXCEPT ![t][o] = @ - 1]
      /\ UNCHANGED <<initializedObjects, word, life, broken, pc, op, arg, kind>>
  BY DEF Unlock, At, control
<1>2. block' = IF reached
               THEN [block EXCEPT ![b].count = @ - 1,
                                  ![b].owner = IF block[b].count = 1 THEN Nobody ELSE @]
               ELSE block
  BY DEF Unlock
<1>3. b \in Blocks => block[b] \in [state : Kinds \cup {"free", "raw"},
                                    owner : Threads \cup {Nobody}, count : Nat]
  BY TypeSplit DEF DataTyped
<1>4. reached => b \in Blocks
  BY DEF IsReal
<1>5. /\ reached => block' = [block EXCEPT ![b] = left]
      /\ ~reached => block' = block
  <2>1. ASSUME reached PROVE block' = [block EXCEPT ![b] = left]
    <3> DEFINE r == block[b]
    <3>1. r \in [state : Kinds \cup {"free", "raw"}, owner : Threads \cup {Nobody}, count : Nat]
      BY <1>3, <1>4, <2>1
    <3> DEFINE w == IF r.count = 1 THEN Nobody ELSE r.owner
    <3>2. r.count - 1 \in Nat /\ w \in Threads \cup {Nobody}
      BY <2>1, <3>1
    <3> HIDE DEF r, w
    <3>3. [r EXCEPT !.count = r.count - 1, !.owner = w]
          = [state |-> r.state, owner |-> w, count |-> r.count - 1]
      BY <3>1, <3>2, RecordWritten
    <3> USE DEF r, w
    <3>4. left = [r EXCEPT !.count = @ - 1, !.owner = IF r.count = 1 THEN Nobody ELSE @]
      BY <3>1, <3>3
    <3>5. block' = [block EXCEPT ![b] = [r EXCEPT !.count = @ - 1,
                                                  !.owner = IF r.count = 1 THEN Nobody ELSE @]]
      BY <1>2, <1>4, <2>1, TypeSplit DEF DataTyped
    <3> QED BY <3>4, <3>5
  <2> QED BY <1>2, <2>1
<1>6. reached => left \in [state : Kinds \cup {"free", "raw"},
                           owner : Threads \cup {Nobody}, count : Nat]
  BY <1>3, <1>4
<1>7. block' \in [Blocks -> [state : Kinds \cup {"free", "raw"},
                             owner : Threads \cup {Nobody}, count : Nat]]
  BY <1>4, <1>5, <1>6, TypeSplit DEF DataTyped
<1>8. /\ depth' \in [Threads -> [Objects -> Nat]]
      /\ \A u \in Threads, p \in Objects :
            depth'[u][p] = IF u = t /\ p = o THEN depth[t][o] - 1 ELSE depth[u][p]
  BY <1>1, TypeSplit DEF DataTyped
<1>9. \A c \in Blocks : block'[c] = IF reached /\ c = b THEN left ELSE block[c]
  BY <1>4, <1>5, TypeSplit DEF DataTyped
<1>10. \A c \in Blocks : block'[c].state = block[c].state
  BY <1>9
<1>11. TypeOK'
  <2>1. DataTyped' /\ ControlTyped'
    BY <1>1, <1>7, <1>8, TypeSplit DEF DataTyped, ControlTyped
  <2> QED BY <2>1, TypeSplitNext
<1>12. ControlOK' /\ CreatedWord' /\ InitNormal'
  BY <1>1 DEF ControlOK, CreatedWord, InitNormal
<1>13. OwnBlocks'
  BY <1>1, <1>10 DEF OwnBlocks
<1>14. UsedLives'
  BY <1>1, <1>8 DEF UsedLives, Using
<1>15. Alone'
  <2>1. \A u \in Threads : op[u] \in {"init", "init0", "destroy"} => arg[u] # o /\ arg[u] \in Objects
    BY <1>1 DEF Alone, ControlOK
  <2> QED BY <1>1, <1>8, <2>1 DEF Alone
<1>16. \A p \in Objects : EntriesOf(p)' = EntriesOf(p)
  BY <1>1 DEF EntriesOf
<1>17. ASSUME ~broken'[o] PROVE InUse(o)'
  <2>1. InUse(o)
    BY <1>1, <1>17, UserFinds
  <2>2. Truthful(o)
    BY <2>1 DEF InUse
  <2>3. block[b].owner = t /\ block[b].count = depth[t][o] /\ block[b].state = life[o]
    BY <1>1, <2>2 DEF Truthful
  <2>4. life[o] \in Kinds /\ b \in Blocks
    BY <1>1, <2>2, TypeSplit DEF UsedLives, Using, DataTyped, Truthful
  <2>5. reached
    BY <1>1, <2>3, <2>4 DEF IsReal
  <2>6. block'[b] = left
    BY <1>9, <2>4, <2>5
  <2>7. \A u \in Threads : depth[u][o] = IF u = t THEN depth[t][o] ELSE 0
    BY <2>2, <2>3 DEF Truthful
  <2>8. \A u \in Threads : depth'[u][o] = IF u = t THEN depth[t][o] - 1 ELSE 0
    BY <1>8, <2>7
  <2>9. left.count = depth[t][o] - 1 /\ left.state = life[o]
        /\ left.owner = IF depth[t][o] = 1 THEN Nobody ELSE t
    BY <2>3
  <2>10. depth[t][o] \in Nat /\ t # Nobody /\ \A u \in Threads : u # Nobody
    BY TypeSplit, PointersAssumption DEF DataTyped
  <2>11. Truthful(o)'
    <3> DEFINE n == depth[t][o]
    <3>1. n \in Nat /\ n > 0
      BY <1>1, <2>10
    <3>2. /\ block'[word'[o]].count = n - 1 /\ block'[word'[o]].state = life'[o]
          /\ block'[word'[o]].owner = IF n = 1 THEN Nobody ELSE t
          /\ word'[o] \in Blocks
      BY <1>1, <2>4, <2>6, <2>9
    <3>3. \A u \in Threads : depth'[u][o] = IF u = t THEN n - 1 ELSE 0
      BY <2>8
    <3> HIDE DEF n
    <3> QED BY <2>10, <3>1, <3>2, <3>3 DEF Truthful
  <2>12. \A u \in Threads : arg'[u] = o => Locking(u)' /\ pc'[u] \in {"check", "real"}
    BY <1>1, <2>1 DEF InUse, Locking
  <2>13. \E i \in Entries' : EntriesOf(o)' = {i}
    BY <1>16, <2>1 DEF InUse, Entries
  <2> QED BY <2>11, <2>12, <2>13 DEF InUse
<1>18. \A p \in Objects \ {o} : word[p] \in Blocks => block'[word[p]] = block[word[p]]
  BY <1>4, <1>9 DEF OwnBlocks
<1>19. Tracked'
  BY <1>1, <1>8, <1>16, <1>17, <1>18, OthersFrame DEF Phase
<1> QED BY <1>11, <1>12, <1>13, <1>14, <1>15, <1>19

LEMMA DestroyRealStep ==
    ASSUME MutexInv, NEW t \in Threads, DestroyReal(t) PROVE MutexInv'
<1> USE DEF MutexInv, Common
<1>0. PICK o \in Objects : o = arg[t]
  BY DEF DestroyReal, At, ControlOK
<1> USE <1>0
<1>1. /\ pc[t] = "destroyreal" /\ op[t] = "destroy" /\ Return(t)
      /\ block' = IF word[o] \in Blocks THEN [block EXCEPT ![word[o]] = Free] ELSE block
      /\ word' = [word EXCEPT ![o] = Null]
      /\ life' = [life EXCEPT ![o] = "over"]
      /\ UNCHANGED <<initializedObjects, broken, depth>>
  BY DEF DestroyReal, At, ControlOK
<1>2. Moved(t, "game", "none", Null)
  BY <1>1, Returns
<1>3. /\ \A p \in Objects : word'[p] = IF p = o THEN Null ELSE word[p]
      /\ \A p \in Objects : life'[p] = IF p = o THEN "over" ELSE life[p]
      /\ \A c \in Blocks : c # word[o] => block'[c] = block[c]
  BY <1>1, TypeSplit DEF DataTyped
<1>4. \A u \in Threads : (arg[u] = o => u = t) /\ depth[u][o] = 0
  BY <1>1 DEF Alone
<1>5. TypeOK'
  <2>1. word' \in [Objects -> Words] /\ life' \in [Objects -> Kinds \cup {"over"}]
    BY <1>1, TypeSplit DEF DataTyped, Words
  <2>2. block' \in [Blocks -> [state : Kinds \cup {"free", "raw"},
                               owner : Threads \cup {Nobody}, count : Nat]]
    BY <1>1, TypeSplit DEF DataTyped, Free
  <2>3. DataTyped'
    BY <1>1, <2>1, <2>2, TypeSplit DEF DataTyped
  <2> QED BY <1>2, <2>3, TypeSplitNext DEF Moved
<1>6. ControlOK'
  BY <1>2 DEF ControlOK, Moved
<1>7. UsedLives'
  BY <1>1, <1>2, <1>3, <1>4, PointersAssumption DEF UsedLives, Using, Moved
<1>8. Alone'
  BY <1>1, <1>2, PointersAssumption DEF Alone, Moved, ControlOK
<1>9. OwnBlocks'
  BY <1>3, PointersAssumption DEF OwnBlocks
<1>10. CreatedWord' /\ InitNormal'
  BY <1>2, <1>3, <1>4 DEF CreatedWord, InitNormal, Moved, ControlOK
<1>11. \A p \in Objects : EntriesOf(p)' = EntriesOf(p)
  BY <1>1 DEF EntriesOf
<1>12. \A p \in Objects \ {o} : word[p] \in Blocks => block'[word[p]] = block[word[p]]
  BY <1>3 DEF OwnBlocks
<1>13. Tracked'
  BY <1>1, <1>2, <1>3, <1>11, <1>12, PointersAssumption, OthersFrame DEF Moved
<1> QED BY <1>5, <1>6, <1>7, <1>8, <1>9, <1>10, <1>13

LEMMA Stutters ==
    ASSUME MutexInv, UNCHANGED vars PROVE MutexInv'
<1> USE DEF MutexInv, Common, vars, shared, history, control
<1>1. TypeOK'
  <2>1. ControlTyped' /\ DataTyped'
    BY TypeSplit DEF ControlTyped, DataTyped
  <2> QED BY <2>1, TypeSplitNext
<1>2. ControlOK' /\ CreatedWord' /\ InitNormal'
  BY DEF ControlOK, CreatedWord, InitNormal
<1>3. UsedLives' /\ OwnBlocks'
  BY DEF UsedLives, Using, OwnBlocks
<1>4. Alone'
  BY DEF Alone
<1>5. \A p \in Objects : EntriesOf(p)' = EntriesOf(p)
  BY DEF EntriesOf
<1>6. Tracked'
  <2> SUFFICES ASSUME NEW p \in Objects, life'[p] # "over", ~broken'[p] PROVE Phase(p)'
    BY DEF Tracked
  <2>1. Phase(p)
    BY DEF Tracked
  <2> QED BY <1>5, <2>1, PhaseFrame
<1> QED BY <1>1, <1>2, <1>3, <1>4, <1>6

LEMMA Inductive == MutexInv /\ [Next]_vars => MutexInv'
<1> SUFFICES ASSUME MutexInv, [Next]_vars PROVE MutexInv'
  OBVIOUS
<1>1. ASSUME NEW t \in Threads, Wrapper(t) PROVE MutexInv'
  BY <1>1, CheckStep, CreateStep, InitRealStep, RememberStep, RealLockStep, WildLockStep,
     DestroyRealStep DEF Wrapper
<1>2. ASSUME NEW t \in Threads, NEW o \in Objects, Game(t, o) PROVE MutexInv'
  BY <1>2, CallInitStep, CallLockStep, CallDestroyStep, UnlockStep DEF Game
<1> QED BY <1>1, <1>2, StaticInitStep, AbandonStep, Stutters DEF Next

-----------------------------------------------------------------------------
(* The theorems.                                                           *)

\* The variables keep their types.
THEOREM MutexTyped == Spec => []TypeOK
BY Initially, Inductive, PTL DEF Spec, MutexInv, Common

\* A live object that is tracked and that somebody uses has its real mutex.
LEMMA InUseIsReal ==
    ASSUME MutexInv, NEW o \in Objects, life[o] # "over", InUse(o)
    PROVE  IsReal(word[o]) /\ Cardinality(EntriesOf(o)) = 1
<1>1. life[o] \in Kinds
  BY TypeSplit DEF MutexInv, Common, DataTyped
<1>2. PICK i \in Entries : EntriesOf(o) = {i}
  BY DEF InUse
<1>3. Cardinality({i}) = 1
  BY FS_Singleton
<1> QED BY <1>1, <1>2, <1>3 DEF InUse, Truthful, IsReal

\* Two threads never hold the same object, unless the wrapper lost track of it.
THEOREM MutexExcludes == Spec => []Exclusion
<1>1. MutexInv => Exclusion
  <2> SUFFICES ASSUME MutexInv, NEW o \in Objects, ~broken[o], NEW t \in Threads,
                      NEW u \in Threads, depth[t][o] > 0, depth[u][o] > 0
               PROVE  t = u
    BY DEF Exclusion
  <2>1. Truthful(o)
    BY UserFinds DEF InUse
  <2> QED BY <2>1 DEF Truthful
<1> QED BY <1>1, Initially, Inductive, PTL DEF Spec

\* What a thread believes it holds, the real mutex agrees that it owns.
THEOREM MutexAgrees == Spec => []HoldingIsReal
<1>1. MutexInv => HoldingIsReal
  <2> SUFFICES ASSUME MutexInv, NEW t \in Threads, NEW o \in Objects, ~broken[o],
                      depth[t][o] > 0
               PROVE  /\ IsReal(word[o])
                      /\ block[word[o]] = [state |-> life[o], owner |-> t,
                                           count |-> depth[t][o]]
    BY DEF HoldingIsReal
  <2>1. InUse(o) /\ life[o] # "over"
    BY UserFinds DEF MutexInv, Common, UsedLives, Using
  <2>2. Truthful(o) /\ word[o] \in Blocks
    BY <2>1 DEF InUse, Truthful
  <2>3. block[word[o]].owner = t /\ block[word[o]].count = depth[t][o]
        /\ block[word[o]].state = life[o]
    BY <2>2 DEF Truthful
  <2>4. block[word[o]] \in [state : Kinds \cup {"free", "raw"},
                            owner : Threads \cup {Nobody}, count : Nat]
    BY <2>2, TypeSplit DEF MutexInv, Common, DataTyped
  <2>5. block[word[o]] = [state |-> life[o], owner |-> t, count |-> depth[t][o]]
    BY <2>3, <2>4
  <2> QED BY <2>1, <2>5, InUseIsReal
<1> QED BY <1>1, Initially, Inductive, PTL DEF Spec

\* No real function is called through a pointer that leads to no mutex, but for
\* the destruction of an object that was never locked.
THEOREM MutexPointers == Spec => []NoWildPointer
<1>1. MutexInv => NoWildPointer
  <2> SUFFICES ASSUME MutexInv, NEW t \in Threads, arg[t] # Null, ~broken[arg[t]]
               PROVE  /\ At(t, "real") => IsReal(word[arg[t]])
                      /\ At(t, "destroyreal") => IsReal(word[arg[t]])
                                                 \/ word[arg[t]] \in Statics \cup {Null}
    BY DEF NoWildPointer
  <2>1. PICK o \in Objects : o = arg[t]
    BY TypeSplit DEF MutexInv, Common, ControlTyped
  <2>2. life[o] # "over" /\ Phase(o)
    BY <2>1 DEF MutexInv, Common, UsedLives, Using, Tracked
  <2>3. ASSUME pc[t] = "real" PROVE IsReal(word[o])
    BY <2>1, <2>2, <2>3, UserFinds, InUseIsReal
  <2>4. ASSUME pc[t] = "destroyreal"
        PROVE  IsReal(word[o]) \/ word[o] \in Statics \cup {Null}
    <3>1. op[t] = "destroy"
      BY <2>4 DEF MutexInv, Common, ControlOK
    <3>2. ~InUse(o) /\ ~Untouched(o)
      BY <2>1, <2>4 DEF InUse, Untouched
    <3>3. ~Beginning(o) /\ ~BeingMade(o)
      BY <2>1, <2>4, <3>1 DEF Beginning, BeingMade, Creating, MutexInv, Common, Alone
    <3> QED BY <2>2, <3>2, <3>3 DEF Phase, Ending
  <2> QED BY <2>1, <2>3, <2>4 DEF At
<1> QED BY <1>1, Initially, Inductive, PTL DEF Spec

\* The table tells the truth of every object the wrapper has not lost track of.
THEOREM MutexTable == Spec => []TableExact
<1>1. MutexInv => TableExact
  <2> SUFFICES ASSUME MutexInv, NEW o \in Objects, ~broken[o]
               PROVE  /\ \A t \in Threads : arg[t] = o /\ At(t, "destroyreal") =>
                            EntriesOf(o) = {}
                      /\ life[o] # "over"
                         /\ (\A t \in Threads : ~Creating(t, o) /\
                               (arg[t] = o => op[t] \notin {"init", "init0", "destroy"})) =>
                            \/ Cardinality(EntriesOf(o)) = 1 /\ IsReal(word[o])
                            \/ EntriesOf(o) = {} /\ word[o] \in Statics \cup {Null}
    BY DEF TableExact
  <2>1. ASSUME NEW t \in Threads, arg[t] = o, pc[t] = "destroyreal"
        PROVE  EntriesOf(o) = {}
    <3>1. Phase(o)
      BY <2>1 DEF MutexInv, Common, UsedLives, Using, Tracked
    <3>2. ~InUse(o)
      BY <2>1 DEF InUse
    <3> QED BY <3>1, <3>2 DEF Phase, Untouched, Beginning, BeingMade, Ending
  <2>2. ASSUME life[o] # "over",
               \A t \in Threads : ~Creating(t, o) /\
                  (arg[t] = o => op[t] \notin {"init", "init0", "destroy"})
        PROVE  \/ Cardinality(EntriesOf(o)) = 1 /\ IsReal(word[o])
               \/ EntriesOf(o) = {} /\ word[o] \in Statics \cup {Null}
    <3>1. Phase(o)
      BY <2>2 DEF MutexInv, Tracked
    <3>2. ~Beginning(o) /\ ~BeingMade(o) /\ ~Ending(o)
      BY <2>2 DEF Beginning, BeingMade, Ending, MutexInv, Common, ControlOK
    <3>3. InUse(o) \/ Untouched(o)
      BY <3>1, <3>2 DEF Phase
    <3>4. CASE InUse(o)
      BY <2>2, <3>4, InUseIsReal
    <3>5. CASE Untouched(o)
      BY <3>5 DEF Untouched, AsInitialised
    <3> QED BY <3>3, <3>4, <3>5
  <2> QED BY <2>1, <2>2 DEF At
<1> QED BY <1>1, Initially, Inductive, PTL DEF Spec

-----------------------------------------------------------------------------
(* TableLock: the inductive invariant.                                      *)

LockPlaces == {"outside", "creating", "marking", "locking", "asleep", "lost",
               "searching", "writing", "unlocking"}
Inside(u) == place[u] \in {"searching", "writing", "unlocking"}
Changes(u) == work[u].fun \in {"rememberObject", "forgetObject"}

LockTypeOK ==
    /\ lockInited \in BOOLEAN /\ healed \in BOOLEAN
    /\ table \in [1..Slots -> Addresses \cup {Empty}]
    /\ place \in [LockUsers -> LockPlaces]
    /\ work \in [LockUsers -> [fun : TableFunctions \cup {"none"},
                               object : Addresses \cup {Empty}]]
    /\ slot \in [LockUsers -> 0..Slots]

\* A thread outside has no work, one that is not has a function and an address.
Working ==
    \A u \in LockUsers :
        IF place[u] = "outside" THEN work[u] = Idle
        ELSE work[u].fun \in TableFunctions /\ work[u].object \in Addresses

\* No address is in two entries.
Distinct == \A i, j \in 1..Slots : table[i] = table[j] /\ table[i] # Empty => i = j

\* Two threads do not change the same address, and what is to be remembered is
\* not there yet: even while the lock excludes nobody.
Apart ==
    \A u, v \in LockUsers :
        Changes(u) /\ Changes(v) /\ work[u].object = work[v].object => u = v

Pending ==
    \A u \in LockUsers :
        work[u].fun = "rememberObject" /\ place[u] # "unlocking" =>
            \A i \in 1..Slots : table[i] # work[u].object

\* From here on nobody makes a lock, and whoever is inside owns the one there is.
Settled ==
    healed => /\ lockInited
              /\ \A u \in LockUsers : /\ place[u] \notin {"creating", "marking"}
                                      /\ Inside(u) => owner = u

\* What a thread with an entry to write has found.
FoundHolds ==
    healed => \A u \in LockUsers :
        place[u] = "writing" => slot[u] = FirstSlot(Wanted(u))

\* Changes that overlap are on record as such.
Met ==
    \A u, v \in LockUsers :
        u # v /\ Changing(u) /\ Changing(v) => work[u].object \in overlapped

\* What a write puts out of the table is its own address or a lost one.
Found ==
    \A u \in LockUsers :
        place[u] = "writing" /\ Changes(u) /\ slot[u] # 0 =>
            table[slot[u]] \in {Empty, work[u].object} \cup overlapped

\* An address that is still there when it is to be forgotten was found.
Sought ==
    \A u \in LockUsers :
        place[u] = "writing" /\ work[u].fun = "forgetObject" /\ work[u].object \in Kept =>
            slot[u] # 0 /\ table[slot[u]] = work[u].object

\* What was forgotten, or found no place, is not in the table.
Gone ==
    \A u \in LockUsers :
        place[u] = "unlocking" /\ Changes(u)
            /\ (work[u].fun = "forgetObject" \/ slot[u] = 0) =>
                work[u].object \notin Kept

\* What was written is there, or lost.
Lasting ==
    \A u \in LockUsers :
        place[u] = "unlocking" /\ work[u].fun = "rememberObject" /\ slot[u] # 0 =>
            work[u].object \in Kept \cup overlapped

\* What is there was answered for, or will be by the thread that wrote it.
Answering(o) == \E u \in LockUsers : /\ place[u] = "unlocking" /\ slot[u] # 0
                                     /\ work[u].fun = "rememberObject" /\ work[u].object = o
OnTable == \A o \in Kept : o \in known \/ Answering(o)

\* What was answered for is there, or lost, or being changed.
UnderWay(o) == \E u \in LockUsers : Inside(u) /\ Changes(u) /\ work[u].object = o
Answered == \A o \in known : o \in Kept \cup overlapped \/ UnderWay(o)

Records == Met /\ Found /\ Sought /\ Gone /\ Lasting /\ OnTable /\ Answered

LockInv == /\ LockTypeOK /\ Working /\ Distinct /\ Apart /\ Pending
           /\ Settled /\ FoundHolds /\ Records

-----------------------------------------------------------------------------
(* The table.                                                              *)

\* A set of entries has a first one.
LEMMA FirstEntry ==
    ASSUME NEW S, S \subseteq 1..Slots, S # {}
    PROVE  \E i \in S : \A j \in S : i <= j
<1> DEFINE R == OpToRel(<, Nat)
<1>1. S \subseteq Nat
  BY TableLockAssumption
<1>2. \A x, y \in Nat : <<x, y>> \in R <=> x < y
  BY DEF OpToRel
<1>3. IsWellFoundedOn(R, Nat)
  BY NatLessThanWellFounded
<1> HIDE DEF R
<1>4. PICK i \in S : \A j \in S : ~ (<<j, i>> \in R)
  BY <1>1, <1>3, WFMin, Zenon
<1>5. \A j \in S : ~(j < i)
  BY <1>1, <1>2, <1>4, Zenon
<1> QED BY <1>1, <1>5

\* The loop of the three functions finds an entry exactly when there is one.
LEMMA FirstSlotFinds ==
    ASSUME NEW o
    PROVE  /\ FirstSlot(o) = 0 => \A i \in 1..Slots : table[i] # o
           /\ FirstSlot(o) # 0 => FirstSlot(o) \in 1..Slots /\ table[FirstSlot(o)] = o
           /\ FirstSlot(o) \in 0..Slots
<1> DEFINE S == {i \in 1..Slots : table[i] = o}
           first == CHOOSE i \in S : \A j \in S : i <= j
<1>1. CASE S = {}
  BY <1>1, TableLockAssumption DEF FirstSlot
<1>2. CASE S # {}
  <2>1. FirstSlot(o) = first
    BY <1>2 DEF FirstSlot
  <2>2. \E i \in S : \A j \in S : i <= j
    BY <1>2, FirstEntry
  <2>3. first \in S
    BY ONLY <2>2, Zenon
  <2>4. first \in 1..Slots /\ table[first] = o
    BY <2>3
  <2> HIDE DEF first
  <2> QED BY <2>1, <2>4, TableLockAssumption
<1> QED BY <1>1, <1>2

\* An address takes the place of another, of a free entry, or is put out.
LEMMA EntryWritten ==
    ASSUME LockTypeOK, Distinct, NEW s \in 1..Slots, NEW o \in Addresses \cup {Empty},
           table' = [table EXCEPT ![s] = o], o = Empty \/ \A i \in 1..Slots : table[i] # o
    PROVE  /\ Distinct'
           /\ \A x : x \in Kept' <=> \/ x \in Kept /\ x # table[s]
                                     \/ x = o /\ o # Empty
<1>1. \A i \in 1..Slots : table'[i] = IF i = s THEN o ELSE table[i]
  BY DEF LockTypeOK
<1>2. Distinct'
  BY <1>1 DEF Distinct
<1>3. \A x : x \in Kept <=> x # Empty /\ \E i \in 1..Slots : table[i] = x
  BY DEF Kept
<1>4. \A x : x \in Kept' <=> x # Empty /\ \E i \in 1..Slots : table'[i] = x
  BY DEF Kept
<1>5. ASSUME NEW x, x \in Kept, x # table[s] PROVE x \in Kept'
  BY <1>1, <1>3, <1>4, <1>5
<1>6. o # Empty => o \in Kept'
  BY <1>1, <1>4
<1>7. ASSUME NEW x, x \in Kept', x # o PROVE x \in Kept /\ x # table[s]
  BY <1>1, <1>3, <1>4, <1>7 DEF Distinct
<1>8. o \in Kept' => o # Empty
  BY <1>4
<1> QED BY <1>2, <1>5, <1>6, <1>7, <1>8

-----------------------------------------------------------------------------
(* The steps.                                                              *)

\* What was inside stays inside and nothing of the table or of the records changes.
LEMMA OutsideRecords ==
    ASSUME Records, UNCHANGED <<table, known, overlapped>>,
           \A v \in LockUsers : /\ Inside(v) <=> Inside(v)'
                                /\ Inside(v) => /\ place'[v] = place[v] /\ work'[v] = work[v]
                                                /\ slot'[v] = slot[v]
    PROVE  Records'
<1> USE DEF Records
<1>1. Met' /\ Found' /\ Kept' = Kept
  BY DEF Met, Found, Changing, Changes, Inside, Kept
<1>2. Sought' /\ Gone' /\ Lasting'
  BY <1>1 DEF Sought, Gone, Lasting, Changes, Inside
<1>3. \A x : Answering(x) => Answering(x)'
  BY DEF Answering, Inside
<1>4. \A x : UnderWay(x) => UnderWay(x)'
  BY DEF UnderWay, Changes
<1>5. OnTable' /\ Answered'
  BY <1>1, <1>3, <1>4 DEF OnTable, Answered
<1> QED BY <1>1, <1>2, <1>5

\* v comes in, while perhaps another, which has written, goes out.
LEMMA EnteredRecords ==
    ASSUME Records, Apart, NEW v \in LockUsers, ~Inside(v), place'[v] = "searching",
           work[v].fun \in TableFunctions, work'[v] = work[v], overlapped' = Entered(v), table' = table,
           \A w \in LockUsers : w # v /\ Inside(w)' =>
               Inside(w) /\ place'[w] = place[w] /\ work'[w] = work[w] /\ slot'[w] = slot[w],
           \A w \in LockUsers : w # v /\ Changing(w) => Inside(w)',
           \A x \in Kept : x \in known' \/ Answering(x)',
           \A x \in known' : \/ x \in Kept \cup overlapped
                             \/ \E w \in LockUsers : /\ w # v /\ Inside(w)' /\ Changes(w)
                                                     /\ work[w].object = x
    PROVE  Records'
<1> USE DEF Records
<1>1. /\ Kept' = Kept /\ Inside(v)' /\ Changes(v)' = Changes(v)
      /\ \A w \in LockUsers : w # v /\ Inside(w)' =>
             /\ Changes(w)' = Changes(w) /\ Changing(w)' = Changing(w)
  BY DEF Kept, Inside, Changes, Changing
<1>2. CASE work[v].fun = "isObjectInitialized"
  <2>1. overlapped \subseteq overlapped' /\ ~Changing(v)'
    BY <1>1, <1>2 DEF Entered, Changes, Changing
  <2>2. Met' /\ Found' /\ Lasting'
    BY <1>1, <2>1 DEF Met, Found, Lasting, Changing, Inside, Changes
  <2>3. \A x \in known' : x \in Kept \cup overlapped' \/ UnderWay(x)'
    BY <1>1, <2>1 DEF UnderWay
  <2> QED BY <1>1, <2>2, <2>3 DEF Sought, Gone, OnTable, Answered, Inside, Changes
<1>3. CASE Changes(v) /\ work[v].fun # "isObjectInitialized"
  <2> DEFINE o == work[v].object
             others == {w \in LockUsers \ {v} : Changing(w)}
  <2>1. CASE others = {}
    <3>1. overlapped' = overlapped \ {o}
      BY <1>3, <2>1 DEF Entered
    <3>2. Met' /\ Found'
      BY <1>1, <2>1 DEF Met, Found, Changing, Inside, Changes
    <3>3. \A w \in LockUsers : w # v /\ Changes(w) => work[w].object # o
      BY <1>3 DEF Apart
    <3>4. Lasting'
      BY <1>1, <3>1, <3>3 DEF Lasting, Inside, Changes
    <3>5. \A x \in known' : x \in Kept \cup overlapped' \/ UnderWay(x)'
      BY <1>1, <1>3, <3>1 DEF UnderWay
    <3> QED BY <1>1, <3>2, <3>4, <3>5 DEF Sought, Gone, OnTable, Answered, Inside, Changes
  <2>2. CASE others # {}
    <3>1. overlapped' = overlapped \cup {o} \cup {work[w].object : w \in others}
      BY <1>3, <2>2 DEF Entered
    <3>2. /\ overlapped \subseteq overlapped' /\ o \in overlapped'
          /\ \A w \in LockUsers : w # v /\ Changing(w) => work[w].object \in overlapped'
      BY <3>1
    <3>3. Met'
      BY <1>1, <3>2 DEF Met, Changing, Inside
    <3>4. Found' /\ Lasting'
      BY <1>1, <3>2 DEF Found, Lasting, Inside, Changes
    <3>5. \A x \in known' : x \in Kept \cup overlapped' \/ UnderWay(x)'
      BY <1>1, <3>2 DEF UnderWay
    <3> QED BY <1>1, <3>3, <3>4, <3>5 DEF Sought, Gone, OnTable, Answered, Inside, Changes
  <2> QED BY <2>1, <2>2
<1> QED BY <1>2, <1>3 DEF TableFunctions, Changes

\* With the answer of u, the records are true without it.
LEMMA AnswerRecords ==
    ASSUME LockInv, NEW u \in LockUsers, place[u] = "unlocking"
    PROVE  /\ \A x \in Kept :
                 \/ x \in Recorded(u)
                 \/ \E w \in LockUsers : /\ w # u /\ place[w] = "unlocking" /\ slot[w] # 0
                                         /\ work[w].fun = "rememberObject" /\ work[w].object = x
           /\ \A x \in Recorded(u) :
                 \/ x \in Kept \cup overlapped
                 \/ \E w \in LockUsers : w # u /\ Inside(w) /\ Changes(w) /\ work[w].object = x
<1> USE DEF LockInv, Records
<1> DEFINE o == work[u].object
<1>1. work[u].fun \in TableFunctions
  BY DEF Working
<1>2. CASE work[u].fun = "isObjectInitialized"
  <2>1. Recorded(u) = known /\ ~Changes(u)
    BY <1>2 DEF Recorded, Changes
  <2> QED BY <1>2, <2>1 DEF OnTable, Answered, Answering, UnderWay
<1>3. CASE work[u].fun = "rememberObject" /\ slot[u] # 0
  <2>1. Recorded(u) = known \cup {o} /\ o \in Kept \cup overlapped
    BY <1>3 DEF Recorded, Lasting
  <2> QED BY <2>1 DEF OnTable, Answered, Answering, UnderWay
<1>4. CASE Changes(u) /\ (work[u].fun = "forgetObject" \/ slot[u] = 0)
  <2>1. Recorded(u) = known \ {o} /\ o \notin Kept
    BY <1>4 DEF Recorded, Gone, Changes
  <2> QED BY <1>4, <2>1 DEF OnTable, Answered, Answering, UnderWay
<1> QED BY <1>1, <1>2, <1>3, <1>4 DEF TableFunctions, Changes

LEMMA LockInitially == LockInit => LockInv
<1> SUFFICES ASSUME LockInit PROVE LockInv
  OBVIOUS
<1>1. /\ lockInited \in BOOLEAN /\ healed \in BOOLEAN /\ ~healed
      /\ known = {}
  BY DEF LockInit
<1>2. /\ table \in [1..Slots -> Addresses \cup {Empty}]
      /\ place \in [LockUsers -> LockPlaces]
      /\ \A i \in 1..Slots : table[i] = Empty
  BY DEF LockInit, LockPlaces
<1>3. /\ work \in [LockUsers -> [fun : TableFunctions \cup {"none"},
                                 object : Addresses \cup {Empty}]]
      /\ \A u \in LockUsers : work[u] = Idle /\ work[u].fun = "none"
  BY DEF LockInit, Idle
<1>4. slot \in [LockUsers -> 0..Slots]
  BY TableLockAssumption DEF LockInit
<1>5. Working /\ \A u \in LockUsers : place[u] = "outside"
  BY <1>3 DEF LockInit, Working
<1>6. Distinct /\ Kept = {}
  BY <1>2 DEF Distinct, Kept
<1>7. Apart /\ Pending
  BY <1>3 DEF Apart, Pending, Changes
<1>8. Records
  BY <1>1, <1>3, <1>5, <1>6
     DEF Records, Met, Found, Sought, Gone, Lasting, OnTable, Answered, Changing, Changes
<1> QED BY <1>1, <1>2, <1>3, <1>4, <1>5, <1>6, <1>7, <1>8
        DEF LockInv, LockTypeOK, Settled, FoundHolds

\* A thread that is not inside moves to a place outside of the critical section
\* and nothing else changes but who owns the lock.
LEMMA MovesOutside ==
    ASSUME LockInv, NEW u \in LockUsers, place[u] # "outside", ~Inside(u),
           NEW p \in {"locking", "asleep"}, Move(u, p),
           UNCHANGED <<table, work, slot, healed, records>>,
           lockInited' \in BOOLEAN, lockInited => lockInited',
           healed => owner' = owner
    PROVE  LockInv'
<1> USE DEF LockInv
<1>1. \A v \in LockUsers : place'[v] = IF v = u THEN p ELSE place[v]
  BY DEF Move, LockTypeOK
<1>2. LockTypeOK'
  BY DEF Move, LockTypeOK, LockPlaces
<1>3. Working' /\ Distinct' /\ Apart' /\ Pending'
  BY <1>1 DEF Working, Distinct, Apart, Pending, Changes, Inside
<1>4. Settled'
  BY <1>1 DEF Settled, Inside
<1>5. FoundHolds'
  BY <1>1 DEF FoundHolds, Inside, FirstSlot, Wanted
<1>6. Records'
  <2>1. \A v \in LockUsers : /\ Inside(v) <=> Inside(v)'
                             /\ Inside(v) => place'[v] = place[v]
    BY <1>1 DEF Inside
  <2> QED BY <2>1, OutsideRecords DEF records
<1> QED BY <1>2, <1>3, <1>4, <1>5, <1>6

\* Only one thread is inside once the lock is settled.
LEMMA OneIn ==
    ASSUME LockInv, healed, NEW u \in LockUsers, NEW v \in LockUsers, Inside(u), Inside(v)
    PROVE  u = v
BY DEF LockInv, Settled

LEMMA TestStep == ASSUME LockInv, NEW u \in LockUsers, TestInited(u) PROVE LockInv'
<1> USE DEF LockInv
<1>1. PICK f \in TableFunctions, o \in Addresses :
         /\ f = "rememberObject" => \A i \in 1..Slots : table[i] # o
         /\ f # "isObjectInitialized" => \A v \in LockUsers : work[v].object # o
         /\ work' = [work EXCEPT ![u] = [fun |-> f, object |-> o]]
  BY DEF TestInited
<1> DEFINE p == IF lockInited THEN "locking" ELSE "creating"
<1>2. /\ place[u] = "outside" /\ Move(u, p)
      /\ UNCHANGED <<lockInited, owner, table, slot, healed, records>>
  BY DEF TestInited
<1>3. /\ \A v \in LockUsers : place'[v] = IF v = u THEN p ELSE place[v]
      /\ \A v \in LockUsers : work'[v] = IF v = u THEN [fun |-> f, object |-> o] ELSE work[v]
  BY <1>1, <1>2 DEF Move, LockTypeOK
<1>4. LockTypeOK'
  BY <1>1, <1>2 DEF Move, LockTypeOK, LockPlaces
<1>5. Working' /\ Distinct'
  BY <1>2, <1>3 DEF Working, Distinct
<1>6. Apart'
  BY <1>1, <1>3 DEF Apart, Changes, TableFunctions
<1>7. Pending'
  BY <1>1, <1>2, <1>3 DEF Pending
<1>8. Settled' /\ FoundHolds'
  BY <1>2, <1>3 DEF Settled, FoundHolds, Inside, FirstSlot, Wanted
<1>9. Records'
  <2>1. \A v \in LockUsers : /\ Inside(v) <=> Inside(v)'
                             /\ Inside(v) => /\ place'[v] = place[v] /\ work'[v] = work[v]
                                             /\ slot'[v] = slot[v]
    BY <1>2, <1>3 DEF Inside
  <2> QED BY <1>2, <2>1, OutsideRecords DEF records
<1> QED BY <1>4, <1>5, <1>6, <1>7, <1>8, <1>9

LEMMA MakeStep == ASSUME LockInv, NEW u \in LockUsers, CreateLock(u) PROVE LockInv'
<1> USE DEF LockInv
<1>1. /\ ~healed /\ healed' = healed
      /\ \A v \in LockUsers :
            place'[v] = IF v = u THEN "marking"
                        ELSE IF place[v] = "asleep" THEN "lost" ELSE place[v]
      /\ place[u] = "creating"
      /\ UNCHANGED <<lockInited, table, work, slot, records>>
  BY DEF CreateLock, Settled
<1>2. LockTypeOK'
  BY DEF CreateLock, LockTypeOK, LockPlaces
<1>3. Working' /\ Distinct' /\ Apart' /\ Pending'
  BY <1>1 DEF Working, Distinct, Apart, Pending, Changes
<1>4. Settled' /\ FoundHolds'
  BY <1>1 DEF Settled, FoundHolds
<1>5. Records'
  <2>1. \A v \in LockUsers : /\ Inside(v) <=> Inside(v)'
                             /\ Inside(v) => place'[v] = place[v]
    BY <1>1 DEF Inside
  <2> QED BY <1>1, <2>1, OutsideRecords DEF records
<1> QED BY <1>2, <1>3, <1>4, <1>5

\* A thread leaves, and may hand the lock over to w.  If that is the moment from
\* which the lock is settled, there is nobody inside.
LEMMA LeaveStep ==
    ASSUME LockInv, NEW u \in LockUsers, place[u] # "outside",
           NEW places \in [LockUsers -> LockPlaces],
           \A v \in LockUsers : v # u => \/ places[v] = place[v]
                                         \/ /\ place[v] = "asleep" /\ places[v] = "searching"
                                            /\ owner' = v,
           Leave(u, places), UNCHANGED <<lockInited, table>>, healed => Inside(u),
           healed => \A v \in LockUsers : v # u /\ places[v] = place[v] /\ Inside(v) => owner' = v,
           Records'
    PROVE  LockInv'
<1> USE DEF LockInv
<1>1. /\ \A v \in LockUsers : place'[v] = IF v = u THEN "outside" ELSE places[v]
      /\ \A v \in LockUsers : work'[v] = IF v = u THEN Idle ELSE work[v]
      /\ \A v \in LockUsers : v # u => slot'[v] = slot[v]
  BY DEF Leave, LockTypeOK
<1>2. healed' = (healed \/ (lockInited /\ \A v \in LockUsers : place'[v] \in {"outside", "lost"}))
  BY DEF Leave
<1>3. LockTypeOK'
  <2>1. healed' \in BOOLEAN /\ lockInited' \in BOOLEAN
    BY <1>2 DEF LockTypeOK
  <2>2. place' \in [LockUsers -> LockPlaces] /\ table' \in [1..Slots -> Addresses \cup {Empty}]
    BY DEF Leave, LockTypeOK, LockPlaces
  <2>3. work' \in [LockUsers -> [fun : TableFunctions \cup {"none"},
                                 object : Addresses \cup {Empty}]]
    BY DEF Leave, LockTypeOK, Idle
  <2>4. slot' \in [LockUsers -> 0..Slots]
    BY TableLockAssumption DEF Leave, LockTypeOK
  <2> QED BY <2>1, <2>2, <2>3, <2>4 DEF LockTypeOK
<1>4. Working' /\ Distinct'
  BY <1>1 DEF Working, Distinct
<1>5. Apart' /\ Pending'
  BY <1>1 DEF Apart, Pending, Changes, Idle
<1>6. CASE healed
  <2>1. Settled'
    BY <1>1, <1>2, <1>6 DEF Settled, Inside
  <2>2. FoundHolds'
    BY <1>1, <1>6 DEF FoundHolds, FirstSlot, Wanted
  <2> QED BY <1>3, <1>4, <1>5, <2>1, <2>2
<1>7. CASE ~healed
  <2>1. healed' => lockInited /\ \A v \in LockUsers : place'[v] \in {"outside", "lost"}
    BY <1>2, <1>7
  <2>2. Settled' /\ FoundHolds'
    BY <2>1 DEF Settled, FoundHolds, Inside
  <2> QED BY <1>3, <1>4, <1>5, <2>2
<1> QED BY <1>6, <1>7

LEMMA CreateFailsStep == ASSUME LockInv, NEW u \in LockUsers, CreateFails(u) PROVE LockInv'
<1> USE DEF LockInv
<1>1. /\ place[u] = "creating" /\ Leave(u, place) /\ ~healed
      /\ UNCHANGED <<lockInited, owner, table, records>>
  BY DEF CreateFails, Settled
<1>2. place \in [LockUsers -> LockPlaces]
  BY DEF LockTypeOK
<1>3. \A v \in LockUsers : /\ Inside(v) <=> Inside(v)'
                           /\ Inside(v) => /\ place'[v] = place[v] /\ work'[v] = work[v]
                                           /\ slot'[v] = slot[v]
  BY <1>1 DEF Inside, Leave, LockTypeOK
<1>4. Records'
  BY <1>1, <1>3, OutsideRecords DEF records
<1> QED BY <1>1, <1>2, <1>4, LeaveStep

LEMMA LockStep == ASSUME LockInv, NEW u \in LockUsers, LockTable(u) PROVE LockInv'
<1> USE DEF LockInv
<1>1. place[u] = "locking" /\ UNCHANGED <<lockInited, table, work, slot, healed, known>>
  BY DEF LockTable
<1>2. CASE owner # NoUser
  <2>1. owner' = owner /\ Move(u, "asleep") /\ overlapped' = overlapped
    BY <1>2 DEF LockTable
  <2> QED BY <1>1, <2>1, MovesOutside DEF Inside, LockTypeOK, records
<1>3. CASE owner = NoUser
  <2>1. owner' = u /\ Move(u, "searching") /\ overlapped' = Entered(u)
    BY <1>3 DEF LockTable
  <2>2. \A v \in LockUsers : place'[v] = IF v = u THEN "searching" ELSE place[v]
    BY <2>1 DEF Move, LockTypeOK
  <2>3. LockTypeOK'
    BY <1>1, <2>1 DEF Move, LockTypeOK, LockPlaces
  <2>4. Working' /\ Distinct' /\ Apart' /\ Pending'
    BY <1>1, <2>2 DEF Working, Distinct, Apart, Pending, Changes
  <2>5. Settled'
    BY <1>1, <1>3, <2>1, <2>2, TableLockAssumption DEF Settled, Inside
  <2>6. FoundHolds'
    BY <1>1, <2>2 DEF FoundHolds, FirstSlot, Wanted
  <2>7. Records'
    <3>1. ~Inside(u) /\ table' = table /\ work' = work /\ slot' = slot /\ known' = known
      BY <1>1 DEF Inside
    <3>2. work[u].fun \in TableFunctions
      BY <1>1 DEF Working
    <3>3. \A w \in LockUsers : w # u => place'[w] = place[w] /\ (Inside(w) <=> Inside(w)')
      BY <2>2 DEF Inside
    <3>4. \A w \in LockUsers : w # u /\ Changing(w) => Inside(w)'
      BY <3>3 DEF Changing, Inside
    <3>5. \A x \in Kept : x \in known' \/ Answering(x)'
      BY <1>1, <2>2, <3>1 DEF Records, OnTable, Answering
    <3>6. \A x \in known' : \/ x \in Kept \cup overlapped
                            \/ \E w \in LockUsers : /\ w # u /\ Inside(w)' /\ Changes(w)
                                                    /\ work[w].object = x
      BY <3>1, <3>3 DEF Records, Answered, UnderWay
    <3> QED BY <2>1, <2>2, <3>1, <3>2, <3>3, <3>4, <3>5, <3>6, EnteredRecords
  <2> QED BY <2>3, <2>4, <2>5, <2>6, <2>7
<1> QED BY <1>2, <1>3

LEMMA SearchStep == ASSUME LockInv, NEW u \in LockUsers, SearchTable(u) PROVE LockInv'
<1> USE DEF LockInv
<1>1. /\ place[u] = "searching" /\ Move(u, "writing")
      /\ slot' = [slot EXCEPT ![u] = FirstSlot(Wanted(u))]
      /\ UNCHANGED <<lockInited, owner, table, work, healed, known, overlapped>>
  BY DEF SearchTable, Search, records
<1>2. \A v \in LockUsers : /\ place'[v] = IF v = u THEN "writing" ELSE place[v]
                           /\ slot'[v] = IF v = u THEN FirstSlot(Wanted(u)) ELSE slot[v]
  BY <1>1 DEF Move, LockTypeOK
<1>3. FirstSlot(Wanted(u)) \in 0..Slots
  BY FirstSlotFinds
<1>4. LockTypeOK'
  BY <1>1, <1>3 DEF Move, LockTypeOK, LockPlaces
<1>5. Working' /\ Distinct' /\ Apart' /\ Pending'
  BY <1>1, <1>2 DEF Working, Distinct, Apart, Pending, Changes
<1>6. Settled'
  BY <1>1, <1>2 DEF Settled, Inside
<1>7. \A v \in LockUsers : FirstSlot(Wanted(v))' = FirstSlot(Wanted(v))
  BY <1>1 DEF FirstSlot, Wanted
<1>8. FoundHolds'
  BY <1>1, <1>2, <1>7 DEF FoundHolds
<1>9. Records'
  <2> USE DEF Records
  <2>1. /\ FirstSlot(Wanted(u)) = 0 => \A i \in 1..Slots : table[i] # Wanted(u)
        /\ FirstSlot(Wanted(u)) # 0 => table[FirstSlot(Wanted(u))] = Wanted(u)
    BY FirstSlotFinds
  <2>2. Met' /\ Kept' = Kept
    BY <1>1, <1>2 DEF Met, Changing, Kept
  <2>3. Found'
    BY <1>1, <1>2, <2>1 DEF Found, Changes, Wanted
  <2>4. Sought'
    <3>1. work[u].fun = "forgetObject" /\ work[u].object \in Kept =>
              FirstSlot(Wanted(u)) # 0 /\ table[FirstSlot(Wanted(u))] = work[u].object
      BY <2>1 DEF Kept, Wanted
    <3> QED BY <1>1, <1>2, <2>2, <3>1 DEF Sought
  <2>5. Gone' /\ Lasting'
    BY <1>1, <1>2, <2>2 DEF Gone, Lasting, Changes
  <2>6. \A x : Answering(x) => Answering(x)'
    BY <1>1, <1>2 DEF Answering
  <2>7. \A x : UnderWay(x) => UnderWay(x)'
    BY <1>1, <1>2 DEF UnderWay, Inside, Changes
  <2>8. OnTable' /\ Answered'
    BY <1>1, <2>2, <2>6, <2>7 DEF OnTable, Answered
  <2> QED BY <2>2, <2>3, <2>4, <2>5, <2>8
<1> QED BY <1>4, <1>5, <1>6, <1>8, <1>9

LEMMA WriteRecords == ASSUME LockInv, NEW u \in LockUsers, WriteEntry(u) PROVE Records'
<1> USE DEF LockInv, Records
<1> DEFINE o == work[u].object
           s == slot[u]
           x == table[s]
<1>1. /\ place[u] = "writing" /\ Move(u, "unlocking")
      /\ UNCHANGED <<work, slot, known, overlapped>>
  BY DEF WriteEntry, records
<1>2. \A v \in LockUsers : place'[v] = IF v = u THEN "unlocking" ELSE place[v]
  BY <1>1 DEF Move, LockTypeOK
<1>3. work[u].fun \in TableFunctions /\ o \in Addresses /\ s \in 0..Slots /\ o # Empty
  BY <1>1, TableLockAssumption DEF Working, LockTypeOK
<1>4. Met'
  BY <1>1, <1>2 DEF Met, Changing
<1>5. /\ \A y : Answering(y) => Answering(y)'
      /\ \A y : UnderWay(y) => UnderWay(y)'
  BY <1>1, <1>2 DEF Answering, UnderWay, Inside, Changes
<1>6. CASE s = 0 \/ ~Changes(u)
  <2>1. table' = table /\ Kept' = Kept
    BY <1>3, <1>6 DEF WriteEntry, TableFunctions, Changes, Kept
  <2>2. Found' /\ Sought'
    BY <1>1, <1>2, <2>1 DEF Found, Sought, Changes
  <2>3. Lasting'
    BY <1>1, <1>2, <1>6, <2>1 DEF Lasting, Changes
  <2>4. Gone'
    <3>1. Changes(u) => o \notin Kept
      BY <1>1, <1>6 DEF Changes, Sought, Pending, Kept
    <3> QED BY <1>1, <1>2, <2>1, <3>1 DEF Gone, Changes
  <2>5. OnTable' /\ Answered'
    BY <1>1, <1>5, <2>1 DEF OnTable, Answered
  <2> QED BY <1>4, <2>2, <2>3, <2>4, <2>5
<1>7. CASE s # 0 /\ work[u].fun = "rememberObject"
  <2>1. table' = [table EXCEPT ![s] = o] /\ s \in 1..Slots
    BY <1>3, <1>7, TableLockAssumption DEF WriteEntry
  <2>2. \A i \in 1..Slots : /\ table'[i] = IF i = s THEN o ELSE table[i]
                            /\ table[i] # o
    BY <1>1, <1>7, <2>1 DEF Pending, LockTypeOK
  <2>3. \A y : y \in Kept' <=> (y \in Kept /\ y # x) \/ y = o
    <3>1. o \in Addresses \cup {Empty} /\ \A i \in 1..Slots : table[i] # o
      BY <1>3, <2>2
    <3> HIDE DEF o
    <3> QED BY <1>3, <2>1, <3>1, EntryWritten
  <2>4. Changes(u) /\ x \in {Empty} \cup overlapped
    BY <1>1, <1>7, <2>1, <2>2 DEF Found, Changes
  <2>5. \A v \in LockUsers : v # u /\ Changes(v) => work[v].object # o
    BY <2>4 DEF Apart
  <2>6. ASSUME NEW v \in LockUsers, v # u, place[v] = "writing", Changes(v), slot[v] # 0
        PROVE  table'[slot[v]] \in {Empty, work[v].object} \cup overlapped
    <3>1. slot[v] \in 1..Slots
      BY <2>6, TableLockAssumption DEF LockTypeOK
    <3>2. o \in overlapped
      BY <1>1, <2>4, <2>6 DEF Met, Changing, Changes
    <3> QED BY <2>2, <2>6, <3>1, <3>2 DEF Found
  <2>7. Found'
    BY <1>1, <1>2, <2>6 DEF Found, Changes
  <2>8. Sought'
    <3> SUFFICES ASSUME NEW v \in LockUsers, v # u, place[v] = "writing",
                        work[v].fun = "forgetObject", work[v].object \in Kept'
                 PROVE  slot[v] # 0 /\ table'[slot[v]] = work[v].object
      BY <1>1, <1>2 DEF Sought
    <3>1. work[v].object \in Kept /\ work[v].object # x
      BY <2>3, <2>5 DEF Changes
    <3>2. slot[v] # 0 /\ table[slot[v]] = work[v].object
      BY <3>1 DEF Sought
    <3>3. slot[v] \in 1..Slots
      BY <3>2, TableLockAssumption DEF LockTypeOK
    <3> QED BY <2>2, <3>1, <3>2, <3>3
  <2>9. Gone'
    BY <1>1, <1>2, <1>7, <2>3, <2>5 DEF Gone, Changes
  <2>10. Lasting'
    BY <1>1, <1>2, <2>3, <2>4, TableLockAssumption DEF Lasting, Kept
  <2>11. Answering(o)'
    BY <1>1, <1>2, <1>7 DEF Answering
  <2>12. Empty \notin Kept
    BY DEF Kept
  <2>13. OnTable'
    BY <1>1, <1>5, <2>3, <2>11 DEF OnTable
  <2>14. Answered'
    BY <1>1, <1>5, <2>3, <2>4, <2>12 DEF Answered
  <2> QED BY <1>4, <2>7, <2>8, <2>9, <2>10, <2>13, <2>14
<1>8. CASE s # 0 /\ work[u].fun = "forgetObject"
  <2>1. table' = [table EXCEPT ![s] = Empty] /\ s \in 1..Slots
    BY <1>3, <1>8, TableLockAssumption DEF WriteEntry
  <2>2. \A i \in 1..Slots : table'[i] = IF i = s THEN Empty ELSE table[i]
    BY <2>1 DEF LockTypeOK
  <2>3. \A y : y \in Kept' <=> y \in Kept /\ y # x
    BY <2>1, EntryWritten
  <2>4. Changes(u) /\ x \in {Empty, o} \cup overlapped /\ Empty \notin Kept
    BY <1>1, <1>8, <2>1 DEF Found, Changes, Kept
  <2>5. \A v \in LockUsers : v # u /\ Changes(v) => work[v].object # o
    BY <2>4 DEF Apart
  <2>6. Found'
    <3> SUFFICES ASSUME NEW v \in LockUsers, v # u, place[v] = "writing", Changes(v),
                        slot[v] # 0
                 PROVE  table'[slot[v]] \in {Empty, work[v].object} \cup overlapped
      BY <1>1, <1>2 DEF Found, Changes
    <3>1. slot[v] \in 1..Slots
      BY TableLockAssumption DEF LockTypeOK
    <3> QED BY <2>2, <3>1 DEF Found
  <2>7. Sought'
    <3> SUFFICES ASSUME NEW v \in LockUsers, v # u, place[v] = "writing",
                        work[v].fun = "forgetObject", work[v].object \in Kept'
                 PROVE  slot[v] # 0 /\ table'[slot[v]] = work[v].object
      BY <1>1, <1>2 DEF Sought
    <3>1. work[v].object \in Kept /\ work[v].object # x
      BY <2>3
    <3>2. slot[v] # 0 /\ table[slot[v]] = work[v].object
      BY <3>1 DEF Sought
    <3>3. slot[v] \in 1..Slots
      BY <3>2, TableLockAssumption DEF LockTypeOK
    <3> QED BY <2>2, <3>1, <3>2, <3>3
  <2>8. o \notin Kept'
    BY <1>1, <1>8, <2>3 DEF Sought
  <2>9. Gone'
    BY <1>1, <1>2, <2>3, <2>8 DEF Gone, Changes
  <2>10. Lasting'
    BY <1>1, <1>2, <1>8, <2>3, <2>4, <2>5 DEF Lasting, Changes
  <2>11. UnderWay(o)'
    BY <1>1, <1>2, <2>4 DEF UnderWay, Inside, Changes
  <2>12. OnTable'
    BY <1>1, <1>5, <2>3 DEF OnTable
  <2>13. Answered'
    BY <1>1, <1>5, <2>3, <2>4, <2>11 DEF Answered
  <2> QED BY <1>4, <2>6, <2>7, <2>9, <2>10, <2>12, <2>13
<1> QED BY <1>3, <1>6, <1>7, <1>8 DEF TableFunctions, Changes

LEMMA WriteStep == ASSUME LockInv, NEW u \in LockUsers, WriteEntry(u) PROVE LockInv'
<1> USE DEF LockInv
<1> DEFINE o == work[u].object
<1>1. /\ place[u] = "writing" /\ Move(u, "unlocking")
      /\ UNCHANGED <<lockInited, owner, work, slot, healed, records>>
  BY DEF WriteEntry
<1>2. \A v \in LockUsers : place'[v] = IF v = u THEN "unlocking" ELSE place[v]
  BY <1>1 DEF Move, LockTypeOK
<1>3. work[u].fun \in TableFunctions /\ o \in Addresses /\ slot[u] \in 0..Slots
  BY <1>1 DEF Working, LockTypeOK
<1>4. table' \in [1..Slots -> Addresses \cup {Empty}] /\ Distinct' /\ Pending'
  <2>1. CASE table' = table
    BY <1>1, <1>2, <2>1 DEF LockTypeOK, Distinct, Pending
  <2>2. CASE slot[u] # 0 /\ work[u].fun = "rememberObject"
    <3>1. table' = [table EXCEPT ![slot[u]] = o] /\ slot[u] \in 1..Slots
      BY <1>3, <2>2, TableLockAssumption DEF WriteEntry
    <3>2. \A i \in 1..Slots : table[i] # o
      BY <1>1, <2>2 DEF Pending
    <3>3. Distinct'
      BY <1>3, <3>1, <3>2, EntryWritten
    <3>4. Pending'
      <4> SUFFICES ASSUME NEW v \in LockUsers, work[v].fun = "rememberObject",
                          place'[v] # "unlocking", NEW i \in 1..Slots
                   PROVE  table'[i] # work[v].object
        BY <1>1 DEF Pending
      <4>1. v # u /\ place[v] # "unlocking"
        BY <1>2
      <4>2. work[v].object # o
        BY <2>2, <4>1 DEF Apart, Changes
      <4> QED BY <3>1, <4>1, <4>2 DEF Pending, LockTypeOK
    <3> QED BY <1>3, <3>1, <3>3, <3>4 DEF LockTypeOK
  <2>3. CASE slot[u] # 0 /\ work[u].fun = "forgetObject"
    <3>1. table' = [table EXCEPT ![slot[u]] = Empty] /\ slot[u] \in 1..Slots
      BY <1>3, <2>3, TableLockAssumption DEF WriteEntry
    <3>2. Distinct'
      BY <3>1, EntryWritten
    <3>3. Pending'
      <4> SUFFICES ASSUME NEW v \in LockUsers, work[v].fun = "rememberObject",
                          place'[v] # "unlocking", NEW i \in 1..Slots
                   PROVE  table'[i] # work[v].object
        BY <1>1 DEF Pending
      <4>1. v # u /\ place[v] # "unlocking" /\ place[v] # "outside"
        BY <1>2, <2>3 DEF Working, Idle
      <4>2. work[v].object # Empty
        BY <4>1, TableLockAssumption DEF Working
      <4> QED BY <3>1, <4>1, <4>2 DEF Pending, LockTypeOK
    <3> QED BY <3>1, <3>2, <3>3 DEF LockTypeOK
  <2> QED BY <1>3, <2>1, <2>2, <2>3 DEF TableFunctions, WriteEntry
<1>5. LockTypeOK'
  BY <1>1, <1>4 DEF Move, LockTypeOK, LockPlaces
<1>6. Working' /\ Apart'
  BY <1>1, <1>2 DEF Working, Apart, Changes
<1>7. Settled'
  BY <1>1, <1>2 DEF Settled, Inside
<1>8. FoundHolds'
  BY <1>1, <1>2, OneIn DEF FoundHolds, Inside
<1> QED BY <1>4, <1>5, <1>6, <1>7, <1>8, WriteRecords

LEMMA UnlockTableStep == ASSUME LockInv, NEW u \in LockUsers, UnlockTable(u) PROVE LockInv'
<1> USE DEF LockInv
<1>1. /\ place[u] = "unlocking" /\ Inside(u) /\ place[u] # "outside"
      /\ known' = Recorded(u) /\ UNCHANGED <<lockInited, table>>
  BY DEF UnlockTable, Inside
<1>2. healed => \A v \in LockUsers : v # u => ~Inside(v)
  BY <1>1, OneIn
<1>3. CASE Leave(u, place) /\ overlapped' = overlapped
  <2>1. place \in [LockUsers -> LockPlaces]
    BY DEF LockTypeOK
  <2>2. /\ place'[u] = "outside" /\ ~Inside(u)'
        /\ \A v \in LockUsers : v # u => /\ place'[v] = place[v] /\ work'[v] = work[v]
                                         /\ slot'[v] = slot[v] /\ (Inside(v) <=> Inside(v)')
    BY <1>3 DEF Leave, Inside, LockTypeOK
  <2>3. Records'
    <3> USE DEF Records
    <3>1. Met' /\ Found' /\ Kept' = Kept
      BY <1>1, <1>3, <2>2 DEF Met, Found, Changing, Changes, Kept
    <3>2. \A v \in LockUsers : place'[v] \in {"writing", "unlocking"} =>
              /\ place'[v] = place[v] /\ work'[v] = work[v] /\ slot'[v] = slot[v]
      BY <2>2
    <3>3. Sought' /\ Gone' /\ Lasting'
      BY <1>1, <1>3, <3>1, <3>2 DEF Sought, Gone, Lasting, Changes
    <3>4. OnTable'
      BY <1>1, <2>2, <3>1, AnswerRecords DEF OnTable, Answering
    <3>5. Answered'
      BY <1>1, <1>3, <2>2, <3>1, AnswerRecords DEF Answered, UnderWay, Changes
    <3> QED BY <3>1, <3>3, <3>4, <3>5
  <2> QED BY <1>1, <1>2, <1>3, <2>1, <2>3, LeaveStep
<1>4. ASSUME NEW v \in LockUsers, place[v] = "asleep", owner' = v,
             Leave(u, [place EXCEPT ![v] = "searching"]), overlapped' = Entered(v)
      PROVE  LockInv'
  <2> DEFINE places == [place EXCEPT ![v] = "searching"]
  <2>1. /\ places \in [LockUsers -> LockPlaces]
        /\ \A w \in LockUsers : places[w] = IF w = v THEN "searching" ELSE place[w]
    BY DEF LockTypeOK, LockPlaces
  <2>2. Leave(u, places)
    BY <1>4
  <2>3. v # u /\ ~Inside(v)
    BY <1>1, <1>4 DEF Inside
  <2>4. \A w \in LockUsers : w # u => \/ places[w] = place[w]
                                       \/ /\ place[w] = "asleep" /\ places[w] = "searching"
                                          /\ owner' = w
    BY <1>4, <2>1
  <2> HIDE DEF places
  <2>5. /\ \A w \in LockUsers : place'[w] = IF w = u THEN "outside" ELSE places[w]
        /\ \A w \in LockUsers : w # u => work'[w] = work[w] /\ slot'[w] = slot[w]
    BY <2>1, <2>2 DEF Leave, LockTypeOK
  <2>6. /\ place'[v] = "searching" /\ work'[v] = work[v] /\ ~Inside(u)'
        /\ \A w \in LockUsers : w # u /\ w # v =>
               /\ place'[w] = place[w] /\ work'[w] = work[w] /\ slot'[w] = slot[w]
               /\ (Inside(w) <=> Inside(w)')
    BY <2>1, <2>3, <2>5 DEF Inside
  <2>7. Records'
    <3>1. \A x \in Kept : x \in known' \/ Answering(x)'
      BY <1>1, <1>4, <2>6, AnswerRecords DEF Answering
    <3>2. \A x \in known' : \/ x \in Kept \cup overlapped
                            \/ \E w \in LockUsers : /\ w # v /\ Inside(w)' /\ Changes(w)
                                                    /\ work[w].object = x
      BY <1>1, <2>3, <2>6, AnswerRecords
    <3>3. \A w \in LockUsers : w # v /\ Inside(w)' =>
              Inside(w) /\ place'[w] = place[w] /\ work'[w] = work[w] /\ slot'[w] = slot[w]
      BY <2>6
    <3>4. \A w \in LockUsers : w # v /\ Changing(w) => Inside(w)'
      BY <1>1, <2>6 DEF Changing, Inside
    <3>5. work[v].fun \in TableFunctions
      BY <1>4 DEF Working
    <3> QED BY <1>1, <1>4, <2>3, <2>6, <3>1, <3>2, <3>3, <3>4, <3>5, EnteredRecords
  <2> QED BY <1>1, <1>2, <2>1, <2>2, <2>3, <2>4, <2>7, LeaveStep
<1> QED BY <1>3, <1>4 DEF UnlockTable

LEMMA LockInductive == LockInv /\ [LockNext]_lockVars => LockInv'
<1> SUFFICES ASSUME LockInv, [LockNext]_lockVars PROVE LockInv'
  OBVIOUS
<1>1. ASSUME NEW u \in LockUsers, MarkInited(u) PROVE LockInv'
  <2>1. /\ place[u] = "marking" /\ lockInited' = TRUE /\ Move(u, "locking")
        /\ UNCHANGED <<owner, table, work, slot, healed, records>>
    BY <1>1 DEF MarkInited
  <2> QED BY <2>1, MovesOutside DEF Inside
<1>2. CASE UNCHANGED lockVars
  <2> USE <1>2 DEF lockVars, LockInv
  <2>1. LockTypeOK'
    BY DEF LockTypeOK
  <2>2. Working' /\ Distinct' /\ Apart' /\ Pending'
    BY DEF Working, Distinct, Apart, Pending, Changes
  <2>3. Settled' /\ FoundHolds'
    BY DEF Settled, Inside, FoundHolds, FirstSlot, Wanted
  <2>4. Records'
    BY OutsideRecords DEF Inside
  <2> QED BY <2>1, <2>2, <2>3, <2>4
<1> QED BY <1>1, <1>2, TestStep, MakeStep, CreateFailsStep, LockStep, SearchStep,
           WriteStep, UnlockTableStep DEF LockNext

\* The table is what the answers say, but for what changes that overlapped lost,
\* at any moment of the race for the lock and after it, for any number of threads
\* and any table; and once the race has healed the functions overlap no more.
THEOREM Heals == LockSpec => []TableHeals
<1>1. LockInv => TableHeals
  <2> SUFFICES ASSUME LockInv PROVE TableHeals
    OBVIOUS
  <2> USE DEF LockInv, Records
  <2>1. ASSUME healed, NEW u \in LockUsers, NEW v \in LockUsers,
               {place[u], place[v]} \subseteq {"searching", "writing", "unlocking"}
        PROVE  u = v
    BY <2>1, OneIn DEF Inside
  <2>2. ASSUME \A u \in LockUsers : ~Changing(u) /\ place[u] # "unlocking"
        PROVE  Kept \subseteq known /\ known \subseteq Kept \cup overlapped
    <3>1. \A x : ~Answering(x) /\ ~UnderWay(x)
      BY <2>2 DEF Answering, UnderWay, Inside, Changes, Changing
    <3> QED BY <3>1 DEF OnTable, Answered
  <2>3. ASSUME healed, NEW u \in LockUsers, place[u] = "writing",
               work[u].fun = "isObjectInitialized"
        PROVE  IF slot[u] # 0 THEN work[u].object \in known
               ELSE work[u].object \notin known \ overlapped
    <3>1. \A v \in LockUsers : ~Changing(v) /\ place[v] # "unlocking"
      BY <2>3, OneIn DEF Inside, Changing
    <3>2. slot[u] = FirstSlot(work[u].object) /\ work[u].object \in Addresses
      BY <2>3 DEF FoundHolds, Wanted, Working
    <3>3. slot[u] # 0 <=> work[u].object \in Kept
      BY <3>2, FirstSlotFinds, TableLockAssumption DEF Kept
    <3> QED BY <2>2, <3>1, <3>3
  <2> QED BY <2>1, <2>2, <2>3 DEF TableHeals
<1> QED BY <1>1, LockInitially, LockInductive, PTL DEF LockSpec


\* What PthrMutex takes the three functions for: one step each, over this table.
OneStep == INSTANCE PthrMutex WITH initializedObjects <- table, Objects <- Addresses,
                                   Null <- Empty, TableSize <- Slots

\* A write is the whole of rememberObject or of forgetObject, nothing else writes,
\* and what a search finds for isObjectInitialized is its whole answer.
StepsAsOne ==
    healed =>
        /\ \A u \in LockUsers :
              place[u] = "writing" /\ place'[u] = "unlocking" =>
                  \/ work[u].fun = "rememberObject" /\ OneStep!rememberObject(work[u].object)
                  \/ work[u].fun = "forgetObject" /\ OneStep!forgetObject(work[u].object)
                  \/ work[u].fun = "isObjectInitialized" /\ UNCHANGED table
        /\ \/ UNCHANGED table
           \/ \E u \in LockUsers : place[u] = "writing" /\ place'[u] = "unlocking"
        /\ \A u \in LockUsers :
              place[u] = "searching" /\ place'[u] = "writing"
                  /\ work[u].fun = "isObjectInitialized" =>
                  (slot'[u] # 0 <=> OneStep!isObjectInitialized(work[u].object))
        /\ overlapped' \subseteq overlapped

\* The first entry is the same by both.
LEMMA SameEntry ==
    ASSUME NEW o
    PROVE  /\ FirstSlot(o) = 0 <=> OneStep!EntriesOf(o) = {}
           /\ FirstSlot(o) # 0 => FirstSlot(o) = OneStep!FirstOf(OneStep!EntriesOf(o))
<1> DEFINE S == {i \in 1..Slots : table[i] = o}
<1>1. OneStep!EntriesOf(o) = S
  BY DEF OneStep!EntriesOf, OneStep!Entries
<1>2. CASE S = {}
  BY <1>1, <1>2 DEF FirstSlot
<1>3. CASE S # {}
  <2>1. FirstSlot(o) = CHOOSE i \in S : \A j \in S : i <= j
    BY <1>3 DEF FirstSlot
  <2>2. OneStep!FirstOf(S) = CHOOSE i \in S : \A j \in S : i <= j
    BY DEF OneStep!FirstOf
  <2>3. FirstSlot(o) # 0
    BY <1>3, FirstSlotFinds
  <2> HIDE DEF S
  <2> QED BY <1>1, <1>3, <2>1, <2>2, <2>3
<1> QED BY <1>2, <1>3

\* A write puts one address in the place of another, or of a free entry.
LEMMA WriteAsOne ==
    ASSUME LockInv, healed, NEW u \in LockUsers, WriteEntry(u)
    PROVE  \/ work[u].fun = "rememberObject" /\ OneStep!rememberObject(work[u].object)
           \/ work[u].fun = "forgetObject" /\ OneStep!forgetObject(work[u].object)
           \/ work[u].fun = "isObjectInitialized" /\ UNCHANGED table
<1> DEFINE o == work[u].object
           x == Wanted(u)
<1>1. place[u] = "writing" /\ slot[u] = FirstSlot(x)
  BY DEF LockInv, FoundHolds, WriteEntry
<1>2. work[u].fun \in TableFunctions
  BY <1>1 DEF LockInv, Working
<1>3. CASE work[u].fun = "isObjectInitialized"
  BY <1>3 DEF WriteEntry
<1>4. CASE work[u].fun = "rememberObject"
  <2>1. x = Empty
    BY <1>4 DEF Wanted
  <2>2. table' = IF slot[u] = 0 THEN table ELSE [table EXCEPT ![slot[u]] = o]
    BY <1>4 DEF WriteEntry
  <2> HIDE DEF o, x
  <2>3. OneStep!Replace(x, o)
    BY <1>1, <2>2, SameEntry DEF OneStep!Replace
  <2> QED BY <1>4, <2>1, <2>3 DEF OneStep!rememberObject, o
<1>5. CASE work[u].fun = "forgetObject"
  <2>1. x = o
    BY <1>5 DEF Wanted
  <2>2. table' = IF slot[u] = 0 THEN table ELSE [table EXCEPT ![slot[u]] = Empty]
    BY <1>5 DEF WriteEntry
  <2> HIDE DEF o, x
  <2>3. OneStep!Replace(x, Empty)
    BY <1>1, <2>2, SameEntry DEF OneStep!Replace
  <2> QED BY <1>5, <2>1, <2>3 DEF OneStep!forgetObject, o
<1> QED BY <1>2, <1>3, <1>4, <1>5 DEF TableFunctions

\* Who gets the lock finds no change under way.
LEMMA NoneOverlaps ==
    ASSUME LockInv, healed, NEW v \in LockUsers,
           \/ TestInited(v) \/ CreateLock(v) \/ CreateFails(v)
           \/ MarkInited(v) \/ LockTable(v) \/ UnlockTable(v)
    PROVE  overlapped' \subseteq overlapped
<1> USE DEF LockInv
<1>1. ASSUME NEW w \in LockUsers, \A x \in LockUsers : ~Changing(x), overlapped' = Entered(w)
      PROVE  overlapped' \subseteq overlapped
  <2>1. {x \in LockUsers \ {w} : Changing(x)} = {}
    BY <1>1
  <2> QED BY <1>1, <2>1 DEF Entered
<1>2. ASSUME LockTable(v), owner = NoUser PROVE overlapped' \subseteq overlapped
  <2>1. \A x \in LockUsers : ~Changing(x)
    BY <1>2, TableLockAssumption DEF Settled, Inside, Changing
  <2> QED BY <1>1, <1>2, <2>1 DEF LockTable
<1>3. ASSUME UnlockTable(v) PROVE overlapped' \subseteq overlapped
  <2>1. \A x \in LockUsers : ~Changing(x)
    BY <1>3, OneIn DEF UnlockTable, Inside, Changing
  <2> QED BY <1>1, <1>3, <2>1 DEF UnlockTable
<1> QED BY <1>2, <1>3 DEF TestInited, CreateLock, CreateFails, MarkInited, LockTable, records

LEMMA AsOne == LockInv /\ [LockNext]_lockVars => StepsAsOne
<1> SUFFICES ASSUME LockInv, [LockNext]_lockVars, healed PROVE StepsAsOne
  BY DEF StepsAsOne
<1>1. CASE UNCHANGED lockVars
  BY <1>1 DEF lockVars, StepsAsOne
<1>2. ASSUME NEW v \in LockUsers, WriteEntry(v) PROVE StepsAsOne
  <2>1. \A u \in LockUsers : place'[u] = IF u = v THEN "unlocking" ELSE place[u]
    BY <1>2 DEF WriteEntry, Move, LockInv, LockTypeOK
  <2>2. place[v] = "writing" /\ overlapped' = overlapped
    BY <1>2 DEF WriteEntry, records
  <2> QED BY <1>2, <2>1, <2>2, WriteAsOne DEF StepsAsOne
<1>3. ASSUME NEW v \in LockUsers, SearchTable(v) PROVE StepsAsOne
  <2>1. \A u \in LockUsers : /\ place'[u] = IF u = v THEN "writing" ELSE place[u]
                             /\ slot'[u] = IF u = v THEN FirstSlot(Wanted(v)) ELSE slot[u]
    BY <1>3 DEF SearchTable, Search, Move, LockInv, LockTypeOK
  <2>2. table' = table /\ overlapped' = overlapped
    BY <1>3 DEF SearchTable, records
  <2>3. work[v].fun = "isObjectInitialized" =>
            (FirstSlot(Wanted(v)) # 0 <=> OneStep!isObjectInitialized(work[v].object))
    BY SameEntry DEF Wanted, OneStep!isObjectInitialized
  <2> QED BY <2>1, <2>2, <2>3 DEF StepsAsOne
<1>4. ASSUME NEW v \in LockUsers,
             \/ TestInited(v) \/ CreateLock(v) \/ CreateFails(v)
             \/ MarkInited(v) \/ LockTable(v) \/ UnlockTable(v)
      PROVE  StepsAsOne
  <2>1. table' = table
    BY <1>4 DEF TestInited, CreateLock, CreateFails, MarkInited, LockTable, UnlockTable
  <2>2. \A u \in LockUsers : place[u] \in {"searching", "writing"} => place'[u] = place[u]
    BY <1>4 DEF TestInited, CreateLock, CreateFails, MarkInited, LockTable, UnlockTable,
                Move, Leave, LockInv, LockTypeOK
  <2>3. overlapped' \subseteq overlapped
    BY <1>4, NoneOverlaps
  <2> QED BY <2>1, <2>2, <2>3 DEF StepsAsOne
<1> QED BY <1>1, <1>2, <1>3, <1>4 DEF LockNext

\* Step simulation: once the race to make the lock has healed, each of the three
\* functions is the one step PthrMutex takes it for, at its write or, for
\* isObjectInitialized, at its search, for any number of threads and entries, and no
\* change overlaps another: what the race had lost is only remembered again.
THEOREM TableInOneStep == LockSpec => [][StepsAsOne]_lockVars
<1>1. LockInv /\ [LockNext]_lockVars => [StepsAsOne]_lockVars
  BY AsOne
<1> QED BY <1>1, LockInitially, LockInductive, PTL DEF LockSpec

-----------------------------------------------------------------------------
(* RwLock.                                                                 *)

Holds == {"none", "read", "write"}

RwTypeOK == /\ made \in {"no", "static", "init"}
            /\ real \in [RwThreads -> Holds] /\ told \in [RwThreads -> Holds]

\* A static lock, which refuses everybody, is held by nobody, nor is a dead one.
NobodyElse == /\ made # "init" => told = NoHold
              /\ made = "static" => handle = "null"

RwInv == RwTypeOK /\ NobodyElse /\ RwLockLasts

LEMMA NoHoldType == NoHold \in [RwThreads -> Holds] /\ \A t \in RwThreads : NoHold[t] = "none"
BY DEF NoHold, Holds

LEMMA RwInitially == RwInit => RwInv
BY NoHoldType DEF RwInit, RwInv, RwTypeOK, NobodyElse, RwLockLasts

LEMMA RwStep == RwInv /\ [RwNext]_rwVars => RwInv'
<1> SUFFICES ASSUME RwInv, [RwNext]_rwVars PROVE RwInv'
  OBVIOUS
<1> USE DEF RwInv
<1>1. CASE StaticRwlock
  BY <1>1, NoHoldType DEF StaticRwlock, RwTypeOK, NobodyElse, RwLockLasts
<1>2. CASE rwlock_init
  BY <1>2, NoHoldType DEF rwlock_init, RwTypeOK, NobodyElse, RwLockLasts
<1>3. CASE rwlock_destroy
  BY <1>3, NoHoldType DEF rwlock_destroy, RwTypeOK, NobodyElse, RwLockLasts
<1>4. ASSUME NEW t \in RwThreads, NEW how \in {"read", "write"}, rwlock_lock(t, how)
      PROVE  RwInv'
  <2>1. UNCHANGED <<handle, made>> /\ made # "no" /\ told[t] = "none"
    BY <1>4 DEF rwlock_lock
  <2>2. CASE handle = "lock"
    <3>1. /\ real' = [real EXCEPT ![t] = how] /\ told' = [told EXCEPT ![t] = how]
          /\ refused' = refused /\ Admits(t, how)
      BY <1>4, <2>2 DEF rwlock_lock
    <3>2. made = "init" /\ real = told
      BY <2>1, <2>2 DEF RwTypeOK, NobodyElse, RwLockLasts
    <3>3. RwTypeOK' /\ NobodyElse'
      BY <2>1, <3>1, <3>2 DEF RwTypeOK, NobodyElse, Holds
    <3>4. ASSUME NEW u \in RwThreads, NEW v \in RwThreads,
                 told'[u] = "write", told'[v] # "none"
          PROVE  u = v
      BY <3>1, <3>2, <3>4 DEF Admits, RwTypeOK, RwLockLasts
    <3>5. RwLockLasts'
      BY <2>1, <3>1, <3>2, <3>4 DEF RwLockLasts
    <3> QED BY <3>3, <3>5
  <2>3. CASE handle # "lock"
    <3>1. refused' = TRUE /\ UNCHANGED <<real, told>>
      BY <1>4, <2>3 DEF rwlock_lock
    <3> QED BY <2>1, <2>3, <3>1 DEF RwTypeOK, NobodyElse, RwLockLasts
  <2> QED BY <2>2, <2>3
<1>5. ASSUME NEW t \in RwThreads, rwlock_unlock(t) PROVE RwInv'
  <2>1. /\ made = "init" /\ handle = "lock" /\ real = told
        /\ UNCHANGED <<handle, made, refused>>
    BY <1>5, NoHoldType DEF rwlock_unlock, RwTypeOK, NobodyElse, RwLockLasts
  <2>2. /\ real' = [real EXCEPT ![t] = "none"]
        /\ told' = [told EXCEPT ![t] = "none"]
    BY <1>5, <2>1 DEF rwlock_unlock
  <2>3. RwTypeOK' /\ NobodyElse'
    BY <2>1, <2>2 DEF RwTypeOK, NobodyElse, Holds
  <2>4. ASSUME NEW u \in RwThreads, NEW v \in RwThreads,
               told'[u] = "write", told'[v] # "none"
        PROVE  u = v
    BY <2>2, <2>4 DEF RwTypeOK, RwLockLasts
  <2> QED BY <2>1, <2>2, <2>3, <2>4 DEF RwLockLasts
<1>6. CASE UNCHANGED rwVars
  BY <1>6 DEF rwVars, RwTypeOK, NobodyElse, RwLockLasts
<1> QED BY <1>1, <1>2, <1>3, <1>4, <1>5, <1>6 DEF RwNext

\* A lock that pthread_rwlock_init made refuses nobody and excludes as it must
\* until pthread_rwlock_destroy, whatever any number of threads lock and unlock:
\* the version that ended the lock with each unlock breaks it after one.
THEOREM RwLockServes == RwSpec => []RwLockLasts
<1>1. RwInv => RwLockLasts
  BY DEF RwInv
<1> QED BY <1>1, RwInitially, RwStep, PTL DEF RwSpec

-----------------------------------------------------------------------------
(* ThreadAttr.                                                             *)

AttrTypeOK == /\ magic \in [AttrObjects -> BOOLEAN]
              /\ real_ptr \in [AttrObjects -> AttrBlocks \cup {NoBlock}]
              /\ attrs \in [AttrBlocks -> DetachStates \cup {"free"}]
              /\ asked \in [AttrObjects -> DetachStates \cup {"over"}]
              /\ past \in [AttrObjects -> {"clean", "kept", "torn"}]

\* A marker whose pointer was not overwritten vouches for a block of its own.
Vouched(o) == magic[o] /\ past[o] # "torn"
Backed == /\ \A o \in AttrObjects : Vouched(o) => HasReal(o)
          /\ \A o, p \in AttrObjects :
                Vouched(o) /\ Vouched(p) /\ real_ptr[o] = real_ptr[p] => o = p

\* In a life there is a marker, and in clean memory the block says what was asked;
\* outside of one a marker is what was forgotten.
InLife(o) == IF asked[o] = "over" THEN magic[o] => past[o] # "clean"
             ELSE magic[o] /\ (past[o] = "clean" => attrs[real_ptr[o]] = asked[o])
Lives == \A o \in AttrObjects :
            InLife(o) /\ (past[o] = "torn" => magic[o] /\ real_ptr[o] = NoBlock)

AsAsked == created.asked # "none" => created.state = created.asked
OnlyTorn == wild \subseteq {o \in AttrObjects : past[o] = "torn"}

AttrInv == AttrTypeOK /\ Backed /\ Lives /\ AsAsked /\ OnlyTorn

LEMMA AttrInitially == AttrInit => AttrInv
<1> SUFFICES ASSUME AttrInit PROVE AttrInv
  OBVIOUS
<1>1. AttrTypeOK
  BY DEF AttrInit, AttrTypeOK, DetachStates
<1>2. \A o \in AttrObjects : ~magic[o] /\ asked[o] = "over" /\ past[o] = "clean"
  BY DEF AttrInit
<1>3. Backed /\ Lives
  BY <1>2 DEF Backed, Vouched, Lives, InLife
<1>4. AsAsked /\ OnlyTorn
  BY DEF AttrInit, AsAsked, OnlyTorn, NoThread
<1> QED BY <1>1, <1>3, <1>4 DEF AttrInv

\* The lazy initialisation and what the real function sets, of an attribute that
\* says what the game asks for from now on (how).
LEMMA StaticInitKeeps ==
    ASSUME AttrInv, NEW o \in AttrObjects, NEW s \in DetachStates \cup {"as is"},
           attr_static_init(o, s), NEW how \in DetachStates, asked' = [asked EXCEPT ![o] = how],
           past' = past, magic[o] => asked[o] # "over",
           how = IF s # "as is" THEN s ELSE IF asked[o] = "over" THEN "joinable" ELSE asked[o]
    PROVE  /\ AttrTypeOK' /\ Backed' /\ Lives' /\ OnlyTorn'
           /\ wild' = wild /\ past[o] = "clean" => attrs'[real_ptr'[o]] = how
<1> USE DEF AttrInv
<1>0. \A p \in AttrObjects : asked'[p] = IF p = o THEN how ELSE asked[p]
  BY DEF AttrTypeOK
<1>1. CASE ~magic[o]
  <2>1. PICK b \in AttrBlocks :
            /\ attrs[b] = "free" /\ magic' = [magic EXCEPT ![o] = TRUE]
            /\ real_ptr' = [real_ptr EXCEPT ![o] = b] /\ wild' = wild
            /\ attrs' = [attrs EXCEPT ![b] = IF s = "as is" THEN "joinable" ELSE s]
    BY <1>1 DEF attr_static_init
  <2>2. asked[o] = "over" /\ past[o] # "torn"
    BY <1>1 DEF Lives, InLife
  <2>3. AttrTypeOK'
    BY <2>1 DEF AttrTypeOK, DetachStates
  <2>4. /\ magic'[o] = TRUE /\ real_ptr'[o] = b /\ attrs'[b] = how /\ how # "free"
        /\ \A p \in AttrObjects : p # o => magic'[p] = magic[p] /\ real_ptr'[p] = real_ptr[p]
        /\ \A c \in AttrBlocks : c # b => attrs'[c] = attrs[c]
    BY <2>1, <2>2 DEF AttrTypeOK, DetachStates
  <2>5. \A p \in AttrObjects : p # o /\ Vouched(p) => real_ptr[p] # b
    BY <2>1 DEF Backed, HasReal
  <2>6. Backed'
    <3>1. \A p \in AttrObjects : p # o => (Vouched(p)' <=> Vouched(p))
      BY <2>4 DEF Vouched
    <3>2. ASSUME NEW p \in AttrObjects, p # o, Vouched(p) PROVE HasReal(p)'
      <4>1. HasReal(p) /\ real_ptr[p] # b
        BY <2>5, <3>2 DEF Backed
      <4> QED BY <2>4, <3>2, <4>1 DEF HasReal
    <3>3. HasReal(o)'
      BY <2>4 DEF HasReal
    <3> QED BY <2>4, <2>5, <3>1, <3>2, <3>3 DEF Backed
  <2>7. Lives'
    <3>1. InLife(o)'
      BY <1>0, <2>4, <2>2 DEF InLife, DetachStates
    <3>2. ASSUME NEW p \in AttrObjects, p # o PROVE InLife(p)'
      <4>1. past[p] = "clean" /\ asked[p] # "over" => HasReal(p) /\ real_ptr[p] # b
        BY <2>5, <3>2 DEF Lives, InLife, Backed, Vouched
      <4>2. InLife(p)
        BY DEF Lives
      <4>3. /\ magic'[p] = magic[p] /\ asked'[p] = asked[p] /\ past'[p] = past[p]
            /\ past[p] = "clean" /\ asked[p] # "over" =>
                   attrs'[real_ptr'[p]] = attrs[real_ptr[p]]
        BY <1>0, <2>4, <3>2, <4>1 DEF HasReal
      <4> QED BY <4>2, <4>3 DEF InLife
    <3> QED BY <2>2, <2>4, <3>1, <3>2 DEF Lives
  <2> QED BY <2>1, <2>3, <2>4, <2>6, <2>7 DEF OnlyTorn
<1>2. CASE magic[o] /\ HasReal(o)
  <2> DEFINE b == real_ptr[o]
  <2>1. /\ attrs' = IF s = "as is" THEN attrs ELSE [attrs EXCEPT ![b] = s]
        /\ UNCHANGED <<magic, real_ptr, wild>> /\ b \in AttrBlocks /\ attrs[b] # "free"
    BY <1>2 DEF attr_static_init, HasReal
  <2>2. past[o] # "torn" /\ asked[o] # "over"
    BY <1>2, <2>1, NoBlockAssumption DEF Lives
  <2>3. AttrTypeOK'
    BY <2>1 DEF AttrTypeOK
  <2>4. /\ past[o] = "clean" => attrs'[b] = how
        /\ attrs'[b] # "free" /\ \A c \in AttrBlocks : c # b => attrs'[c] = attrs[c]
    BY <2>1, <2>2 DEF AttrTypeOK, DetachStates, Lives, InLife
  <2>5. \A p \in AttrObjects : p # o /\ Vouched(p) => real_ptr[p] # b
    BY <1>2, <2>2 DEF Backed, Vouched
  <2>6. Backed'
    BY <2>1, <2>4 DEF Backed, Vouched, HasReal
  <2>7. Lives'
    <3>1. InLife(o)'
      BY <1>0, <1>2, <2>1, <2>4 DEF InLife, DetachStates
    <3>2. ASSUME NEW p \in AttrObjects, p # o PROVE InLife(p)'
      <4>1. past[p] = "clean" /\ asked[p] # "over" => HasReal(p) /\ real_ptr[p] # b
        BY <2>5, <3>2 DEF Lives, InLife, Backed, Vouched
      <4>2. InLife(p)
        BY DEF Lives
      <4> QED BY <1>0, <2>1, <2>4, <3>2, <4>1, <4>2 DEF InLife, HasReal
    <3> QED BY <2>1, <3>1, <3>2 DEF Lives
  <2> QED BY <2>1, <2>3, <2>4, <2>6, <2>7 DEF OnlyTorn
<1>3. CASE magic[o] /\ ~HasReal(o)
  <2>1. wild' = wild \cup {o} /\ UNCHANGED <<magic, real_ptr, attrs>>
    BY <1>3 DEF attr_static_init
  <2>2. past[o] = "torn"
    BY <1>3 DEF Backed, Vouched
  <2>3. AttrTypeOK' /\ Backed'
    BY <2>1 DEF AttrTypeOK, Backed, Vouched, HasReal
  <2>4. Lives'
    <3>1. InLife(o)'
      BY <1>0, <1>3, <2>1, <2>2 DEF InLife, DetachStates
    <3>2. ASSUME NEW p \in AttrObjects, p # o PROVE InLife(p)'
      <4>1. InLife(p)
        BY DEF Lives
      <4> QED BY <1>0, <2>1, <3>2, <4>1 DEF InLife
    <3> QED BY <2>1, <3>1, <3>2 DEF Lives
  <2>5. OnlyTorn' /\ (wild' = wild => o \in wild)
    BY <2>1, <2>2 DEF OnlyTorn
  <2> QED BY <2>2, <2>3, <2>4, <2>5
<1> QED BY <1>1, <1>2, <1>3 DEF AttrTypeOK

LEMMA AttrInitStep == ASSUME AttrInv, NEW o \in AttrObjects, attr_init(o) PROVE AttrInv'
<1> USE DEF AttrInv
<1>1. /\ asked[o] = "over" /\ asked' = [asked EXCEPT ![o] = "joinable"]
      /\ past' = past /\ created' = created
  BY DEF attr_init
<1>2. AsAsked'
  BY <1>1 DEF AsAsked
<1>3. CASE magic[o]
  <2>1. UNCHANGED <<magic, real_ptr, attrs, wild>>
    BY <1>3 DEF attr_init
  <2>2. AttrTypeOK' /\ Backed' /\ OnlyTorn'
    BY <1>1, <2>1 DEF AttrTypeOK, DetachStates, Backed, Vouched, HasReal, OnlyTorn
  <2>3. Lives'
    BY <1>1, <1>3, <2>1 DEF AttrTypeOK, Lives, InLife
  <2> QED BY <1>2, <2>2, <2>3
<1>4. CASE ~magic[o]
  <2>1. attr_static_init(o, "as is")
    BY <1>4 DEF attr_init
  <2>2. AttrTypeOK' /\ Backed' /\ Lives' /\ OnlyTorn'
    BY <1>1, <1>4, <2>1, StaticInitKeeps DEF DetachStates
  <2> QED BY <1>2, <2>2
<1> QED BY <1>3, <1>4

\* A marker that is cleared, with its block freed or lost.
LEMMA MarkerCleared ==
    ASSUME AttrInv, NEW o \in AttrObjects,
           magic' = [magic EXCEPT ![o] = FALSE], asked' = [asked EXCEPT ![o] = "over"],
           past' = [past EXCEPT ![o] = "clean"], wild = {}, UNCHANGED <<created, wild>>,
           real_ptr' \in {real_ptr, [real_ptr EXCEPT ![o] = NoBlock]},
           \/ attrs' = attrs
           \/ Vouched(o) /\ attrs' = [attrs EXCEPT ![real_ptr[o]] = "free"]
    PROVE  AttrInv'
<1> USE DEF AttrInv
<1>1. AttrTypeOK'
  BY DEF AttrTypeOK, Backed, HasReal
<1>2. /\ ~magic'[o] /\ asked'[o] = "over" /\ past'[o] = "clean"
      /\ \A p \in AttrObjects : p # o => /\ magic'[p] = magic[p] /\ real_ptr'[p] = real_ptr[p]
                                         /\ asked'[p] = asked[p] /\ past'[p] = past[p]
  BY DEF AttrTypeOK
<1>3. \A p \in AttrObjects : p # o /\ Vouched(p) => attrs'[real_ptr[p]] = attrs[real_ptr[p]]
  BY DEF AttrTypeOK, Backed, HasReal
<1>4. Backed'
  BY <1>2, <1>3 DEF Backed, Vouched, HasReal
<1>5. Lives'
  BY <1>2, <1>3 DEF Lives, InLife, Vouched
<1> QED BY <1>1, <1>4, <1>5 DEF AsAsked, OnlyTorn

LEMMA DestroyStep ==
    ASSUME AttrInv, wild = {}, NEW o \in AttrObjects, attr_destroy(o) PROVE AttrInv'
<1> USE DEF AttrInv
<1>1. asked' = [asked EXCEPT ![o] = "over"] /\ UNCHANGED <<real_ptr, created>>
  BY DEF attr_destroy
<1>2. CASE ~magic[o]
  <2>1. UNCHANGED <<magic, attrs, past, wild>> /\ asked[o] = "over"
    BY <1>2 DEF attr_destroy, Lives, InLife
  <2> QED BY <1>1, <2>1 DEF AttrTypeOK, Backed, Vouched, HasReal, Lives, InLife, AsAsked, OnlyTorn
<1>3. CASE magic[o] /\ HasReal(o)
  <2>1. Vouched(o)
    BY <1>3, NoBlockAssumption DEF Vouched, Lives, HasReal
  <2> QED BY <1>1, <1>3, <2>1, MarkerCleared DEF attr_destroy
<1>4. CASE magic[o] /\ ~HasReal(o)
  <2>1. wild' = wild \cup {o} /\ UNCHANGED <<magic, attrs, past>> /\ past[o] = "torn"
    BY <1>4 DEF attr_destroy, Backed, Vouched
  <2>2. AttrTypeOK' /\ Backed' /\ AsAsked' /\ OnlyTorn'
    BY <1>1, <2>1 DEF AttrTypeOK, Backed, Vouched, HasReal, AsAsked, OnlyTorn
  <2>3. Lives'
    BY <1>1, <2>1 DEF AttrTypeOK, Lives, InLife
  <2> QED BY <2>2, <2>3
<1> QED BY <1>2, <1>3, <1>4 DEF AttrTypeOK

LEMMA ForgetStep ==
    ASSUME AttrInv, wild = {}, NEW o \in AttrObjects, Forget(o) PROVE AttrInv'
<1> USE DEF AttrInv
<1>1. /\ asked[o] # "over" /\ asked' = [asked EXCEPT ![o] = "over"]
      /\ magic' \in {magic, [magic EXCEPT ![o] = FALSE]}
      /\ real_ptr' \in {real_ptr, [real_ptr EXCEPT ![o] = NoBlock]}
      /\ past' = [past EXCEPT ![o] = IF ~magic'[o] THEN "clean"
                                     ELSE IF past[o] = "torn" \/ real_ptr'[o] # real_ptr[o]
                                          THEN "torn" ELSE "kept"]
      /\ UNCHANGED <<attrs, created, wild>>
  BY DEF Forget
<1>2. magic[o]
  BY <1>1 DEF Lives, InLife
<1>3. CASE magic' # magic
  BY <1>1, <1>3, MarkerCleared DEF AttrTypeOK
<1>4. CASE magic' = magic
  <2>1. /\ past'[o] = IF past[o] = "torn" \/ real_ptr'[o] # real_ptr[o] THEN "torn" ELSE "kept"
        /\ asked'[o] = "over" /\ real_ptr'[o] \in {real_ptr[o], NoBlock}
        /\ \A p \in AttrObjects : p # o => /\ real_ptr'[p] = real_ptr[p]
                                           /\ asked'[p] = asked[p] /\ past'[p] = past[p]
    BY <1>1, <1>2, <1>4 DEF AttrTypeOK
  <2>2. AttrTypeOK'
    BY <1>1, <1>4, <2>1 DEF AttrTypeOK
  <2>3. Backed'
    BY <1>1, <1>4, <2>1 DEF Backed, Vouched, HasReal
  <2>4. Lives'
    BY <1>1, <1>2, <1>4, <2>1 DEF Lives, InLife
  <2> QED BY <1>1, <2>2, <2>3, <2>4 DEF AsAsked, OnlyTorn
<1> QED BY <1>3, <1>4

LEMMA UseStep ==
    ASSUME AttrInv, NEW o \in AttrObjects,
           attr_setdetachstate(o) \/ attr_setstacksize(o) \/ pthread_create(o)
    PROVE  AttrInv'
<1> USE DEF AttrInv
<1>1. asked[o] # "over" /\ asked[o] \in DetachStates /\ past' = past
  BY DEF attr_setdetachstate, attr_setstacksize, pthread_create, AttrTypeOK
<1>2. CASE attr_setdetachstate(o)
  <2>1. PICK s \in DetachStates : attr_static_init(o, s) /\ asked' = [asked EXCEPT ![o] = s]
    BY <1>2 DEF attr_setdetachstate
  <2>2. s # "as is"
    BY DEF DetachStates
  <2>3. AttrTypeOK' /\ Backed' /\ Lives' /\ OnlyTorn'
    BY <1>1, <2>1, <2>2, StaticInitKeeps
  <2> QED BY <1>2, <2>3 DEF attr_setdetachstate, AsAsked
<1>3. CASE attr_setstacksize(o) \/ pthread_create(o)
  <2>1. attr_static_init(o, "as is") /\ asked' = [asked EXCEPT ![o] = asked[o]]
    BY <1>3 DEF attr_setstacksize, pthread_create, AttrTypeOK
  <2>2. /\ AttrTypeOK' /\ Backed' /\ Lives' /\ OnlyTorn'
        /\ wild' = wild /\ past[o] = "clean" => attrs'[real_ptr'[o]] = asked[o]
    BY <1>1, <2>1, StaticInitKeeps
  <2>3. AsAsked'
    <3>1. CASE created' = created
      BY <3>1 DEF AsAsked
    <3>2. CASE created' = [state |-> attrs'[real_ptr'[o]],
                           asked |-> IF past[o] = "clean" THEN asked[o] ELSE "none"]
               /\ wild' = wild
      BY <2>2, <3>2 DEF AsAsked
    <3> QED BY <1>3, <3>1, <3>2 DEF attr_setstacksize, pthread_create
  <2> QED BY <2>2, <2>3
<1> QED BY <1>2, <1>3

LEMMA AttrStep == AttrInv /\ [AttrNext]_attrVars => AttrInv'
<1> SUFFICES ASSUME AttrInv, [AttrNext]_attrVars PROVE AttrInv'
  OBVIOUS
<1>1. CASE pthread_create_plain
  BY <1>1 DEF pthread_create_plain, AttrInv, AttrTypeOK, Backed, Vouched, HasReal, Lives,
              InLife, AsAsked, OnlyTorn
<1>2. CASE UNCHANGED attrVars
  BY <1>2 DEF attrVars, AttrInv, AttrTypeOK, Backed, Vouched, HasReal, Lives, InLife,
              AsAsked, OnlyTorn
<1> QED BY <1>1, <1>2, AttrInitStep, DestroyStep, ForgetStep, UseStep DEF AttrNext

\* The marker of an attribute vouches for a real attribute of its own, for any
\* number of attributes and blocks and whatever was destroyed or forgotten before,
\* except in memory where the pointer was overwritten under the marker.
THEOREM AttrsHold == AttrSpec => []AttrKept
<1>1. AttrInv => AttrKept
  BY DEF AttrInv, AttrKept, Backed, Vouched, Lives, InLife, AsAsked, OnlyTorn
<1> QED BY <1>1, AttrInitially, AttrStep, PTL DEF AttrSpec
=============================================================================
