----------------------------- MODULE ThreadAttr -----------------------------
(***************************************************************************)
(* The thread attributes of source/reimpl/pthr.c: an attribute object of   *)
(* the game holds a pointer to a real one and a magic word that says that  *)
(* the pointer is good.  The object is memory of the game, most often of a *)
(* stack: what lies there when a life of it begins is what is left of the  *)
(* life before, each of the two words overwritten or not.                  *)
(*                                                                         *)
(* External: the heap, the real attributes and threads, and the game: it   *)
(* initialises an attribute before it sets or uses it, but it may forget   *)
(* to destroy it.  No other word of it has the value of the marker.        *)
(***************************************************************************)
EXTENDS Integers

CONSTANTS AttrObjects,  \* attributes of the game
          AttrBlocks,   \* blocks of the heap
          NoBlock       \* a pointer that is none to a block

ASSUME NoBlockAssumption == NoBlock \notin AttrBlocks

VARIABLES magic,    \* attr->magic is 0x42424242
          real_ptr, \* attr->real_ptr
          attrs,    \* the blocks: "free", or the state a real attribute asks for
          asked,    \* history: the state asked for in this life, "over" outside one
          past,     \* history: what the life before left: nothing ("clean"), both
                    \* words of an attribute ("kept"), or its marker only ("torn")
          created,  \* the state of the last thread, and the one asked for it
          wild      \* history: a real function was given a pointer to nothing real

attrVars == <<magic, real_ptr, attrs, asked, past, created, wild>>

DetachStates == {"joinable", "detached"}
NoThread == [state |-> "none", asked |-> "none"]

AttrInit ==
    /\ magic = [o \in AttrObjects |-> FALSE]
    /\ real_ptr = [o \in AttrObjects |-> NoBlock]
    /\ attrs = [b \in AttrBlocks |-> "free"]
    /\ asked = [o \in AttrObjects |-> "over"]
    /\ past = [o \in AttrObjects |-> "clean"]
    /\ created = NoThread /\ wild = {}

HasReal(o) == real_ptr[o] \in AttrBlocks /\ attrs[real_ptr[o]] # "free"

\* _attr_t_static_init, then a real function that sets the state, or leaves it.
attr_static_init(o, state) ==
    \/ /\ ~magic[o]
       /\ \E b \in AttrBlocks :
            /\ attrs[b] = "free"
            /\ magic' = [magic EXCEPT ![o] = TRUE]
            /\ real_ptr' = [real_ptr EXCEPT ![o] = b]
            /\ attrs' = [attrs EXCEPT ![b] = IF state = "as is" THEN "joinable" ELSE state]
       /\ UNCHANGED wild
    \/ /\ magic[o] /\ HasReal(o)
       /\ attrs' = IF state = "as is" THEN attrs
                   ELSE [attrs EXCEPT ![real_ptr[o]] = state]
       /\ UNCHANGED <<magic, real_ptr, wild>>
    \/ /\ magic[o] /\ ~HasReal(o)
       /\ wild' = wild \cup {o}
       /\ UNCHANGED <<magic, real_ptr, attrs>>

\* On a marker nothing is made, and no real function is called.
attr_init(o) ==
    /\ asked[o] = "over"
    /\ IF magic[o] THEN UNCHANGED <<magic, real_ptr, attrs, wild>>
       ELSE attr_static_init(o, "as is")
    /\ asked' = [asked EXCEPT ![o] = "joinable"]
    /\ UNCHANGED <<past, created>>

attr_setdetachstate(o) ==
    /\ asked[o] # "over"
    /\ \E state \in DetachStates :
        attr_static_init(o, state) /\ asked' = [asked EXCEPT ![o] = state]
    /\ UNCHANGED <<past, created>>

attr_setstacksize(o) ==
    /\ asked[o] # "over"
    /\ attr_static_init(o, "as is")
    /\ UNCHANGED <<asked, past, created>>

\* Mutant: the marker stays.
attr_destroy_KeepsMarker(o) ==
    /\ IF ~magic[o] THEN UNCHANGED <<attrs, wild>>
       ELSE IF HasReal(o) THEN attrs' = [attrs EXCEPT ![real_ptr[o]] = "free"] /\ UNCHANGED wild
       ELSE wild' = wild \cup {o} /\ UNCHANGED attrs
    /\ asked' = [asked EXCEPT ![o] = "over"] /\ past' = [past EXCEPT ![o] = "clean"]
    /\ UNCHANGED <<magic, real_ptr, created>>

\* Of one that is destroyed already, too.
attr_destroy(o) ==
    /\ \/ /\ ~magic[o]
          /\ UNCHANGED <<magic, attrs, past, wild>>
       \/ /\ magic[o] /\ HasReal(o)
          /\ attrs' = [attrs EXCEPT ![real_ptr[o]] = "free"]
          /\ magic' = [magic EXCEPT ![o] = FALSE]
          /\ past' = [past EXCEPT ![o] = "clean"]
          /\ UNCHANGED wild
       \/ /\ magic[o] /\ ~HasReal(o)
          /\ wild' = wild \cup {o}
          /\ UNCHANGED <<magic, attrs, past>>
    /\ asked' = [asked EXCEPT ![o] = "over"]
    /\ UNCHANGED <<real_ptr, created>>

\* The memory is used for something else without a destroy, which may overwrite
\* either word or both.
Forget(o) ==
    /\ asked[o] # "over"
    /\ asked' = [asked EXCEPT ![o] = "over"]
    /\ magic' \in {magic, [magic EXCEPT ![o] = FALSE]}
    /\ real_ptr' \in {real_ptr, [real_ptr EXCEPT ![o] = NoBlock]}
    /\ past' = [past EXCEPT ![o] = IF ~magic'[o] THEN "clean"
                                   ELSE IF past[o] = "torn" \/ real_ptr'[o] # real_ptr[o]
                                        THEN "torn" ELSE "kept"]
    /\ UNCHANGED <<attrs, created, wild>>

\* With an attribute.  The size of the stack is always 512 KiB.
pthread_create(o) ==
    /\ asked[o] # "over"
    /\ attr_static_init(o, "as is")
    /\ created' = IF wild' # wild THEN created
                  ELSE [state |-> attrs'[real_ptr'[o]],
                        asked |-> IF past[o] = "clean" THEN asked[o] ELSE "none"]
    /\ UNCHANGED <<asked, past>>

\* Without one.
pthread_create_plain ==
    /\ created' = [state |-> "joinable", asked |-> "joinable"]
    /\ UNCHANGED <<magic, real_ptr, attrs, asked, past, wild>>

\* What the program does after a wild pointer is anything.
AttrNext ==
    /\ wild = {}
    /\ \/ \E o \in AttrObjects :
              \/ attr_init(o) \/ attr_setdetachstate(o) \/ attr_setstacksize(o)
              \/ attr_destroy(o) \/ Forget(o) \/ pthread_create(o)
       \/ pthread_create_plain

AttrSpec == AttrInit /\ [][AttrNext]_attrVars

-----------------------------------------------------------------------------
(* Property.                                                               *)

\* An attribute of the game stands for a real attribute of its own, which is not
\* freed and no other's, also where an attribute was forgotten before with both its
\* words; in memory that is clean, because an attribute was destroyed there or its
\* marker overwritten, a thread is as the attribute asks.  The marker vouches for a
\* wrong pointer in one case only: the pointer of a forgotten attribute was
\* overwritten and the marker beside it was not.
AttrKept ==
    /\ \A o \in wild : past[o] = "torn"
    /\ \A o \in AttrObjects : asked[o] # "over" /\ past[o] # "torn" =>
           /\ magic[o] /\ HasReal(o)
           /\ \A p \in AttrObjects \ {o} :
                 asked[p] # "over" /\ past[p] # "torn" => real_ptr[p] # real_ptr[o]
    /\ created.asked # "none" => created.state = created.asked
=============================================================================
