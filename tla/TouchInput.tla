----------------------------- MODULE TouchInput -----------------------------
(***************************************************************************)
(* The input half of the main loop (source/main.c) and the hook it ends in *)
(* (handleTouchesMove, source/patch.c).  Every frame samples the pad and   *)
(* the front panel and turns both into touch events of the game: a button  *)
(* is a pointer of its own at a fixed place, the finger reported i-th is   *)
(* pointer i.                                                              *)
(*                                                                         *)
(* A Move event reaches the game through the hook, which passes on neither *)
(* the pointer nor the place it was called with, but move_id and move_data *)
(* as the finger loop last set them.                                       *)
(*                                                                         *)
(* External: the game's table of pointers (`held'), in which a Move of a   *)
(* pointer that is not down is ignored.                                    *)
(***************************************************************************)
EXTENDS Naturals, Sequences

CONSTANTS Buttons,   \* the buttons that act as pointers, as their ids 16..18
          Place,     \* Place[b]: where the pointer of a button is
          Spots,     \* places a finger can be
          Origin,    \* the place (0, 0) that move_data starts with
          MaxReport  \* SCE_TOUCH_MAX_REPORT

ASSUME PointersAssumption ==
    /\ MaxReport \in Nat \ {0}
    /\ Buttons \subseteq Nat /\ Buttons # {} /\ Buttons \cap (0..MaxReport - 1) = {}

VARIABLES
    at,        \* what the loop does next, and for which button or slot
    pad,       \* pad.buttons: the pointer buttons that are down
    touch,     \* touch.report: where the fingers are
    oldpad,    \* pad.buttons of the frame before
    last,      \* lastX, lastY: per slot, Up for (-1, -1)
    dummy,     \* x_dummy, y_dummy
    move_id, move_data,
    held,      \* external: where the game believes each pointer is
    unpaired   \* history: a Begin of a pointer that is down, or an End of
               \* one that is not

input  == <<pad, touch>>
move   == <<move_id, move_data>>
game   == <<held, unpaired>>
vars   == <<at, input, oldpad, last, dummy, move, game>>

Slots     == 0..MaxReport - 1
Pointers  == Buttons \cup Slots
Places    == Spots \cup {Place[b] : b \in Buttons}
Up        == "up"
Sampling  == <<"sample", 0>>
Keying    == <<"keys", 0>>
Rendering == <<"render", 0>>
FirstOf(S) == CHOOSE x \in S : \A y \in S : x <= y

\* A place is on the screen, where (-1, -1) is not.
ASSUME PlacesAssumption == Up \notin Places \cup {Origin}

TypeOK ==
    /\ at \in {<<"button", b>> : b \in Buttons} \cup
              {<<"slot", i>> : i \in Slots} \cup {Sampling, Keying, Rendering}
    /\ pad \subseteq Buttons
    /\ touch \in UNION {[1..n -> Spots] : n \in 0..MaxReport}
    /\ oldpad \subseteq Buttons
    /\ last \in [Slots -> Spots \cup {Up}]
    /\ dummy \in Places \cup {Origin}
    /\ move_id \in Slots
    /\ move_data \in Spots \cup {Origin}
    /\ held \in [Pointers -> Places \cup {Origin, Up}]
    /\ unpaired \in BOOLEAN

Init ==
    /\ at = Sampling
    /\ pad = {} /\ touch = <<>>
    /\ oldpad = {}
    /\ last = [i \in Slots |-> Up]
    /\ dummy = Origin
    /\ move_id = 0 /\ move_data = Origin
    /\ held = [p \in Pointers |-> Up]
    /\ unpaired = FALSE

-----------------------------------------------------------------------------
(* The events.                                                             *)

Begin(p, place) ==
    /\ held' = [held EXCEPT ![p] = place]
    /\ unpaired' = (unpaired \/ held[p] # Up)

End(p) ==
    /\ held' = [held EXCEPT ![p] = Up]
    /\ unpaired' = (unpaired \/ held[p] = Up)

\* nativeTouchesMove, with move_id and move_data as the hook finds them.
Move(id, data) ==
    /\ held' = [held EXCEPT ![id] = IF @ = Up THEN Up ELSE data]
    /\ UNCHANGED unpaired

-----------------------------------------------------------------------------
(* The loop.                                                               *)

Sample ==
    /\ at = Sampling
    /\ pad' \in SUBSET Buttons
    /\ touch' \in UNION {[1..n -> Spots] : n \in 0..MaxReport}
    /\ at' = <<"button", FirstOf(Buttons)>>
    /\ UNCHANGED <<oldpad, last, dummy, move, game>>

\* One of the three blocks, in the order LEFT, RIGHT, CROSS.
Button(b) ==
    /\ at = <<"button", b>>
    /\ dummy' = IF b \in pad THEN Place[b] ELSE dummy
    /\ \/ b \in pad /\ b \in oldpad /\ Move(move_id, move_data)
       \/ b \in pad /\ b \notin oldpad /\ Begin(b, dummy')
       \/ b \notin pad /\ b \in oldpad /\ End(b)
       \/ b \notin pad /\ b \notin oldpad /\ UNCHANGED game
    /\ at' = LET later == {c \in Buttons : c > b}
             IN  IF later = {} THEN Keying ELSE <<"button", FirstOf(later)>>
    /\ UNCHANGED <<input, oldpad, last, move>>

\* Mutant: oldpad only ever collects.
Keys_Collects ==
    /\ at = Keying
    /\ oldpad' = oldpad \cup pad
    /\ at' = <<"slot", 0>>
    /\ UNCHANGED <<input, last, dummy, move, game>>

\* CIRCLE and START send a back key (no pointer); then oldpad = pad.buttons.
Keys ==
    /\ at = Keying
    /\ oldpad' = pad
    /\ at' = <<"slot", 0>>
    /\ UNCHANGED <<input, last, dummy, move, game>>

\* Mutant: the event is sent before move_data is updated.
SlotDown_Late(i, spot) ==
    /\ IF last[i] = Up
       THEN Begin(i, spot) /\ UNCHANGED move
       ELSE /\ move_id' = i /\ move_data' = spot
            /\ Move(move_id, move_data)
    /\ last' = [last EXCEPT ![i] = spot]

SlotDown(i, spot) ==
    /\ IF last[i] = Up
       THEN Begin(i, spot) /\ UNCHANGED move
       ELSE /\ move_id' = i /\ move_data' = spot
            /\ Move(i, spot)
    /\ last' = [last EXCEPT ![i] = spot]

SlotUp(i) ==
    /\ IF last[i] = Up THEN UNCHANGED game ELSE End(i)
    /\ last' = [last EXCEPT ![i] = Up]
    /\ UNCHANGED move

Slot(i) ==
    /\ at = <<"slot", i>>
    /\ IF i < Len(touch) THEN SlotDown(i, touch[i + 1]) ELSE SlotUp(i)
    /\ at' = IF i + 1 \in Slots THEN <<"slot", i + 1>> ELSE Rendering
    /\ UNCHANGED <<input, oldpad, dummy>>

Render ==
    /\ at = Rendering
    /\ at' = Sampling
    /\ UNCHANGED <<input, oldpad, last, dummy, move, game>>

Next == \/ Sample \/ Keys \/ Render
        \/ \E b \in Buttons : Button(b)
        \/ \E i \in Slots : Slot(i)

Spec == Init /\ [][Next]_vars

-----------------------------------------------------------------------------
(* Properties.                                                             *)

\* Over any sequence of frames the game sees Begin and End of every pointer
\* strictly in turn, and when a frame is rendered exactly the buttons and
\* fingers that are down are down for the game: none sticks, none is lost.
PointersPaired ==
    /\ ~unpaired
    /\ at = Rendering =>
        \A p \in Pointers : held[p] # Up <=> p \in pad \/ (p \in Slots /\ p < Len(touch))

\* When a frame is rendered every pointer is where its button or its finger
\* is, although every Move, a button's too, goes out with the place and
\* pointer of whichever finger moved last.
PositionsFresh ==
    at = Rendering =>
        /\ \A b \in pad : held[b] = Place[b]
        /\ \A i \in Slots : i < Len(touch) => held[i] = touch[i + 1]

\* However long the game is played, its pointers are those of the panel and pad.
InputInv == TypeOK /\ PointersPaired
=============================================================================
