-------------------------- MODULE FrameLoopProofs ---------------------------
(***************************************************************************)
(* The frame: for any buttons, places and number of fingers, that the game *)
(* sees every pointer begin and end in turn and rendered where it is; for  *)
(* any texts, that a field holds what the keyboard confirmed; for any      *)
(* shaders and sources, that a shader runs its own; for any songs, offsets *)
(* and width of the position, that a song plays at once and within itself. *)
(***************************************************************************)
EXTENDS FrameLoop, Graphics, Music, SequenceTheorems, FiniteSetTheorems,
        WellFoundedInduction, TLAPS

-----------------------------------------------------------------------------
(* The input half of the loop.                                             *)

\* A set of buttons has a first one.
LEMMA FirstButton ==
    ASSUME NEW S, S \subseteq Buttons, S # {}
    PROVE  FirstOf(S) \in S /\ \A b \in S : FirstOf(S) <= b
<1> DEFINE R == OpToRel(<, Nat)
<1>1. S \subseteq Nat
  BY PointersAssumption
<1>2. \A x, y \in Nat : <<x, y>> \in R <=> x < y
  BY DEF OpToRel
<1>3. IsWellFoundedOn(R, Nat)
  BY NatLessThanWellFounded
<1> HIDE DEF R
<1>4. \E x \in S : \A y \in S : ~ (<<y, x>> \in R)
  BY <1>1, <1>3, WFMin, Zenon
<1>5. PICK x \in S : \A y \in S : ~ (<<y, x>> \in R)
  BY <1>4
<1>6. \A y \in S : ~(y < x)
  BY <1>1, <1>2, <1>5, Zenon
<1>7. \A y \in S : x <= y
  BY <1>1, <1>6
<1> QED BY <1>7 DEF FirstOf

\* Whether this frame has looked at a button, at a finger, already.
ButtonSeen(b) == at = Keying \/ \E c \in Buttons : at = <<"button", c>> /\ b < c
SlotSeen(i)   == at = Rendering \/ \E j \in Slots : at = <<"slot", j>> /\ i < j

\* The game holds the buttons of this frame, or still those of the last.
ButtonsHeld ==
    \A b \in Buttons :
        held[b] = IF b \in (IF ButtonSeen(b) THEN pad ELSE oldpad) THEN Place[b] ELSE Up

\* A finger is down for the game when it was down in its slot, though perhaps
\* where a button's Move has put it; once seen it is where it is.
SlotsHeld ==
    \A i \in Slots :
        /\ held[i] = Up <=> last[i] = Up
        /\ SlotSeen(i) => held[i] = IF i < Len(touch) THEN touch[i + 1] ELSE Up

\* oldpad is behind pad only while the buttons are looked at.
PadKept == at \in {Sampling, Rendering} \cup {<<"slot", i>> : i \in Slots} => oldpad = pad

PointersInv == TypeOK /\ ~unpaired /\ ButtonsHeld /\ SlotsHeld /\ PadKept

\* Pointers of buttons and of fingers are never the same.
LEMMA PointersApart ==
    /\ Buttons \subseteq Nat /\ Slots \subseteq Nat /\ Buttons \cap Slots = {}
    /\ 0 \in Slots /\ MaxReport \in Nat /\ MaxReport >= 1
    /\ Up \notin Spots /\ Origin # Up /\ \A b \in Buttons : Place[b] \in Places /\ Place[b] # Up
BY PointersAssumption, PlacesAssumption DEF Slots, Places

\* The report has a length, and its places are spots.
LEMMA ReportType ==
    ASSUME TypeOK
    PROVE  Len(touch) \in Nat /\ \A i \in Slots : i < Len(touch) => touch[i + 1] \in Spots
<1>1. PICK n \in 0..MaxReport : touch \in [1..n -> Spots]
  BY DEF TypeOK
<1>2. n \in Nat
  BY <1>1, PointersApart
<1>3. touch \in Seq(Spots)
  BY <1>1, <1>2, SeqDef
<1>4. Len(touch) \in Nat /\ touch \in [1..Len(touch) -> Spots]
  BY <1>3, LenProperties
<1>5. ASSUME NEW i \in Slots, i < Len(touch) PROVE i + 1 \in 1..Len(touch)
  BY <1>4, <1>5, PointersApart
<1> QED BY <1>4, <1>5

\* Where the loop is says which places it is not at.
LEMMA Apart ==
    ASSUME NEW i, NEW j
    PROVE  /\ <<"button", i>> # <<"slot", j>>
           /\ <<"button", i>> \notin {Sampling, Keying, Rendering}
           /\ <<"slot", i>> \notin {Sampling, Keying, Rendering}
           /\ Sampling # Keying /\ Sampling # Rendering /\ Keying # Rendering
           /\ <<"button", i>> = <<"button", j>> => i = j
           /\ <<"slot", i>> = <<"slot", j>> => i = j
BY DEF Sampling, Keying, Rendering

\* A step that sends nothing, and after which the loop is neither among the buttons
\* nor at a finger it has not already been.
LEMMA QuietStep ==
    ASSUME PointersInv, TypeOK', UNCHANGED <<held, unpaired, last>>, PadKept',
           ButtonsHeld', \A i \in Slots : ~SlotSeen(i)' \/ (SlotSeen(i) /\ touch' = touch)
    PROVE  PointersInv'
BY DEF PointersInv, SlotsHeld

LEMMA PointersSample ==
    ASSUME PointersInv, Sample
    PROVE  PointersInv'
<1> USE DEF PointersInv
<1>1. /\ at = Sampling /\ at' = <<"button", FirstOf(Buttons)>>
      /\ UNCHANGED <<oldpad, last, dummy, move_id, move_data, held, unpaired>>
  BY DEF Sample, move, game
<1>2. FirstOf(Buttons) \in Buttons /\ \A b \in Buttons : FirstOf(Buttons) <= b
  BY FirstButton, PointersAssumption
<1>3. TypeOK'
  BY <1>1, <1>2 DEF TypeOK, Sample
<1>4. ASSUME NEW b \in Buttons PROVE ~ButtonSeen(b) /\ ~ButtonSeen(b)'
  <2>1. ~ButtonSeen(b)
    BY <1>1, Apart DEF ButtonSeen
  <2>2. ~(b < FirstOf(Buttons))
    <3>1. b \in Nat /\ FirstOf(Buttons) \in Nat
      BY <1>2, PointersApart
    <3>2. FirstOf(Buttons) <= b
      BY <1>2
    <3> HIDE DEF FirstOf
    <3> QED BY <3>1, <3>2
  <2>3. \A c : at' = <<"button", c>> => c = FirstOf(Buttons)
    BY <1>1, Apart
  <2> QED BY <1>1, <2>1, <2>2, <2>3, Apart DEF ButtonSeen
<1>5. ButtonsHeld'
  BY <1>1, <1>4 DEF ButtonsHeld
<1>6. PadKept'
  BY <1>1, Apart DEF PadKept
<1>7. \A i \in Slots : ~SlotSeen(i)'
  BY <1>1, Apart DEF SlotSeen
<1> QED BY <1>1, <1>3, <1>5, <1>6, <1>7, QuietStep

LEMMA PointersKeys ==
    ASSUME PointersInv, Keys
    PROVE  PointersInv'
<1> USE DEF PointersInv
<1>1. /\ at = Keying /\ at' = <<"slot", 0>> /\ oldpad' = pad
      /\ UNCHANGED <<pad, touch, last, dummy, move_id, move_data, held, unpaired>>
  BY DEF Keys, input, move, game
<1>2. TypeOK'
  BY <1>1, PointersApart DEF TypeOK
<1>3. \A b \in Buttons : ButtonSeen(b) /\ ~ButtonSeen(b)'
  BY <1>1, Apart DEF ButtonSeen
<1>4. ButtonsHeld'
  BY <1>1, <1>3 DEF ButtonsHeld
<1>5. PadKept'
  BY <1>1 DEF PadKept
<1>6. ASSUME NEW i \in Slots PROVE ~SlotSeen(i)'
  <2>1. \A j : at' = <<"slot", j>> => j = 0
    BY <1>1, Apart
  <2> QED BY <1>1, <2>1, PointersApart, Apart DEF SlotSeen
<1> QED BY <1>1, <1>2, <1>4, <1>5, <1>6, QuietStep

LEMMA PointersRender ==
    ASSUME PointersInv, Render
    PROVE  PointersInv'
<1> USE DEF PointersInv
<1>1. /\ at = Rendering /\ at' = Sampling
      /\ UNCHANGED <<pad, touch, oldpad, last, dummy, move_id, move_data, held, unpaired>>
  BY DEF Render, input, move, game
<1>2. TypeOK'
  BY <1>1 DEF TypeOK
<1>3. \A b \in Buttons : ~ButtonSeen(b) /\ ~ButtonSeen(b)'
  BY <1>1, Apart DEF ButtonSeen
<1>4. ButtonsHeld'
  BY <1>1, <1>3 DEF ButtonsHeld
<1>5. PadKept'
  BY <1>1, Apart DEF PadKept
<1>6. \A i \in Slots : ~SlotSeen(i)'
  BY <1>1, Apart DEF SlotSeen
<1> QED BY <1>1, <1>2, <1>4, <1>5, <1>6, QuietStep

\* After a button's block exactly the buttons up to it have been looked at.
LEMMA NextButton ==
    ASSUME PointersInv, NEW b \in Buttons, Button(b)
    PROVE  /\ at' = Keying \/ \E c \in Buttons : at' = <<"button", c>>
           /\ \A c \in Buttons : ButtonSeen(c) <=> c < b
           /\ \A c \in Buttons : ButtonSeen(c)' <=> c =< b
<1> DEFINE later == {c \in Buttons : c > b}
<1>1. at = <<"button", b>>
      /\ at' = IF later = {} THEN Keying ELSE <<"button", FirstOf(later)>>
  BY DEF Button
<1>2. \A c \in Buttons : ButtonSeen(c) <=> c < b
  <2>1. \A d : at = <<"button", d>> => d = b
    BY <1>1, Apart
  <2> QED BY <1>1, <2>1, Apart DEF ButtonSeen
<1>3. CASE later = {}
  <2>1. at' = Keying
    BY <1>1, <1>3
  <2>2. \A c \in Buttons : c =< b
    BY <1>3, PointersApart
  <2> QED BY <1>2, <2>1, <2>2 DEF ButtonSeen
<1>4. CASE later # {}
  <2> DEFINE f == FirstOf(later)
  <2>1. f \in later /\ \A c \in later : f <= c
    BY <1>4, FirstButton
  <2>2. at' = <<"button", f>> /\ f \in Buttons /\ f > b
    BY <1>1, <1>4, <2>1
  <2>3. \A d : at' = <<"button", d>> => d = f
    BY <2>2, Apart
  <2>4. \A c \in Buttons : ~(c =< b) => c \in later
    BY PointersApart
  <2> HIDE DEF later, f
  <2>5. \A c \in Buttons : c < f <=> c =< b
    BY <2>1, <2>2, <2>4, PointersApart
  <2>6. at' # Keying
    BY <2>2, Apart
  <2>7. \A c \in Buttons : ButtonSeen(c)' <=> c < f
    BY <2>2, <2>3, <2>6 DEF ButtonSeen
  <2> QED BY <1>2, <2>2, <2>5, <2>7
<1> QED BY <1>3, <1>4

LEMMA PointersButton ==
    ASSUME PointersInv, NEW b \in Buttons, Button(b)
    PROVE  PointersInv'
<1> USE DEF PointersInv
<1>1. /\ at = <<"button", b>>
      /\ UNCHANGED <<pad, touch, oldpad, last, move_id, move_data>>
      /\ dummy' = IF b \in pad THEN Place[b] ELSE dummy
  BY DEF Button, input, move
<1>2. /\ at' = Keying \/ \E c \in Buttons : at' = <<"button", c>>
      /\ \A c \in Buttons : ButtonSeen(c) <=> c < b
      /\ \A c \in Buttons : ButtonSeen(c)' <=> c =< b
  BY NextButton
<1>3. /\ held \in [Pointers -> Places \cup {Origin, Up}] /\ b \in Pointers /\ b \notin Slots
      /\ move_id \in Slots /\ move_id \notin Buttons /\ move_id \in Pointers
      /\ move_data \in Places \cup {Origin} /\ move_data # Up
  BY PointersApart DEF TypeOK, Pointers, Places
<1>4. ~ButtonSeen(b) /\ held[b] = IF b \in oldpad THEN Place[b] ELSE Up
  BY <1>2, PointersApart DEF ButtonsHeld
\* What the block does to the game's table.
<1>5. /\ held' \in [Pointers -> Places \cup {Origin, Up}]
      /\ unpaired' = FALSE
      /\ held'[b] = IF b \in pad THEN Place[b] ELSE Up
      /\ \A c \in Buttons \ {b} : held'[c] = held[c]
      /\ \A i \in Slots : held'[i] = Up <=> held[i] = Up
  <2>1. CASE b \in pad /\ b \in oldpad /\ Move(move_id, move_data)
    <3>1. /\ held' = [held EXCEPT ![move_id] = IF held[move_id] = Up THEN Up ELSE move_data]
          /\ unpaired' = unpaired
      BY <2>1 DEF Move
    <3> DEFINE place == IF held[move_id] = Up THEN Up ELSE move_data
    <3>2. place \in Places \cup {Origin, Up} /\ (place = Up <=> held[move_id] = Up)
      BY <1>3
    <3>3. held' = [held EXCEPT ![move_id] = place]
      BY <3>1
    <3> HIDE DEF place
    <3>4. /\ held' \in [Pointers -> Places \cup {Origin, Up}]
          /\ held'[move_id] = place
          /\ \A p \in Pointers \ {move_id} : held'[p] = held[p]
      BY <1>3, <3>2, <3>3
    <3>5. \A i \in Slots : held'[i] = Up <=> held[i] = Up
      BY <3>2, <3>4 DEF Pointers
    <3>6. \A c \in Buttons : held'[c] = held[c]
      BY <1>3, <3>4 DEF Pointers
    <3> QED BY <1>4, <2>1, <3>1, <3>4, <3>5, <3>6
  <2>2. CASE b \in pad /\ b \notin oldpad /\ Begin(b, dummy')
    <3>1. held' = [held EXCEPT ![b] = Place[b]] /\ unpaired' = (unpaired \/ held[b] # Up)
      BY <1>1, <2>2 DEF Begin
    <3>2. held[b] = Up /\ Place[b] \in Places
      BY <1>4, <2>2, PointersApart
    <3>3. unpaired' = FALSE
      BY <3>1, <3>2
    <3> QED BY <1>3, <2>2, <3>1, <3>2, <3>3 DEF Pointers
  <2>3. CASE b \notin pad /\ b \in oldpad /\ End(b)
    <3>1. held' = [held EXCEPT ![b] = Up] /\ unpaired' = (unpaired \/ held[b] = Up)
      BY <2>3 DEF End
    <3>2. held[b] # Up
      BY <1>4, <2>3, PointersApart
    <3>3. unpaired' = FALSE
      BY <3>1, <3>2
    <3> QED BY <1>3, <2>3, <3>1, <3>3 DEF Pointers
  <2>4. CASE b \notin pad /\ b \notin oldpad /\ UNCHANGED game
    BY <1>3, <1>4, <2>4 DEF game
  <2> QED BY <2>1, <2>2, <2>3, <2>4 DEF Button
<1>6. TypeOK'
  <2>1. dummy' \in Places \cup {Origin}
    BY <1>1, PointersApart DEF TypeOK
  <2>2. at' \in {<<"button", c>> : c \in Buttons} \cup {Keying}
    BY <1>2
  <2> QED BY <1>1, <1>5, <2>1, <2>2 DEF TypeOK
<1>7. ASSUME NEW c \in Buttons
      PROVE  held'[c] = IF c \in (IF ButtonSeen(c)' THEN pad ELSE oldpad) THEN Place[c] ELSE Up
  <2>1. CASE c = b
    <3>1. ButtonSeen(c)'
      BY <1>2, <2>1, PointersApart
    <3> QED BY <1>5, <2>1, <3>1
  <2>2. CASE c # b
    <3>1. ButtonSeen(c)' <=> ButtonSeen(c)
      BY <1>2, <2>2, PointersApart
    <3>2. held'[c] = held[c]
      BY <1>5, <2>2
    <3> QED BY <3>1, <3>2 DEF ButtonsHeld
  <2> QED BY <2>1, <2>2
<1>8. ButtonsHeld'
  BY <1>1, <1>7 DEF ButtonsHeld
<1>9. PadKept'
  BY <1>2, Apart DEF PadKept
<1>10. \A i \in Slots : ~SlotSeen(i)'
  BY <1>2, Apart DEF SlotSeen
<1>11. SlotsHeld'
  BY <1>1, <1>5, <1>10 DEF SlotsHeld
<1> QED BY <1>5, <1>6, <1>8, <1>9, <1>11

\* After a finger's turn exactly the fingers up to it have been looked at.
LEMMA NextSlot ==
    ASSUME NEW i \in Slots, Slot(i)
    PROVE  /\ at' \in {<<"slot", j>> : j \in Slots} \cup {Rendering}
           /\ \A j \in Slots : SlotSeen(j) <=> j < i
           /\ \A j \in Slots : SlotSeen(j)' <=> j =< i
<1>1. at = <<"slot", i>> /\ at' = IF i + 1 \in Slots THEN <<"slot", i + 1>> ELSE Rendering
  BY DEF Slot
<1>2. \A j \in Slots : SlotSeen(j) <=> j < i
  <2>1. \A k : at = <<"slot", k>> => k = i
    BY <1>1, Apart
  <2> QED BY <1>1, <2>1, Apart DEF SlotSeen
<1>3. CASE i + 1 \in Slots
  <2>1. \A k : at' = <<"slot", k>> => k = i + 1
    BY <1>1, <1>3, Apart
  <2>2. \A j \in Slots : j < i + 1 <=> j =< i
    BY PointersApart
  <2>3. at' = <<"slot", i + 1>> /\ at' # Rendering
    BY <1>1, <1>3, Apart
  <2>4. \A j \in Slots : SlotSeen(j)' <=> j < i + 1
    BY <1>3, <2>1, <2>3 DEF SlotSeen
  <2> QED BY <1>2, <1>3, <2>2, <2>3, <2>4
<1>4. CASE i + 1 \notin Slots
  <2>1. at' = Rendering
    BY <1>1, <1>4
  <2>2. \A j \in Slots : j =< i
    BY <1>4, PointersApart DEF Slots
  <2> QED BY <1>2, <2>1, <2>2 DEF SlotSeen
<1> QED BY <1>3, <1>4

LEMMA PointersSlot ==
    ASSUME PointersInv, NEW i \in Slots, Slot(i)
    PROVE  PointersInv'
<1> USE DEF PointersInv
<1>1. at = <<"slot", i>> /\ UNCHANGED <<pad, touch, oldpad, dummy>>
  BY DEF Slot, input
<1>2. /\ at' \in {<<"slot", j>> : j \in Slots} \cup {Rendering}
      /\ \A j \in Slots : SlotSeen(j) <=> j < i
      /\ \A j \in Slots : SlotSeen(j)' <=> j =< i
  BY NextSlot
<1>3. /\ held \in [Pointers -> Places \cup {Origin, Up}] /\ i \in Pointers /\ i \notin Buttons
      /\ last \in [Slots -> Spots \cup {Up}] /\ (held[i] = Up <=> last[i] = Up)
  BY PointersApart DEF TypeOK, Pointers, SlotsHeld
<1> DEFINE place == IF i < Len(touch) THEN touch[i + 1] ELSE Up
<1>4. place \in Spots \cup {Up} /\ place \in Places \cup {Origin, Up}
  BY ReportType DEF Places
\* The finger's pointer and its slot agree again, wherever it had been put.
<1>5. /\ held' = [held EXCEPT ![i] = place] /\ last' = [last EXCEPT ![i] = place]
      /\ unpaired' = FALSE /\ move_id' \in Slots /\ move_data' \in Spots \cup {Origin}
  <2>1. CASE i < Len(touch) /\ last[i] = Up
    <3>1. Begin(i, touch[i + 1]) /\ UNCHANGED move /\ last' = [last EXCEPT ![i] = touch[i + 1]]
      BY <2>1 DEF Slot, SlotDown
    <3>2. unpaired' = FALSE
      BY <1>3, <2>1, <3>1 DEF Begin
    <3> QED BY <2>1, <3>1, <3>2 DEF Begin, move, TypeOK
  <2>2. CASE i < Len(touch) /\ last[i] # Up
    <3>1. /\ move_id' = i /\ move_data' = touch[i + 1] /\ Move(i, touch[i + 1])
          /\ last' = [last EXCEPT ![i] = touch[i + 1]]
      BY <2>2 DEF Slot, SlotDown
    <3>2. touch[i + 1] \in Spots
      BY <2>2, ReportType
    <3>3. held[i] # Up
      BY <1>3, <2>2
    <3>4. held' = [held EXCEPT ![i] = touch[i + 1]] /\ unpaired' = unpaired
      BY <3>1, <3>3 DEF Move
    <3> QED BY <2>2, <3>1, <3>2, <3>4
  <2>3. CASE ~(i < Len(touch))
    <3>1. SlotUp(i)
      BY <2>3 DEF Slot
    <3>2. place = Up /\ last' = [last EXCEPT ![i] = Up] /\ UNCHANGED move
      BY <2>3, <3>1 DEF SlotUp
    <3>3. CASE last[i] = Up
      <4>1. UNCHANGED game
        BY <3>1, <3>3 DEF SlotUp
      <4>2. held = [held EXCEPT ![i] = Up]
        BY <1>3, <3>3
      <4> QED BY <3>2, <4>1, <4>2 DEF game, move, TypeOK
    <3>4. CASE last[i] # Up
      <4>1. End(i)
        BY <3>1, <3>4 DEF SlotUp
      <4>2. unpaired' = FALSE
        BY <1>3, <3>4, <4>1 DEF End
      <4> QED BY <3>2, <4>1, <4>2 DEF End, move, TypeOK
    <3> QED BY <3>3, <3>4
  <2> QED BY <2>1, <2>2, <2>3
<1> HIDE DEF place
<1>6. /\ held' \in [Pointers -> Places \cup {Origin, Up}] /\ held'[i] = place
      /\ last' \in [Slots -> Spots \cup {Up}] /\ last'[i] = place
      /\ \A p \in Pointers \ {i} : held'[p] = held[p]
      /\ \A j \in Slots \ {i} : last'[j] = last[j]
  BY <1>3, <1>4, <1>5
<1>7. TypeOK'
  BY <1>1, <1>2, <1>5, <1>6 DEF TypeOK
<1>8. ASSUME NEW b \in Buttons PROVE ~ButtonSeen(b) /\ ~ButtonSeen(b)' /\ held'[b] = held[b]
  BY <1>1, <1>2, <1>3, <1>6, Apart DEF ButtonSeen, Pointers
<1>9. ButtonsHeld'
  BY <1>1, <1>8 DEF ButtonsHeld
<1>10. PadKept'
  <2>1. oldpad = pad
    BY <1>1 DEF PadKept
  <2> QED BY <1>1, <2>1 DEF PadKept
<1>11. ASSUME NEW j \in Slots
       PROVE  /\ held'[j] = Up <=> last'[j] = Up
              /\ SlotSeen(j)' => held'[j] = IF j < Len(touch) THEN touch[j + 1] ELSE Up
  <2>1. CASE j = i
    BY <1>6, <2>1 DEF place
  <2>2. CASE j # i
    <3>1. held'[j] = held[j] /\ last'[j] = last[j]
      BY <1>6, <2>2 DEF Pointers
    <3>2. SlotSeen(j)' => SlotSeen(j)
      BY <1>2, <2>2, PointersApart
    <3> QED BY <3>1, <3>2 DEF SlotsHeld
  <2> QED BY <2>1, <2>2
<1>12. SlotsHeld'
  BY <1>1, <1>11 DEF SlotsHeld
<1> QED BY <1>5, <1>7, <1>9, <1>10, <1>12

LEMMA PointersStart == Init => PointersInv
<1> SUFFICES ASSUME Init PROVE PointersInv
  OBVIOUS
<1> USE DEF Init
<1>1. TypeOK
  <2>1. touch \in [1..0 -> Spots] /\ 0 \in 0..MaxReport
    BY PointersApart
  <2>2. move_id \in Slots /\ last \in [Slots -> Spots \cup {Up}]
        /\ held \in [Pointers -> Places \cup {Origin, Up}]
    BY PointersApart
  <2> QED BY <2>1, <2>2 DEF TypeOK
<1>2. \A b \in Buttons : ~ButtonSeen(b)
  BY Apart DEF ButtonSeen
<1>3. \A i \in Slots : ~SlotSeen(i)
  BY Apart DEF SlotSeen
<1> QED BY <1>1, <1>2, <1>3 DEF PointersInv, ButtonsHeld, SlotsHeld, PadKept, Pointers

LEMMA PointersUnchanged ==
    ASSUME PointersInv, UNCHANGED vars
    PROVE  PointersInv'
BY DEF vars, input, move, game, PointersInv, TypeOK, ButtonsHeld, SlotsHeld, PadKept, ButtonSeen,
       SlotSeen

\* The loop with the keyboard in it is the loop: while the keyboard is open it
\* samples nothing.
LEMMA LoopIsInput == LoopSpec => Spec
<1>1. LoopInit => Init
  BY DEF LoopInit
<1>2. [LoopNext]_<<vars, keyboard>> => [Next]_vars
  BY DEF LoopNext, Frame, Edit, Poll
<1> QED BY <1>1, <1>2, PTL DEF LoopSpec, Spec

\* Where the pointers are at every point of a frame, however many buttons there are
\* and however many fingers the panel reports.
THEOREM PointersHold == LoopSpec => []PointersInv
<1>1. PointersInv /\ [Next]_vars => PointersInv'
  BY PointersSample, PointersKeys, PointersRender, PointersButton, PointersSlot,
     PointersUnchanged DEF Next
<1> QED BY <1>1, PointersStart, LoopIsInput, PTL DEF Spec

\* A frame is rendered with every button and finger looked at.
LEMMA AtRender ==
    ASSUME PointersInv, at = Rendering
    PROVE  /\ \A b \in Buttons : held[b] = IF b \in pad THEN Place[b] ELSE Up
           /\ \A i \in Slots : held[i] = IF i < Len(touch) THEN touch[i + 1] ELSE Up
<1>1. \A b \in Buttons : ~ButtonSeen(b)
  BY Apart DEF ButtonSeen
<1>2. oldpad = pad
  BY DEF PointersInv, PadKept
<1>3. \A i \in Slots : SlotSeen(i)
  BY DEF SlotSeen
<1> QED BY <1>1, <1>2, <1>3 DEF PointersInv, ButtonsHeld, SlotsHeld

\* The game sees Begin and End of every pointer in turn, and at every render the
\* pointers that are down are the buttons and fingers that are.
THEOREM PointersAlwaysPaired == LoopSpec => []InputInv
<1>1. PointersInv => InputInv
  <2> SUFFICES ASSUME PointersInv, at = Rendering, NEW p \in Pointers
               PROVE  held[p] # Up <=> p \in pad \/ (p \in Slots /\ p < Len(touch))
    BY DEF PointersInv, InputInv, PointersPaired
  <2>1. CASE p \in Buttons
    <3>1. p \notin Slots
      BY <2>1, PointersApart
    <3> QED BY <2>1, <3>1, AtRender, PointersApart
  <2>2. CASE p \in Slots
    <3>1. p \notin pad
      BY <2>2, PointersApart DEF PointersInv, TypeOK
    <3>2. p < Len(touch) => touch[p + 1] # Up
      BY <2>2, ReportType, PointersApart DEF PointersInv
    <3> QED BY <2>2, <3>1, <3>2, AtRender
  <2> QED BY <2>1, <2>2 DEF Pointers
<1> QED BY <1>1, PointersHold, PTL

\* And each is where its button or its finger is.
THEOREM PointersAlwaysFresh == LoopSpec => []PositionsFresh
<1>1. PointersInv => PositionsFresh
  <2> SUFFICES ASSUME PointersInv, at = Rendering
               PROVE  /\ \A b \in pad : held[b] = Place[b]
                      /\ \A i \in Slots : i < Len(touch) => held[i] = touch[i + 1]
    BY DEF PositionsFresh
  <2>1. pad \subseteq Buttons
    BY DEF PointersInv, TypeOK
  <2> QED BY <2>1, AtRender
<1> QED BY <1>1, PointersHold, PTL

-----------------------------------------------------------------------------
(* Shaders.                                                                *)

GraphicsSpec == GraphicsInit /\ [][GraphicsNext]_grVars

\* What the two globals of the cache say of the shader that was brought last: there
\* is a binary, and nothing is to be compiled; or its text is, into its own file.
Ready(s) ==
    IF skip THEN gxp[given[s]] # None /\ (s \notin spoiled =>
                     holds[s] = Binary(gxp[given[s]]) /\ given[s] \notin torn)
    ELSE holds[s] = Text(given[s]) /\ fname = given[s]

\* As long as the game keeps its habit there is never more than one shader to
\* compile, the globals are about it, and what is written is what was compiled.
OneAtATime == cg /\ orderly =>
    /\ pending = {} \/ \E s \in Shaders : pending = {s} /\ given[s] # None /\ Ready(s)
    /\ pending # {} => writing = None
    /\ writing # None => runs[writing] = fname

\* With the cache no shader is rewritten.
NoneFixed == cg => \A s \in Shaders : holds[s].of # "fixed" /\ runs[s] # "fixed"

\* Without it each shader has its text, and nothing is written.
TextHeld ==
    /\ writing # None => cg /\ fname # None
    /\ ~cg => \A s \in Shaders :
        IF given[s] = None THEN holds[s] = Nothing ELSE holds[s] = Text(FixedOf(given[s]))

GraphicsInv == /\ GraphicsTypeOK /\ CacheHonest /\ RunsItsSource /\ SkipsOnlyItsOwn
               /\ OneAtATime /\ NoneFixed /\ TextHeld

\* What a shader holds is a record of a kind and what it is of.
Held == [kind : {"nothing", "text", "binary"}, of : Sources \cup {None, Broken, "fixed"}]

LEMMA HeldTypes ==
    /\ Nothing \in Held
    /\ \A src \in Sources : /\ Text(src) \in Held /\ Text(FixedOf(src)) \in Held
                            /\ Text(src) # Nothing /\ Text(FixedOf(src)) # Nothing
                            /\ src \notin {None, Broken, "fixed"}
                            /\ FixedOf(src) # Shockwave
                            /\ src # Shockwave => FixedOf(src) = src
    /\ \A v \in Sources \cup {Broken} : Binary(v) \in Held /\ Binary(v) # Nothing
    /\ None # Broken /\ None # "fixed" /\ Broken # "fixed" /\ None \notin Shaders
    /\ \A x : Text(x).of = x /\ Text(x).kind = "text"
              /\ Binary(x).of = x /\ Binary(x).kind = "binary"
BY ShadersAssumption DEF Held, Nothing, Text, Binary, FixedOf, None, Broken

\* A source comes, with the cache.
LEMMA CacheSource ==
    ASSUME GraphicsInv, NEW s \in Shaders, NEW src \in Sources, SourceCached(s, src)
    PROVE  GraphicsInv'
<1> USE DEF GraphicsInv
<1>1. /\ cg /\ writing = None /\ brought < MaxBrought /\ brought' = brought + 1
      /\ given' = [given EXCEPT ![s] = src] /\ orderly' = (orderly /\ pending = {})
      /\ pending' = pending \cup {s}
      /\ UNCHANGED <<cg, glStarts, torn, runs, gxp, writing>>
  BY DEF SourceCached, Bring
<1>2. \/ /\ holds' = [holds EXCEPT ![s] = Text(src)]
         /\ fname' = src /\ spoiled' = spoiled \ {s} /\ UNCHANGED skip
      \/ /\ gxp[src] # None
         /\ \/ /\ holds' = [holds EXCEPT ![s] = Binary(gxp[src])]
               /\ spoiled' = IF src \notin torn THEN spoiled \ {s} ELSE spoiled \cup {s}
            \/ /\ holds' = [holds EXCEPT ![s] = Binary(Broken)]
               /\ spoiled' = spoiled \cup {s}
         /\ skip' = TRUE /\ UNCHANGED fname
  BY DEF SourceCached, LoadShader
<1>3. /\ holds \in [Shaders -> Held] /\ given \in [Shaders -> Sources \cup {None}]
      /\ gxp[src] \in Sources \cup {None, Broken} /\ skip \in BOOLEAN /\ orderly \in BOOLEAN
      /\ spoiled \subseteq Shaders
  BY DEF GraphicsTypeOK, Held
<1>4. PICK h \in Held : /\ holds' = [holds EXCEPT ![s] = h] /\ h.of # "fixed"
                        /\ skip' \in BOOLEAN /\ fname' \in Sources \cup {None}
                        /\ spoiled' \subseteq Shaders
                        /\ \A x \in Shaders \ {s} : x \in spoiled' <=> x \in spoiled
  <2>1. CASE holds' = [holds EXCEPT ![s] = Text(src)] /\ fname' = src /\ spoiled' = spoiled \ {s}
             /\ UNCHANGED skip
    <3>1. Text(src) \in Held /\ Text(src).of # "fixed" /\ spoiled' \subseteq Shaders
      BY <1>3, <2>1, HeldTypes
    <3> QED BY <1>3, <2>1, <3>1 DEF GraphicsTypeOK
  <2>2. ASSUME NEW v \in Sources \cup {Broken}, holds' = [holds EXCEPT ![s] = Binary(v)],
               spoiled' \in {spoiled \ {s}, spoiled \cup {s}}, skip' = TRUE, UNCHANGED fname
        PROVE  \E h \in Held : /\ holds' = [holds EXCEPT ![s] = h] /\ h.of # "fixed"
                               /\ skip' \in BOOLEAN /\ fname' \in Sources \cup {None}
                               /\ spoiled' \subseteq Shaders
                               /\ \A x \in Shaders \ {s} : x \in spoiled' <=> x \in spoiled
    <3>1. Binary(v) \in Held /\ Binary(v).of # "fixed"
      BY HeldTypes
    <3> QED BY <1>3, <2>2, <3>1 DEF GraphicsTypeOK
  <2>3. gxp[src] # None => gxp[src] \in Sources \cup {Broken}
    BY <1>3
  <2> QED BY <1>2, <2>1, <2>2, <2>3
<1>5. orderly' \in BOOLEAN /\ (orderly' => orderly /\ pending = {})
  BY <1>1, <1>3
<1>6. brought' \in 0..MaxBrought
  BY <1>1, ShadersAssumption DEF GraphicsTypeOK
<1>7. GraphicsTypeOK'
  <2>1. holds' \in [Shaders -> Held] /\ given' \in [Shaders -> Sources \cup {None}]
    BY <1>1, <1>3, <1>4
  <2> QED BY <1>1, <1>4, <1>5, <1>6, <2>1 DEF GraphicsTypeOK, Held
<1>8. CacheHonest'
  BY <1>1, <1>5 DEF CacheHonest
<1>9. RunsItsSource'
  <2>1. \A x \in Shaders : x \notin pending' => x # s /\ x \notin pending /\ given'[x] = given[x]
    BY <1>1, <1>3
  <2> QED BY <1>1, <1>4, <1>5, <2>1 DEF RunsItsSource
<1>10. OneAtATime'
  <2> SUFFICES ASSUME orderly' PROVE pending' = {s} /\ given'[s] # None /\ Ready(s)'
    BY <1>1 DEF OneAtATime
  <2>1. pending = {} /\ ~skip
    BY <1>1, <1>5 DEF SkipsOnlyItsOwn
  <2>2. pending' = {s} /\ given'[s] = src /\ src # None
    BY <1>1, <1>3, <2>1, HeldTypes
  <2>3. CASE holds' = [holds EXCEPT ![s] = Text(src)] /\ fname' = src /\ UNCHANGED skip
    <3>1. ~skip' /\ holds'[s] = Text(src) /\ fname' = src
      BY <1>3, <2>1, <2>3
    <3> QED BY <2>2, <3>1 DEF Ready
  <2>4. CASE /\ gxp[src] # None /\ skip' = TRUE
             /\ s \notin spoiled' => holds' = [holds EXCEPT ![s] = Binary(gxp[src])] /\ src \notin torn
    <3>1. skip' /\ gxp' = gxp /\ torn' = torn
          /\ (s \notin spoiled' => holds'[s] = Binary(gxp[src]) /\ src \notin torn)
      BY <1>1, <1>3, <2>4
    <3> QED BY <2>2, <2>4, <3>1 DEF Ready
  <2>5. \/ holds' = [holds EXCEPT ![s] = Text(src)] /\ fname' = src /\ UNCHANGED skip
        \/ /\ gxp[src] # None /\ skip' = TRUE
           /\ s \notin spoiled' => holds' = [holds EXCEPT ![s] = Binary(gxp[src])] /\ src \notin torn
    BY <1>2
  <2> QED BY <2>2, <2>3, <2>4, <2>5
<1>11. SkipsOnlyItsOwn'
  BY <1>1 DEF SkipsOnlyItsOwn
<1>12. NoneFixed' /\ TextHeld'
  BY <1>1, <1>3, <1>4 DEF NoneFixed, TextHeld
<1> QED BY <1>7, <1>8, <1>9, <1>10, <1>11, <1>12

\* A source comes, without the cache.
LEMMA PlainSource ==
    ASSUME GraphicsInv, NEW s \in Shaders, NEW src \in Sources, SourceFixed(s, src)
    PROVE  GraphicsInv'
<1> USE DEF GraphicsInv
<1>1. /\ ~cg /\ writing = None /\ brought < MaxBrought /\ brought' = brought + 1
      /\ given' = [given EXCEPT ![s] = src] /\ orderly' = (orderly /\ pending = {})
      /\ pending' = pending \cup {s} /\ holds' = [holds EXCEPT ![s] = Text(FixedOf(src))]
      /\ UNCHANGED <<cg, glStarts, torn, spoiled, runs, skip, fname, gxp, writing>>
  BY DEF SourceFixed, Bring, cache
<1>2. holds \in [Shaders -> Held] /\ given \in [Shaders -> Sources \cup {None}] /\ orderly \in BOOLEAN
  BY DEF GraphicsTypeOK, Held
<1>3. orderly' \in BOOLEAN /\ (orderly' => orderly)
  BY <1>1, <1>2
<1>4. brought' \in 0..MaxBrought
  BY <1>1, ShadersAssumption DEF GraphicsTypeOK
<1>5. GraphicsTypeOK'
  <2>1. holds' \in [Shaders -> Held] /\ given' \in [Shaders -> Sources \cup {None}]
    BY <1>1, <1>2, HeldTypes
  <2> QED BY <1>1, <1>3, <1>4, <2>1 DEF GraphicsTypeOK, Held
<1>6. CacheHonest'
  BY <1>1, <1>3 DEF CacheHonest
<1>7. RunsItsSource'
  <2>1. \A x \in Shaders : x \notin pending' => x # s /\ x \notin pending /\ given'[x] = given[x]
    BY <1>1, <1>2
  <2> QED BY <1>1, <2>1 DEF RunsItsSource
<1>8. SkipsOnlyItsOwn'
  BY <1>1 DEF GraphicsTypeOK, SkipsOnlyItsOwn
<1>9. TextHeld'
  <2>1. ASSUME NEW x \in Shaders
        PROVE  IF given'[x] = None THEN holds'[x] = Nothing ELSE holds'[x] = Text(FixedOf(given'[x]))
    <3>1. CASE x = s
      BY <1>1, <1>2, <3>1, HeldTypes
    <3>2. CASE x # s
      BY <1>1, <1>2, <3>2 DEF TextHeld
    <3> QED BY <3>1, <3>2
  <2> QED BY <1>1, <2>1 DEF TextHeld
<1> QED BY <1>1, <1>5, <1>6, <1>7, <1>8, <1>9 DEF OneAtATime, NoneFixed

\* Compiling, in the three ways.
LEMMA CachePlain ==
    ASSUME GraphicsInv, NEW s \in Shaders, CompilePlain(s)
    PROVE  GraphicsInv'
<1> USE DEF GraphicsInv
<1>1. /\ ~cg /\ holds[s] # Nothing /\ runs' = [runs EXCEPT ![s] = holds[s].of]
      /\ pending' = pending \ {s} /\ orderly' = (orderly /\ pending = {s})
      /\ UNCHANGED <<cg, glStarts, holds, skip, fname, gxp, writing, given, torn, spoiled, brought>>
  BY DEF CompilePlain, Compiled, cache
<1>2. /\ holds \in [Shaders -> Held] /\ given \in [Shaders -> Sources \cup {None}] /\ orderly \in BOOLEAN
      /\ runs \in [Shaders -> Sources \cup {None, Broken, "fixed"}]
  BY DEF GraphicsTypeOK, Held
<1>3. orderly' \in BOOLEAN /\ (orderly' => orderly)
  BY <1>1, <1>2
<1>4. given[s] \in Sources /\ holds[s] = Text(FixedOf(given[s]))
  BY <1>1, <1>2 DEF TextHeld
<1>5. holds[s].of = FixedOf(given[s]) /\ FixedOf(given[s]) \in Sources \cup {"fixed"}
  BY <1>4, HeldTypes DEF FixedOf
<1>6. GraphicsTypeOK'
  <2>1. runs' \in [Shaders -> Sources \cup {None, Broken, "fixed"}]
    BY <1>1, <1>2, <1>5
  <2> QED BY <1>1, <1>3, <2>1 DEF GraphicsTypeOK
<1>7. CacheHonest'
  BY <1>1, <1>3 DEF CacheHonest
<1>8. RunsItsSource'
  <2>1. ASSUME NEW x \in Shaders, given[x] # None, x \notin pending'
        PROVE  /\ runs'[x] # Shockwave
               /\ given[x] # Shockwave => runs'[x] = given[x]
    <3>1. CASE x = s
      BY <1>1, <1>2, <1>4, <1>5, <3>1, HeldTypes
    <3>2. CASE x # s
      <4>1. x \notin pending /\ runs'[x] = runs[x]
        BY <1>1, <1>2, <2>1, <3>2
      <4> QED BY <1>1, <2>1, <4>1 DEF RunsItsSource
    <3> QED BY <3>1, <3>2
  <2> QED BY <1>1, <2>1 DEF RunsItsSource
<1>9. SkipsOnlyItsOwn'
  BY <1>1 DEF GraphicsTypeOK, SkipsOnlyItsOwn
<1> QED BY <1>1, <1>6, <1>7, <1>8, <1>9 DEF OneAtATime, NoneFixed, TextHeld

\* In an orderly life the shader compiled is the one there is to compile.
LEMMA CompiledIsLast ==
    ASSUME GraphicsInv, cg, orderly, NEW s \in Shaders, pending = {s}
    PROVE  given[s] \in Sources /\ Ready(s) /\ writing = None
<1>1. PICK x \in Shaders : pending = {x} /\ given[x] # None /\ Ready(x)
  BY DEF GraphicsInv, OneAtATime
<1> QED BY <1>1 DEF GraphicsInv, OneAtATime, GraphicsTypeOK

LEMMA CacheSkipped ==
    ASSUME GraphicsInv, NEW s \in Shaders, CompileSkipped(s)
    PROVE  GraphicsInv'
<1> USE DEF GraphicsInv
<1> DEFINE r == IF holds[s].kind = "binary" THEN holds[s].of ELSE None
<1>1. /\ cg /\ skip /\ writing = None /\ runs' = [runs EXCEPT ![s] = r] /\ skip' = FALSE
      /\ pending' = pending \ {s} /\ orderly' = (orderly /\ pending = {s})
      /\ UNCHANGED <<cg, glStarts, holds, fname, gxp, writing, given, torn, spoiled, brought>>
  BY DEF CompileSkipped, Compiled
<1>2. /\ holds \in [Shaders -> Held] /\ given \in [Shaders -> Sources \cup {None}] /\ orderly \in BOOLEAN
      /\ runs \in [Shaders -> Sources \cup {None, Broken, "fixed"}]
      /\ gxp \in [Sources -> Sources \cup {None, Broken}]
  BY DEF GraphicsTypeOK, Held
<1>3. orderly' \in BOOLEAN /\ (orderly' => orderly /\ pending = {s})
  BY <1>1, <1>2
<1>4. r \in Sources \cup {None, Broken} /\ r # "fixed"
  <2>1. holds[s].of \in Sources \cup {None, Broken, "fixed"} /\ holds[s].of # "fixed"
    BY <1>1, <1>2 DEF Held, NoneFixed
  <2> QED BY <2>1, HeldTypes
<1>5. orderly' /\ s \notin spoiled => r = given[s]
  <2> SUFFICES ASSUME orderly', s \notin spoiled PROVE r = given[s]
    OBVIOUS
  <2>1. given[s] \in Sources /\ Ready(s)
    BY <1>1, <1>3, CompiledIsLast
  <2>2. gxp[given[s]] # None /\ holds[s] = Binary(gxp[given[s]]) /\ given[s] \notin torn
    BY <1>1, <2>1 DEF Ready
  <2>3. gxp[given[s]] = given[s]
    BY <1>1, <1>3, <2>1, <2>2 DEF CacheHonest
  <2> QED BY <2>2, <2>3, HeldTypes
<1> HIDE DEF r
<1>6. GraphicsTypeOK'
  <2>1. runs' \in [Shaders -> Sources \cup {None, Broken, "fixed"}]
    BY <1>1, <1>2, <1>4
  <2> QED BY <1>1, <1>3, <2>1 DEF GraphicsTypeOK
<1>7. CacheHonest'
  BY <1>1, <1>3 DEF CacheHonest
<1>8. RunsItsSource'
  <2>1. ASSUME NEW x \in Shaders, given[x] # None, x \notin pending', orderly', x \notin spoiled
        PROVE  runs'[x] = given[x]
    <3>1. CASE x = s
      BY <1>1, <1>2, <1>5, <2>1, <3>1
    <3>2. CASE x # s
      <4>1. x \notin pending /\ runs'[x] = runs[x]
        BY <1>1, <1>2, <2>1, <3>2
      <4> QED BY <1>1, <1>3, <2>1, <4>1 DEF RunsItsSource
    <3> QED BY <3>1, <3>2
  <2> QED BY <1>1, <2>1 DEF RunsItsSource
<1>9. SkipsOnlyItsOwn' /\ OneAtATime'
  BY <1>1, <1>3 DEF SkipsOnlyItsOwn, OneAtATime
<1>10. NoneFixed' /\ TextHeld'
  BY <1>1, <1>2, <1>4 DEF NoneFixed, TextHeld
<1> QED BY <1>6, <1>7, <1>8, <1>9, <1>10

LEMMA CacheOpened ==
    ASSUME GraphicsInv, NEW s \in Shaders, CompileOpen(s)
    PROVE  GraphicsInv'
<1> USE DEF GraphicsInv
<1>1. /\ cg /\ ~skip /\ writing = None /\ fname # None
      /\ runs' = [runs EXCEPT ![s] = holds[s].of]
      /\ gxp' = [gxp EXCEPT ![fname] = Broken] /\ writing' = s
      /\ pending' = pending \ {s} /\ orderly' = (orderly /\ pending = {s})
      /\ UNCHANGED <<cg, glStarts, holds, skip, fname, given, torn, spoiled, brought>>
  BY DEF CompileOpen, Compiled
<1>2. /\ holds \in [Shaders -> Held] /\ given \in [Shaders -> Sources \cup {None}] /\ orderly \in BOOLEAN
      /\ runs \in [Shaders -> Sources \cup {None, Broken, "fixed"}]
      /\ gxp \in [Sources -> Sources \cup {None, Broken}] /\ fname \in Sources
  BY <1>1 DEF GraphicsTypeOK, Held
<1>3. orderly' \in BOOLEAN /\ (orderly' => orderly /\ pending = {s})
  BY <1>1, <1>2
<1>4. holds[s].of \in Sources \cup {None, Broken, "fixed"} /\ holds[s].of # "fixed"
  BY <1>1, <1>2 DEF Held, NoneFixed
<1>5. orderly' => given[s] = fname /\ holds[s].of = fname
  <2>1. orderly' => given[s] \in Sources /\ Ready(s)
    BY <1>1, <1>3, CompiledIsLast
  <2> QED BY <1>1, <2>1, HeldTypes DEF Ready
<1>6. GraphicsTypeOK'
  <2>1. runs' \in [Shaders -> Sources \cup {None, Broken, "fixed"}]
    BY <1>1, <1>2, <1>4
  <2>2. gxp' \in [Sources -> Sources \cup {None, Broken}] /\ pending' \subseteq Shaders
    BY <1>1, <1>2 DEF GraphicsTypeOK
  <2> QED BY <1>1, <1>3, <2>1, <2>2 DEF GraphicsTypeOK
<1>7. CacheHonest'
  BY <1>1, <1>2, <1>3, HeldTypes DEF CacheHonest
<1>8. RunsItsSource'
  <2>1. ASSUME NEW x \in Shaders, given[x] # None, x \notin pending', orderly', x \notin spoiled
        PROVE  runs'[x] = given[x]
    <3>1. CASE x = s
      BY <1>1, <1>2, <1>5, <2>1, <3>1
    <3>2. CASE x # s
      <4>1. x \notin pending /\ runs'[x] = runs[x]
        BY <1>1, <1>2, <2>1, <3>2
      <4> QED BY <1>1, <1>3, <2>1, <4>1 DEF RunsItsSource
    <3> QED BY <3>1, <3>2
  <2> QED BY <1>1, <2>1 DEF RunsItsSource
<1>9. OneAtATime'
  <2>1. orderly' => pending' = {} /\ runs'[s] = fname
    BY <1>1, <1>2, <1>3, <1>5
  <2> QED BY <1>1, <2>1 DEF OneAtATime
<1>10. SkipsOnlyItsOwn'
  BY <1>1 DEF SkipsOnlyItsOwn
<1>11. NoneFixed' /\ TextHeld'
  BY <1>1, <1>2, <1>4 DEF NoneFixed, TextHeld
<1> QED BY <1>6, <1>7, <1>8, <1>9, <1>10, <1>11

\* The write of what was compiled.
LEMMA CacheWritten ==
    ASSUME GraphicsInv, CompileWrite
    PROVE  GraphicsInv'
<1> USE DEF GraphicsInv
<1>1. /\ writing # None /\ writing' = None
      /\ UNCHANGED <<cg, glStarts, holds, runs, skip, fname, given, pending, orderly, spoiled, brought>>
  BY DEF CompileWrite
<1>2. cg /\ fname \in Sources /\ writing \in Shaders
  BY <1>1 DEF GraphicsTypeOK, TextHeld
<1>3. /\ gxp \in [Sources -> Sources \cup {None, Broken}] /\ torn \subseteq Sources
      /\ runs[writing] \in Sources \cup {None, Broken}
  BY <1>2 DEF GraphicsTypeOK, NoneFixed
<1>4. \/ gxp' = [gxp EXCEPT ![fname] = runs[writing]] /\ torn' = torn \ {fname}
      \/ gxp' = [gxp EXCEPT ![fname] = Broken] /\ torn' = torn \cup {fname}
  BY DEF CompileWrite
<1>5. GraphicsTypeOK'
  <2>1. gxp' \in [Sources -> Sources \cup {None, Broken}] /\ torn' \subseteq Sources
    BY <1>2, <1>3, <1>4
  <2> QED BY <1>1, <2>1 DEF GraphicsTypeOK
<1>6. CacheHonest'
  <2>1. orderly => runs[writing] = fname
    BY <1>1, <1>2 DEF OneAtATime
  <2> QED BY <1>1, <1>2, <1>3, <1>4, <2>1 DEF CacheHonest
<1>7. OneAtATime'
  <2>1. orderly => pending = {}
    BY <1>1, <1>2 DEF OneAtATime
  <2> QED BY <1>1, <2>1 DEF OneAtATime
<1> QED BY <1>1, <1>5, <1>6, <1>7 DEF RunsItsSource, SkipsOnlyItsOwn, NoneFixed, TextHeld

LEMMA CacheRestart ==
    ASSUME GraphicsInv, RestartGl
    PROVE  GraphicsInv'
<1> USE DEF GraphicsInv
<1>1. /\ glStarts' = 0 /\ holds' = [s \in Shaders |-> Nothing] /\ runs' = [s \in Shaders |-> None]
      /\ skip' = FALSE /\ fname' = None /\ writing' = None
      /\ torn' = IF writing = None THEN torn ELSE torn \cup {fname}
      /\ given' = [s \in Shaders |-> None] /\ pending' = {} /\ spoiled' = {} /\ brought' = 0
      /\ UNCHANGED <<cg, gxp, orderly>>
  BY DEF RestartGl
<1>2. writing # None => fname \in Sources
  BY DEF GraphicsTypeOK, TextHeld
<1>3. torn' \subseteq Sources /\ spoiled' \subseteq Shaders
  BY <1>1, <1>2 DEF GraphicsTypeOK
<1>4. holds' \in [Shaders -> Held] /\ 0 \in 0..MaxBrought /\ None # "fixed" /\ Nothing.of = None
  BY <1>1, HeldTypes, ShadersAssumption DEF Nothing
<1>5. GraphicsTypeOK'
  <2>1. runs' \in [Shaders -> Sources \cup {None, Broken, "fixed"}]
    BY <1>1
  <2>2. given' \in [Shaders -> Sources \cup {None}]
    BY <1>1
  <2>3. /\ cg' \in BOOLEAN /\ gxp' \in [Sources -> Sources \cup {None, Broken}]
        /\ orderly' \in BOOLEAN
    BY <1>1 DEF GraphicsTypeOK
  <2>4. /\ skip' \in BOOLEAN /\ ~skip' /\ fname' = None
        /\ writing' \in Shaders \cup {None} /\ pending' \subseteq Shaders
    BY <1>1
  <2>5. glStarts' \in 0..2 /\ brought' \in 0..MaxBrought
    BY <1>1, <1>4
  <2> QED BY <1>3, <1>4, <2>1, <2>2, <2>3, <2>4, <2>5 DEF GraphicsTypeOK, Held
<1>6. CacheHonest'
  BY <1>1 DEF CacheHonest
<1> QED BY <1>1, <1>4, <1>5, <1>6 DEF RunsItsSource, SkipsOnlyItsOwn, OneAtATime, NoneFixed, TextHeld

LEMMA CacheKept ==
    ASSUME GraphicsInv, [GraphicsNext]_grVars
    PROVE  GraphicsInv'
<1>1. CASE StartGl
  <2>1. /\ glStarts' \in 0..2
        /\ UNCHANGED <<cg, holds, runs, skip, fname, gxp, writing, given, pending, orderly, torn, spoiled, brought>>
    BY <1>1 DEF StartGl, cache, habit, GraphicsInv, GraphicsTypeOK
  <2> QED BY <2>1 DEF GraphicsInv, GraphicsTypeOK, CacheHonest, RunsItsSource, SkipsOnlyItsOwn,
                      OneAtATime, NoneFixed, TextHeld, Ready
<1>2. CASE UNCHANGED grVars
  <2>1. UNCHANGED <<cg, glStarts, holds, runs, skip, fname, gxp, writing, given, pending, orderly,
                    torn, spoiled, brought>>
    BY <1>2 DEF grVars, cache, habit
  <2> QED BY <2>1 DEF GraphicsInv, GraphicsTypeOK, CacheHonest, RunsItsSource, SkipsOnlyItsOwn,
                      OneAtATime, NoneFixed, TextHeld, Ready
<1> QED BY <1>1, <1>2, CacheSource, PlainSource, CachePlain, CacheSkipped, CacheOpened,
           CacheWritten, CacheRestart DEF GraphicsNext

LEMMA GraphicsStarts == GraphicsInit => GraphicsInv
<1> SUFFICES ASSUME GraphicsInit PROVE GraphicsInv
  OBVIOUS
<1> USE DEF GraphicsInit
<1>1. holds \in [Shaders -> Held] /\ 0 \in 0..MaxBrought /\ None # "fixed" /\ Nothing.of = None
  BY HeldTypes, ShadersAssumption DEF Nothing
<1>2. GraphicsTypeOK
  <2>1. runs \in [Shaders -> Sources \cup {None, Broken, "fixed"}]
    OBVIOUS
  <2>2. given \in [Shaders -> Sources \cup {None}]
    OBVIOUS
  <2>3. gxp \in [Sources -> Sources \cup {None, Broken}]
    OBVIOUS
  <2>4. /\ cg \in BOOLEAN /\ orderly \in BOOLEAN /\ torn \subseteq Sources /\ spoiled \subseteq Shaders
        /\ skip \in BOOLEAN /\ ~skip /\ fname = None
        /\ writing \in Shaders \cup {None} /\ pending \subseteq Shaders
    OBVIOUS
  <2>5. glStarts \in 0..2 /\ brought \in 0..MaxBrought
    BY <1>1
  <2> QED BY <1>1, <2>1, <2>2, <2>3, <2>4, <2>5 DEF GraphicsTypeOK, Held
<1> QED BY <1>1, <1>2 DEF GraphicsInv, CacheHonest, RunsItsSource, SkipsOnlyItsOwn, OneAtATime,
                          NoneFixed, TextHeld

\* Over any number of lives, of any shaders and sources, with the cache and without: a
\* shader runs the source it was given, but for those brought from a file whose write
\* was cut off or of which too little was read.
THEOREM GraphicsHold == GraphicsSpec => []ShadersRun
<1>1. GraphicsInv => ShadersRun
  BY DEF GraphicsInv, ShadersRun
<1> QED BY <1>1, GraphicsStarts, CacheKept, PTL DEF GraphicsSpec

-----------------------------------------------------------------------------
(* Music.                                                                  *)

MusicSpec == MusicInit /\ [][MusicNext]_musicVars

\* No song is ever being opened: that is what the flags are taken away for.
SongsOpenAtOnce == \A x \in Songs : opened[x] # "loading"

MusicInv == SongsPlay /\ SongsOpenAtOnce

LEMMA LengthType ==
    /\ Half \in Nat /\ Half > 0
    /\ \A x \in Sounds : Length[x] \in Nat /\ Length[x] > 0 /\ Length[x] < Half
    /\ 0 \in 0..2 * Half - 1
BY LengthAssumption DEF Sounds

\* What is not below 0 in the 32-bit range and not past the end is in the song.
LEMMA SetToType ==
    ASSUME NEW p \in 0..2 * Half - 1, NEW u \in {"ms", "other"},
           channel \in Sounds, channel # "none"
    PROVE  /\ SetTo(p, u) \in 0..2 * Half - 1
           /\ u = "ms" => SetTo(p, u) < Length[channel]
<1>1. Length[channel] \in Nat /\ Length[channel] > 0
  BY LengthType
<1>2. CASE SetTo(p, u) = 0
  BY <1>1, <1>2, LengthType
<1>3. CASE SetTo(p, u) = p /\ ~(u = "ms" /\ channel # "none" /\ p >= Length[channel])
  BY <1>1, <1>3, LengthAssumption DEF Sounds
<1> QED BY <1>2, <1>3 DEF SetTo

LEMMA MusicInitially == MusicInit => MusicInv
<1> SUFFICES ASSUME MusicInit PROVE MusicInv
  OBVIOUS
<1>1. opened \in [Sounds -> {"closed", "loading", "ready"}] /\ SongsOpenAtOnce
  BY DEF MusicInit, Sounds, SongsOpenAtOnce
<1>2. pos \in 0..2 * Half - 1
  BY LengthType DEF MusicInit
<1>3. MusicTypeOK
  <2>1. paused \in BOOLEAN /\ mixer \in BOOLEAN /\ refused \subseteq Sounds
    BY Zenon DEF MusicInit
  <2>2. channel = "none" /\ unit \in {"ms", "other"}
    BY DEF MusicInit
  <2> QED BY <1>1, <1>2, <2>1, <2>2 DEF MusicTypeOK
<1>4. InsideTheSong /\ SongsReady
  BY DEF MusicInit, InsideTheSong, SongsReady
<1> QED BY <1>1, <1>3, <1>4 DEF MusicInv, SongsPlay

LEMMA MusicStep == MusicInv /\ [MusicNext]_musicVars => MusicInv'
<1> SUFFICES ASSUME MusicInv, [MusicNext]_musicVars PROVE MusicInv'
  OBVIOUS
<1> USE DEF MusicInv, SongsPlay, player
<1>1. ASSUME NEW x \in Sounds, CreateStream(x) PROVE MusicInv'
  <2>1. PICK state \in {"loading", "ready"} :
          /\ opened' = [opened EXCEPT ![x] = state]
          /\ x \in Songs => state = "ready"
    BY <1>1 DEF CreateStream, SongMode, Modes
  <2>2. opened[x] = "closed" /\ UNCHANGED <<player, mixer, refused>>
    BY <1>1 DEF CreateStream
  <2>3. MusicTypeOK'
    BY <2>1, <2>2 DEF MusicTypeOK
  <2>4. InsideTheSong' /\ SongsReady'
    BY <2>2 DEF InsideTheSong, SongsReady
  <2>5. SongsOpenAtOnce'
    BY <2>1 DEF SongsOpenAtOnce, MusicTypeOK, Sounds
  <2> QED BY <2>3, <2>4, <2>5
<1>2. ASSUME NEW x \in Sounds, CreateSound(x) PROVE MusicInv'
  <2>1. PICK state \in {"loading", "ready"} : opened' = [opened EXCEPT ![x] = state]
    BY <1>2 DEF CreateSound
  <2>2. /\ opened[x] = "closed" /\ x \in Effects
        /\ UNCHANGED <<player, mixer, refused>>
    BY <1>2 DEF CreateSound
  <2>3. MusicTypeOK'
    BY <2>1, <2>2 DEF MusicTypeOK
  <2>4. InsideTheSong' /\ SongsReady'
    BY <2>2 DEF InsideTheSong, SongsReady
  <2>5. x \notin Songs
    BY <2>2, LengthAssumption
  <2>6. SongsOpenAtOnce'
    BY <2>1, <2>5 DEF SongsOpenAtOnce, MusicTypeOK, Sounds
  <2> QED BY <2>3, <2>4, <2>6
<1>3. ASSUME NEW x \in Sounds, Loaded(x) PROVE MusicInv'
  <2>1. opened' = [opened EXCEPT ![x] = "ready"] /\ UNCHANGED <<player, mixer, refused>>
    BY <1>3 DEF Loaded
  <2>2. MusicTypeOK' /\ SongsOpenAtOnce'
    BY <2>1 DEF MusicTypeOK, SongsOpenAtOnce, Sounds
  <2>3. InsideTheSong' /\ SongsReady'
    BY <2>1 DEF InsideTheSong, SongsReady
  <2> QED BY <2>2, <2>3
<1>4. ASSUME NEW x \in Sounds, PlaySound(x) PROVE MusicInv'
  <2>1. opened[x] # "closed" /\ UNCHANGED <<opened, mixer>>
    BY <1>4 DEF PlaySound
  <2>2. CASE opened[x] = "ready"
    <3>1. /\ channel' = x /\ pos' = 0 /\ unit' = "ms"
          /\ paused' \in BOOLEAN /\ UNCHANGED refused
      BY <1>4, <2>2 DEF PlaySound
    <3>2. MusicTypeOK'
      BY <2>1, <2>2, <3>1, LengthType DEF MusicTypeOK
    <3>3. InsideTheSong'
      BY <3>1, LengthType DEF InsideTheSong
    <3> QED BY <2>1, <3>1, <3>2, <3>3 DEF SongsReady, SongsOpenAtOnce
  <2>3. CASE opened[x] # "ready"
    <3>1. refused' = refused \cup {x} /\ UNCHANGED <<channel, pos, unit, paused>>
      BY <1>4, <2>3 DEF PlaySound
    <3>2. x \notin Songs
      BY <2>1, <2>3 DEF MusicTypeOK, SongsOpenAtOnce
    <3>3. MusicTypeOK'
      BY <2>1, <3>1 DEF MusicTypeOK
    <3> QED BY <2>1, <3>1, <3>2, <3>3
            DEF InsideTheSong, SongsReady, SongsOpenAtOnce
  <2> QED BY <2>2, <2>3
<1>5. CASE SetPosition
  <2>1. /\ channel # "none"
        /\ UNCHANGED <<opened, channel, paused, mixer, refused>>
    BY <1>5 DEF SetPosition
  <2>2. PICK wanted \in Int, u \in {"ms", "other"} :
          pos' = SetTo(wanted % (2 * Half), u) /\ unit' = u
    <3>1. PICK start \in 0..Length[channel] - 1, offset \in Offsets, u \in {"ms", "other"} :
            pos' = SetTo((start + offset) % (2 * Half), u) /\ unit' = u
      BY <1>5 DEF SetPosition
    <3>2. start + offset \in Int
      BY LengthAssumption
    <3> QED BY <3>1, <3>2
  <2>3. channel \in Sounds
    BY <2>1 DEF MusicTypeOK
  <2>4. wanted % (2 * Half) \in 0..2 * Half - 1
    <3> DEFINE range == 2 * Half
    <3>1. range \in Nat /\ range > 0
      BY LengthType
    <3> HIDE DEF range
    <3>2. wanted % range \in 0..range - 1
      BY <3>1
    <3> QED BY <3>2 DEF range
  <2>5. pos' \in 0..2 * Half - 1 /\ (unit' = "ms" => pos' < Length[channel])
    BY <2>1, <2>2, <2>3, <2>4, SetToType
  <2> QED BY <2>1, <2>2, <2>5
          DEF MusicTypeOK, InsideTheSong, SongsReady, SongsOpenAtOnce
<1>6. CASE Advance
  <2>1. channel # "none" /\ UNCHANGED <<opened, paused, unit, mixer, refused>>
    BY <1>6 DEF Advance
  <2>2. channel \in Sounds
    BY <2>1 DEF MusicTypeOK
  <2>3. \/ channel' = "none" /\ pos' = 0
        \/ pos + 1 < Length[channel] /\ pos' = pos + 1 /\ UNCHANGED channel
    BY <1>6, <2>2, LengthType DEF Advance, MusicTypeOK
  <2> QED BY <2>1, <2>2, <2>3, LengthType
          DEF MusicTypeOK, InsideTheSong, SongsReady, SongsOpenAtOnce
<1>7. CASE SetPaused
  BY <1>7 DEF SetPaused, MusicTypeOK, InsideTheSong, SongsReady,
              SongsOpenAtOnce
<1>8. CASE Stop
  BY <1>8, LengthType DEF Stop, MusicTypeOK, InsideTheSong, SongsReady,
                           SongsOpenAtOnce
<1>9. CASE Mixer
  BY <1>9 DEF Mixer, MusicTypeOK, InsideTheSong, SongsReady,
               SongsOpenAtOnce
<1>10. CASE UNCHANGED musicVars
  BY <1>10 DEF musicVars, MusicTypeOK, InsideTheSong, SongsReady,
               SongsOpenAtOnce
<1> QED BY <1>1, <1>2, <1>3, <1>4, <1>5, <1>6, <1>7, <1>8, <1>9, <1>10
        DEF MusicNext

\* For any offsets and any width of the position, the wrapper leaves no place
\* to which the music is put outside its song, and no downloaded song is
\* played while it is still being opened.
THEOREM MusicHolds == MusicSpec => []SongsPlay
<1>1. MusicInv => SongsPlay
  BY DEF MusicInv
<1> QED BY <1>1, MusicInitially, MusicStep, PTL DEF MusicSpec

-----------------------------------------------------------------------------
(* The keyboard half of the loop.                                          *)

\* What holds at a position of a text when it holds at all behind it, holds at all.
LEMMA FromTheEnd ==
    ASSUME NEW N \in Nat, NEW S, \A i \in 1..N : (\A j \in i + 1..N : j \in S) => i \in S
    PROVE  \A i \in 1..N : i \in S
<1> DEFINE R == OpToRel(<, Nat)
           Bad == {k \in 0..N - 1 : N - k \notin S}
<1>1. \A x, y \in Nat : <<x, y>> \in R <=> x < y
  BY DEF OpToRel
<1>2. IsWellFoundedOn(R, Nat)
  BY NatLessThanWellFounded
<1>3. Bad \subseteq Nat
  OBVIOUS
<1> HIDE DEF R, Bad
<1>4. ASSUME Bad # {} PROVE FALSE
  <2>1. PICK k \in Bad : \A y \in Bad : ~ (<<y, k>> \in R)
    BY <1>2, <1>3, <1>4, WFMin, Zenon
  <2>2. ASSUME NEW j \in N - k + 1..N PROVE j \in S
    <3>1. N - j \in 0..N - 1 /\ N - j < k /\ N - (N - j) = j
      BY <2>1 DEF Bad
    <3>2. N - j \notin Bad
      BY <1>1, <1>3, <2>1, <3>1
    <3> QED BY <3>1, <3>2 DEF Bad
  <2>3. N - k \in 1..N
    BY <2>1 DEF Bad
  <2> QED BY <2>1, <2>2, <2>3 DEF Bad
<1>5. ASSUME NEW i \in 1..N, i \notin S PROVE FALSE
  <2>1. N - i \in 0..N - 1 /\ N - (N - i) = i
    OBVIOUS
  <2> QED BY <1>4, <1>5, <2>1 DEF Bad
<1> QED BY <1>5

\* A text is taken to pieces from each of its positions on: there is a function
\* that says what comes out of the rest.
Assembles(f, L, piece, step, rest) ==
    \A i \in Nat \ {0} : f[i] = IF i > L THEN rest[i] ELSE piece[i] \o f[i + step[i]]

LEMMA Pieces ==
    ASSUME NEW L \in Nat, NEW T,
           NEW piece \in [1..L -> Seq(T)], NEW step \in [1..L -> Nat \ {0}],
           NEW rest \in [Nat \ {0} -> Seq(T)]
    PROVE  \E f \in [Nat \ {0} -> Seq(T)] : Assembles(f, L, piece, step, rest)
<1> DEFINE Pos == Nat \ {0}
           Val(f, i) == IF i > L THEN rest[i] ELSE piece[i] \o f[i + step[i]]
           Solves(f, i) == \A j \in Pos : j >= i => f[j] = Val(f, j)
           S == {i \in 1..L + 1 : \E f \in [Pos -> Seq(T)] : Solves(f, i)}
<1>1. ASSUME NEW i \in 1..L + 1, \A j \in i + 1..L + 1 : j \in S PROVE i \in S
  <2>1. CASE i = L + 1
    <3>1. ASSUME NEW j \in Pos, j >= i PROVE rest[j] = Val(rest, j)
      <4>1. j > L
        BY <2>1, <3>1
      <4> QED BY <4>1
    <3>2. Solves(rest, i)
      BY ONLY <3>1
    <3> QED BY <3>2
  <2>2. CASE i =< L
    <3> SUFFICES \E f \in [Pos -> Seq(T)] : Solves(f, i)
      OBVIOUS
    <3>1. i + 1 \in i + 1..L + 1
      BY <2>2
    <3>2. i + 1 \in S
      BY <1>1, <3>1
    <3>3. PICK f \in [Pos -> Seq(T)] : Solves(f, i + 1)
      BY <3>2
    <3> DEFINE v == piece[i] \o f[i + step[i]]
               g == [f EXCEPT ![i] = v]
    <3>4. i \in 1..L /\ i \in Pos /\ i + step[i] \in Pos /\ i + step[i] > i /\ ~(i > L)
      BY <2>2
    <3>5. v \in Seq(T)
      BY <3>4
    <3>6. g \in [Pos -> Seq(T)] /\ g[i] = v /\ \A j \in Pos : j # i => g[j] = f[j]
      BY <3>4, <3>5
    <3>7. Val(g, i) = v
      <4>1. g[i + step[i]] = f[i + step[i]]
        BY <3>4, <3>6
      <4> HIDE DEF g
      <4> QED BY <3>4, <4>1
    <3> HIDE DEF g, v
    <3>8. ASSUME NEW j \in Pos, j >= i, j # i PROVE g[j] = Val(g, j)
      <4>1. j >= i + 1
        BY <3>8
      <4>2. g[j] = f[j] /\ f[j] = Val(f, j)
        BY <3>3, <3>6, <3>8, <4>1
      <4>3. CASE j > L
        BY <4>2, <4>3
      <4>4. CASE ~(j > L)
        <5>1. j \in 1..L
          BY <4>4
        <5>2. j + step[j] \in Pos /\ j + step[j] # i
          BY <5>1, <4>1
        <5>3. g[j + step[j]] = f[j + step[j]]
          BY <5>2, <3>6
        <5> QED BY <5>3, <4>2, <4>4
      <4> QED BY <4>3, <4>4
    <3> HIDE DEF Val
    <3>9. Solves(g, i)
      BY <3>6, <3>7, <3>8
    <3> HIDE DEF Solves
    <3> QED BY <3>6, <3>9
  <2> HIDE DEF S
  <2>3. i = L + 1 \/ i =< L
    OBVIOUS
  <2> QED BY <2>1, <2>2, <2>3
<1>2. 1 \in S
  <2> HIDE DEF S
  <2>1. L + 1 \in Nat /\ 1 \in 1..L + 1
    OBVIOUS
  <2>2. \A i \in 1..L + 1 : i \in S
    BY <1>1, <2>1, FromTheEnd
  <2> QED BY <2>1, <2>2
<1> HIDE DEF Solves
<1>3. PICK f \in [Pos -> Seq(T)] : Solves(f, 1)
  BY <1>2
<1>4. \A j \in Pos : f[j] = Val(f, j)
  <2> HIDE DEF Val
  <2> QED BY <1>3 DEF Solves
<1> QED BY <1>4 DEF Assembles

\* The functions by which the two conversions are defined.
Encodes(f, src) ==
    f = [i \in Nat \ {0} |->
            IF i > Len(src) THEN <<>>
            ELSE IF PairAt(src, i) THEN OfPair(src[i], src[i + 1]) \o f[i + 2]
            ELSE OfUnit(src[i]) \o f[i + 1]]

Decodes(f, src) ==
    f = [i \in Nat \ {0} |->
            IF i = Len(src) + 1 THEN <<>>
            ELSE IF i > Len(src) + 1 THEN <<Wild>>
            ELSE <<UnitAt(src, i)>> \o f[i + Width(src[i])]]

LEMMA Encoding ==
    ASSUME NEW src, NEW g, Encodes(g, src)
    PROVE  \E f : Encodes(f, src) /\ _utf16_to_utf8(src) = f[1]
BY DEF Encodes, _utf16_to_utf8

LEMMA Decoding ==
    ASSUME NEW src, NEW g, Decodes(g, src)
    PROVE  \E f : Decodes(f, src) /\ _utf8_to_utf16(src) = f[1]
BY DEF Decodes, _utf8_to_utf16


LEMMA Remainders == \A x \in Int : x % 4 \in 0..3 /\ x % 16 \in 0..15 /\ x % 32 \in 0..31 /\ x % 64 \in 0..63
OBVIOUS

LEMMA Quotients ==
    \A x \in Nat : x \div 4 \in Nat /\ x \div 64 \in Nat /\ x \div 256 \in Nat /\ x \div 4096 \in Nat
OBVIOUS

LEMMA UnitRange == \A u \in Nat : u \in Unit <=> u >= 1 /\ u < 16 * 4096
BY DEF Unit

LEMMA ByteRange == \A b : b \in Byte <=> b \in Nat /\ b >= 1 /\ b =< 255
BY DEF Byte

LEMMA ShortTexts ==
    \A w, x, y, z \in Byte : /\ <<x>> \in Seq(Byte) /\ <<x, y>> \in Seq(Byte) /\ <<x, y, z>> \in Seq(Byte)
                             /\ <<w, x, y, z>> \in Seq(Byte)
OBVIOUS

LEMMA OfUnitBytes ==
    ASSUME NEW u \in Unit
    PROVE  OfUnit(u) \in Seq(Byte)
<1>1. u \in Nat /\ u >= 1 /\ u < 16 * 4096
  BY UnitRange DEF Unit
<1>2. PICK a \in Nat : a = u \div 64 /\ a * 64 =< u
  BY <1>1
<1>3. PICK b \in Nat : b = u \div 4096 /\ b =< 15
  BY <1>1
<1>4. PICK c \in 0..63 : c = u % 64
  BY <1>1, Remainders
<1>5. PICK d \in 0..63 : d = a % 64
  BY <1>2, Remainders
<1>6. (u < 128 => u \in Byte) /\ (u < 2048 => 192 + a \in Byte)
  BY <1>1, <1>2, ByteRange
<1>7. 224 + b \in Byte /\ 128 + c \in Byte /\ 128 + d \in Byte
  BY <1>3, ByteRange
<1>8. OfUnit(u) = IF u < 128 THEN <<u>>
                  ELSE IF u < 2048 THEN <<192 + a, 128 + c>>
                  ELSE <<224 + b, 128 + d, 128 + c>>
  BY <1>2, <1>3, <1>4, <1>5 DEF OfUnit
<1> QED BY <1>6, <1>7, <1>8, ShortTexts

LEMMA OfPairBytes ==
    ASSUME NEW h \in Unit, NEW l \in Unit
    PROVE  OfPair(h, l) \in Seq(Byte)
<1>1. h \in Nat /\ l \in Nat
  BY DEF Unit
<1>2. PICK p \in 0..3 : p = ((h + 64) \div 256) % 4
  BY <1>1, Quotients, Remainders
<1>3. PICK q \in 0..63 : q = (h \div 4 + 16) % 64
  BY <1>1, Quotients, Remainders
<1>4. PICK r \in 0..3 : r = (h \div 256) % 4
  BY <1>1, Quotients, Remainders
<1>5. PICK s \in 0..3 : s = l % 4
  BY <1>1, Remainders
<1>6. PICK t \in 0..63 : t = l % 64
  BY <1>1, Remainders
<1>7. OfPair(h, l) = <<240 + p, 128 + q, 128 + 16 * r + 4 * s, 128 + t>>
  BY <1>2, <1>3, <1>4, <1>5, <1>6 DEF OfPair
<1>8. 240 + p \in Byte /\ 128 + q \in Byte /\ 128 + 16 * r + 4 * s \in Byte /\ 128 + t \in Byte
  BY ByteRange
<1> QED BY <1>7, <1>8, ShortTexts

LEMMA JoinedType ==
    ASSUME NEW T, NEW s \in Seq(T), NEW t \in Seq(T)
    PROVE  s \o t \in Seq(T)
OBVIOUS

LEMMA Encoded ==
    ASSUME NEW src \in Seq(Unit)
    PROVE  \E f \in [Nat \ {0} -> Seq(Byte)] : Encodes(f, src) /\ _utf16_to_utf8(src) = f[1]
<1>0. PICK L \in Nat : L = Len(src)
  OBVIOUS
<1> DEFINE Pos == Nat \ {0}
           piece == [i \in 1..L |-> IF PairAt(src, i) THEN OfPair(src[i], src[i + 1]) ELSE OfUnit(src[i])]
           step == [i \in 1..L |-> IF PairAt(src, i) THEN 2 ELSE 1]
           rest == [i \in Pos |-> <<>>]
<1>1. ASSUME NEW i \in 1..L PROVE piece[i] \in Seq(Byte) /\ step[i] \in Pos
  <2>1. src[i] \in Unit /\ (PairAt(src, i) => src[i + 1] \in Unit)
    BY <1>0 DEF PairAt
  <2> QED BY <2>1, OfUnitBytes, OfPairBytes
<1>2. L \in Nat /\ piece \in [1..L -> Seq(Byte)] /\ step \in [1..L -> Pos] /\ rest \in [Pos -> Seq(Byte)]
  BY <1>1
<1>3. PICK g \in [Nat \ {0} -> Seq(Byte)] : Assembles(g, L, piece, step, rest)
  <2> HIDE DEF piece, step, rest
  <2> QED BY <1>2, Pieces
<1>4. \A i \in Pos : g[i] = IF i > L THEN rest[i] ELSE piece[i] \o g[i + step[i]]
  <2> HIDE DEF piece, step, rest
  <2> QED BY <1>3 DEF Assembles
<1>5. \A i \in Pos : g[i] = IF i > L THEN <<>>
                            ELSE IF PairAt(src, i) THEN OfPair(src[i], src[i + 1]) \o g[i + 2]
                            ELSE OfUnit(src[i]) \o g[i + 1]
  <2> TAKE i \in Pos
  <2>1. g[i] = IF i > L THEN rest[i] ELSE piece[i] \o g[i + step[i]]
    <3> HIDE DEF rest, piece, step
    <3> QED BY <1>4
  <2>2. CASE i > L
    BY <2>1, <2>2
  <2>3. CASE ~(i > L)
    <3>1. i \in 1..L
      BY <2>3
    <3> QED BY <2>1, <2>3, <3>1
  <2> QED BY <2>2, <2>3
<1>6. Encodes(g, src)
  BY <1>0, <1>5 DEF Encodes
<1>7. PICK f : Encodes(f, src) /\ _utf16_to_utf8(src) = f[1]
  BY <1>6, Encoding
<1>8. \A i \in Pos : f[i] = IF i > L THEN <<>>
                            ELSE IF PairAt(src, i) THEN OfPair(src[i], src[i + 1]) \o f[i + 2]
                            ELSE OfUnit(src[i]) \o f[i + 1]
  BY <1>0, <1>7 DEF Encodes
<1> DEFINE S == {i \in 1..L + 1 : f[i] \in Seq(Byte)}
<1>9. ASSUME NEW i \in 1..L + 1, \A j \in i + 1..L + 1 : j \in S PROVE i \in S
  <2>1. CASE i = L + 1
    <3>1. i \in Pos /\ i > L
      BY <1>2, <2>1
    <3>2. f[i] = <<>> /\ <<>> \in Seq(Byte)
      BY <1>8, <3>1
    <3> QED BY <3>2, Zenon
  <2>2. CASE i =< L
    <3>1. i \in 1..L /\ i \in Pos /\ ~(i > L) /\ i + 1 \in i + 1..L + 1
      BY <2>2
    <3>2. CASE PairAt(src, i)
      <4>1. src[i] \in Unit /\ src[i + 1] \in Unit /\ i + 2 \in i + 1..L + 1
        BY <1>0, <3>1, <3>2 DEF PairAt
      <4>2. f[i + 2] \in Seq(Byte) /\ OfPair(src[i], src[i + 1]) \in Seq(Byte)
        BY <1>9, <4>1, OfPairBytes
      <4>3. f[i] = OfPair(src[i], src[i + 1]) \o f[i + 2]
        BY <1>8, <3>1, <3>2
      <4>4. f[i] \in Seq(Byte)
        BY ONLY <4>2, <4>3, JoinedType, Zenon
      <4> QED BY <4>4
    <3>3. CASE ~PairAt(src, i)
      <4>1. f[i + 1] \in Seq(Byte) /\ OfUnit(src[i]) \in Seq(Byte)
        BY <1>0, <1>9, <3>1, OfUnitBytes
      <4>2. f[i] = OfUnit(src[i]) \o f[i + 1]
        BY <1>8, <3>1, <3>3
      <4>3. f[i] \in Seq(Byte)
        BY ONLY <4>1, <4>2, JoinedType, Zenon
      <4> QED BY <4>3
    <3> QED BY <3>2, <3>3, Zenon
  <2>3. i = L + 1 \/ i =< L
    OBVIOUS
  <2> QED BY <2>1, <2>2, <2>3, Zenon
<1>10. ASSUME NEW i \in Pos PROVE f[i] \in Seq(Byte)
  <2>1. CASE i > L
    <3>1. f[i] = <<>>
      BY <1>8, <2>1
    <3> QED BY <3>1
  <2>2. CASE ~(i > L)
    <3>1. L + 1 \in Nat /\ i \in 1..L + 1
      BY <1>2, <2>2
    <3>2. \A k \in 1..L + 1 : k \in S
      <4> HIDE DEF S
      <4> QED BY <1>9, <3>1, FromTheEnd
    <3> QED BY <3>1, <3>2
  <2> QED BY <2>1, <2>2
<1>11. f \in [Pos -> Seq(Byte)]
  BY <1>7, <1>10 DEF Encodes
<1> QED BY <1>7, <1>11

LEMMA UnitAtType ==
    ASSUME NEW src \in Seq(Byte), NEW i \in 1..Len(src)
    PROVE  UnitAt(src, i) \in Int /\ Width(src[i]) \in 1..3 /\ src[i] \in Nat
<1>1. src[i] \in Nat
  BY ByteRange
<1>2. \A k \in Nat \ {0} : ByteAt(src, k) \in Nat
  BY ByteRange DEF ByteAt
<1>3. PICK x \in Int : x = ByteAt(src, i + 1) % 64
  BY <1>2, Remainders
<1>4. PICK y \in Int : y = ByteAt(src, i + 2) % 64
  BY <1>2, Remainders
<1>5. PICK z \in Int : z = src[i] % 16
  BY <1>1, Remainders
<1>6. PICK w \in Int : w = src[i] % 32
  BY <1>1, Remainders
<1>7. UnitAt(src, i) = CASE Width(src[i]) = 3 -> z * 4096 + x * 64 + y
                         [] Width(src[i]) = 2 -> w * 64 + x
                         [] OTHER -> src[i]
  BY <1>3, <1>4, <1>5, <1>6 DEF UnitAt
<1> QED BY <1>1, <1>7 DEF Width

LEMMA Decoded ==
    ASSUME NEW src \in Seq(Byte)
    PROVE  \E f \in [Nat \ {0} -> Seq(Int)] : Decodes(f, src) /\ _utf8_to_utf16(src) = f[1]
<1>0. PICK L \in Nat : L = Len(src)
  OBVIOUS
<1> DEFINE Pos == Nat \ {0}
           piece == [i \in 1..L |-> <<UnitAt(src, i)>>]
           step == [i \in 1..L |-> Width(src[i])]
           rest == [i \in Pos |-> IF i = L + 1 THEN <<>> ELSE <<Wild>>]
<1>1. piece \in [1..L -> Seq(Int)] /\ step \in [1..L -> Pos]
  <2>1. ASSUME NEW i \in 1..L
        PROVE  <<UnitAt(src, i)>> \in Seq(Int) /\ Width(src[i]) \in Pos
    <3>1. UnitAt(src, i) \in Int /\ Width(src[i]) \in 1..3
      BY <1>0, UnitAtType
    <3> QED BY <3>1
  <2> QED BY <2>1
<1>2. L \in Nat /\ piece \in [1..L -> Seq(Int)] /\ step \in [1..L -> Pos] /\ rest \in [Pos -> Seq(Int)]
  BY <1>1 DEF Wild
<1>3. PICK g \in [Nat \ {0} -> Seq(Int)] : Assembles(g, L, piece, step, rest)
  <2> HIDE DEF piece, step, rest
  <2> QED BY <1>2, Pieces
<1>4. \A i \in Pos : g[i] = IF i > L THEN rest[i] ELSE piece[i] \o g[i + step[i]]
  <2> HIDE DEF piece, step, rest
  <2> QED BY <1>3 DEF Assembles
<1>5. \A i \in Pos : g[i] = IF i = L + 1 THEN <<>>
                            ELSE IF i > L + 1 THEN <<Wild>>
                            ELSE <<UnitAt(src, i)>> \o g[i + Width(src[i])]
  <2> TAKE i \in Pos
  <2>1. g[i] = IF i > L THEN rest[i] ELSE piece[i] \o g[i + step[i]]
    <3> HIDE DEF rest, piece, step
    <3> QED BY <1>4
  <2>2. CASE i > L
    BY <2>1, <2>2
  <2>3. CASE ~(i > L)
    <3>1. i \in 1..L
      BY <2>3
    <3> QED BY <2>1, <2>3, <3>1
  <2> QED BY <2>2, <2>3
<1>6. Decodes(g, src)
  BY <1>0, <1>5 DEF Decodes
<1>7. PICK f : Decodes(f, src) /\ _utf8_to_utf16(src) = f[1]
  BY <1>6, Decoding, Zenon
<1>8. \A i \in Pos : f[i] = IF i = L + 1 THEN <<>>
                            ELSE IF i > L + 1 THEN <<Wild>>
                            ELSE <<UnitAt(src, i)>> \o f[i + Width(src[i])]
  BY <1>0, <1>7 DEF Decodes
<1> DEFINE S == {i \in 1..L + 1 : f[i] \in Seq(Int)}
<1>9. ASSUME NEW i \in Pos, i > L PROVE f[i] \in Seq(Int)
  <2>1. f[i] = <<>> \/ f[i] = <<Wild>>
    <3>1. i = L + 1 \/ i > L + 1
      BY <1>9
    <3> QED BY <1>8, <3>1
  <2>2. <<>> \in Seq(Int) /\ <<Wild>> \in Seq(Int)
    BY DEF Wild
  <2> QED BY <2>1, <2>2, Zenon
<1>10. ASSUME NEW i \in 1..L + 1, \A j \in i + 1..L + 1 : j \in S PROVE i \in S
  <2>1. CASE i = L + 1
    BY <1>9, <2>1
  <2>2. CASE i =< L
    <3>1. i \in 1..L /\ i \in Pos /\ ~(i = L + 1) /\ ~(i > L + 1)
      BY <2>2
    <3>2. UnitAt(src, i) \in Int /\ Width(src[i]) \in 1..3
      BY <1>0, <3>1, UnitAtType
    <3>3. f[i + Width(src[i])] \in Seq(Int)
      <4>1. CASE i + Width(src[i]) > L
        BY <1>9, <3>1, <3>2, <4>1
      <4>2. CASE ~(i + Width(src[i]) > L)
        <5>1. i + Width(src[i]) \in i + 1..L + 1
          BY <3>1, <3>2, <4>2
        <5> QED BY <1>10, <5>1
      <4> QED BY <4>1, <4>2
    <3>4. f[i] = <<UnitAt(src, i)>> \o f[i + Width(src[i])]
      BY <1>8, <3>1
    <3>5. <<UnitAt(src, i)>> \in Seq(Int)
      BY <3>2
    <3>6. f[i] \in Seq(Int)
      BY ONLY <3>3, <3>4, <3>5, JoinedType, Zenon
    <3> QED BY <3>6
  <2>3. i = L + 1 \/ i =< L
    OBVIOUS
  <2> QED BY <2>1, <2>2, <2>3, Zenon
<1>11. ASSUME NEW i \in Pos PROVE f[i] \in Seq(Int)
  <2>1. CASE ~(i > L)
    <3>1. i \in 1..L + 1
      BY <2>1
    <3>2. \A k \in 1..L + 1 : k \in S
      <4> HIDE DEF S
      <4>1. L + 1 \in Nat
        OBVIOUS
      <4> QED BY <1>10, <4>1, FromTheEnd
    <3> QED BY <3>1, <3>2
  <2> QED BY <1>9, <2>1
<1>12. f \in [Pos -> Seq(Int)]
  BY <1>7, <1>11 DEF Decodes
<1> QED BY <1>7, <1>12

LEMMA ByteOf ==
    ASSUME NEW text \in Seq(Byte), NEW i \in 1..Len(text)
    PROVE  text[i] \in Nat /\ text[i] >= 1 /\ text[i] =< 255
<1>1. text[i] \in Byte
  OBVIOUS
<1> QED BY <1>1, ByteRange

LEMMA FurtherRange == \A b \in Nat : b \in Further <=> b >= 128 /\ b =< 191
BY DEF Further

\* What UTF-8 says of a character, by its first byte.
LEMMA OneByte ==
    ASSUME NEW text \in Seq(Byte), Utf8(text), NEW i \in 1..Len(text), text[i] < 128
    PROVE  i + 1 =< Len(text) => text[i + 1] \notin Further
<1>1. text[i] \in Nat /\ text[i] \notin Further
  BY ByteOf, FurtherRange
<1> QED BY <1>1 DEF Utf8

LEMMA TwoBytes ==
    ASSUME NEW text \in Seq(Byte), Utf8(text), NEW i \in 1..Len(text),
           text[i] >= 192, text[i] < 224
    PROVE  /\ i + 1 =< Len(text) /\ text[i + 1] \in Further /\ text[i] >= 194
           /\ i + 2 =< Len(text) => text[i + 2] \notin Further
<1>1. text[i] \in Nat /\ text[i] \notin Further
  BY ByteOf, FurtherRange
<1>2. /\ i + 2 =< Len(text) + 1 /\ \A k \in i + 1..i + 2 - 1 : text[k] \in Further
      /\ i + 2 =< Len(text) => text[i + 2] \notin Further
      /\ text[i] \notin {192, 193}
  BY <1>1 DEF Utf8
<1> QED BY <1>1, <1>2

LEMMA ThreeBytes ==
    ASSUME NEW text \in Seq(Byte), Utf8(text), NEW i \in 1..Len(text), text[i] >= 224
    PROVE  /\ i + 2 =< Len(text) /\ text[i + 1] \in Further /\ text[i + 2] \in Further
           /\ text[i] = 224 => text[i + 1] >= 160
           /\ text[i] = 237 => text[i + 1] < 160
           /\ text[i] = 240 => text[i + 1] # 128 \/ text[i + 2] # 128
           /\ text[i] < 240 /\ i + 3 =< Len(text) => text[i + 3] \notin Further
<1>1. text[i] \in Nat /\ text[i] \notin Further
  BY ByteOf, FurtherRange
<1>2. PICK size \in 3..4 : /\ size = IF text[i] >= 240 THEN 4 ELSE 3
                           /\ i + size =< Len(text) + 1
                           /\ \A k \in i + 1..i + size - 1 : text[k] \in Further
                           /\ i + size =< Len(text) => text[i + size] \notin Further
  BY <1>1 DEF Utf8
<1>3. /\ text[i] = 224 => text[i + 1] >= 160
      /\ text[i] = 237 => text[i + 1] < 160
      /\ text[i] = 240 => text[i + 1] # 128 \/ text[i + 2] # 128
  BY <1>1 DEF Utf8
<1>4. i + 1 \in i + 1..i + size - 1 /\ i + 2 \in i + 1..i + size - 1
  OBVIOUS
<1>5. text[i] < 240 => size = 3
  BY <1>1, <1>2
<1> QED BY <1>2, <1>3, <1>4, <1>5

\* The numbers that characters of three and of two bytes stand for.
OfThree(b, x, y) == (b % 16) * 4096 + (x % 64) * 64 + (y % 64)
OfTwo(b, x) == (b % 32) * 64 + (x % 64)

LEMMA UnitOfThree ==
    ASSUME NEW b \in Nat, NEW x \in Nat, NEW y \in Nat,
           b >= 224, b =< 255, x >= 128, x =< 191, y >= 128, y =< 191,
           b = 224 => x >= 160, b = 240 => x # 128 \/ y # 128
    PROVE  OfThree(b, x, y) \in Unit
<1> DEFINE p == b % 16
           q == x % 64
           r == y % 64
<1>1. p \in 0..15 /\ (p = 0 => b = 224 \/ b = 240)
  OBVIOUS
<1>2. q \in 0..63 /\ x = 128 + q
  OBVIOUS
<1>3. r \in 0..63 /\ y = 128 + r
  OBVIOUS
<1> HIDE DEF p, q, r
<1>4. p >= 1 \/ q >= 1 \/ r >= 1
  BY <1>1, <1>2, <1>3
<1>5. p * 4096 + q * 64 + r \in Nat /\ p * 4096 + q * 64 + r >= 1
  BY ONLY <1>1, <1>2, <1>3, <1>4
<1>6. p * 4096 + q * 64 + r < 16 * 4096
  BY ONLY <1>1, <1>2, <1>3
<1>7. p * 4096 + q * 64 + r \in Unit
  BY <1>5, <1>6, UnitRange
<1> QED BY <1>7 DEF p, q, r, OfThree

LEMMA UnitOfTwo ==
    ASSUME NEW b \in Nat, NEW x \in Nat, b >= 194, b =< 223, x >= 128, x =< 191
    PROVE  OfTwo(b, x) \in Unit
<1> DEFINE p == b % 32
           q == x % 64
<1>1. p \in 2..31 /\ q \in 0..63
  OBVIOUS
<1> HIDE DEF p, q
<1>2. p * 64 + q \in Nat /\ p * 64 + q >= 1 /\ p * 64 + q < 16 * 4096
  BY <1>1
<1>3. p * 64 + q \in Unit
  BY <1>2, UnitRange
<1> QED BY <1>3 DEF p, q, OfTwo

\* A character that is there as a whole makes a unit, also where the text is cut.
LEMMA UnitOfText ==
    ASSUME NEW text \in Seq(Byte), Utf8(text), NEW src \in Seq(Byte),
           Len(src) =< Len(text), \A k \in 1..Len(src) : src[k] = text[k],
           NEW i \in 1..Len(src), i + Width(src[i]) =< Len(src) + 1
    PROVE  UnitAt(src, i) \in Unit
<1>1. src[i] = text[i] /\ i \in 1..Len(text) /\ src[i] \in Nat /\ src[i] >= 1 /\ src[i] =< 255
  BY ByteOf
<1>2. CASE src[i] >= 224
  <2>1. Width(src[i]) = 3
    BY <1>2 DEF Width
  <2>2. i + 1 \in 1..Len(src) /\ i + 2 \in 1..Len(src)
    BY <2>1
  <2>3. ByteAt(src, i + 1) = text[i + 1] /\ ByteAt(src, i + 2) = text[i + 2]
    BY <2>2 DEF ByteAt
  <2>4. text[i + 1] \in Nat /\ text[i + 2] \in Nat
    BY <2>2, ByteOf
  <2>5. /\ text[i + 1] \in Further /\ text[i + 2] \in Further
        /\ src[i] = 224 => text[i + 1] >= 160
        /\ src[i] = 240 => text[i + 1] # 128 \/ text[i + 2] # 128
    BY <1>1, <1>2, ThreeBytes
  <2>6. OfThree(src[i], text[i + 1], text[i + 2]) \in Unit
    <3>1. src[i] \in Nat /\ src[i] >= 224 /\ src[i] =< 255
      BY <1>1, <1>2
    <3>2. text[i + 1] >= 128 /\ text[i + 1] =< 191 /\ text[i + 2] >= 128 /\ text[i + 2] =< 191
      BY <2>4, <2>5, FurtherRange
    <3> QED BY <2>4, <2>5, <3>1, <3>2, UnitOfThree
  <2> QED BY <2>1, <2>3, <2>6 DEF UnitAt, OfThree
<1>3. CASE src[i] >= 192 /\ src[i] < 224
  <2>1. Width(src[i]) = 2
    BY <1>1, <1>3 DEF Width
  <2>2. i + 1 \in 1..Len(src)
    BY <2>1
  <2>3. ByteAt(src, i + 1) = text[i + 1]
    BY <2>2 DEF ByteAt
  <2>4. text[i + 1] \in Nat
    BY <2>2, ByteOf
  <2>5. text[i + 1] \in Further /\ src[i] >= 194
    BY <1>1, <1>3, TwoBytes
  <2>6. OfTwo(src[i], text[i + 1]) \in Unit
    <3>1. src[i] \in Nat /\ src[i] >= 194 /\ src[i] =< 223
      BY <1>1, <1>3, <2>5
    <3>2. text[i + 1] >= 128 /\ text[i + 1] =< 191
      BY <2>4, <2>5, FurtherRange
    <3> QED BY <2>4, <3>1, <3>2, UnitOfTwo
  <2> QED BY <2>1, <2>3, <2>6 DEF UnitAt, OfTwo
<1>4. CASE src[i] < 192
  <2>1. UnitAt(src, i) = src[i]
    BY <1>1, <1>4 DEF UnitAt, Width
  <2> QED BY <1>1, <2>1, UnitRange
<1> QED BY <1>1, <1>2, <1>3, <1>4

\* They are turned back into the same bytes, and none is half of a pair.
LEMMA ThreeKept ==
    ASSUME NEW b \in Nat, NEW x \in Nat, NEW y \in Nat,
           b >= 224, b =< 239, x >= 128, x =< 191, y >= 128, y =< 191,
           b = 224 => x >= 160, b = 237 => x < 160
    PROVE  OfUnit(OfThree(b, x, y)) = <<b, x, y>> /\ ~IsHigh(OfThree(b, x, y))
<1> DEFINE p == b % 16
           q == x % 64
           r == y % 64
           u == p * 4096 + q * 64 + r
<1>1. p \in 0..15 /\ b = 224 + p
  OBVIOUS
<1>2. q \in 0..63 /\ x = 128 + q
  OBVIOUS
<1>3. r \in 0..63 /\ y = 128 + r
  OBVIOUS
<1>4. OfThree(b, x, y) = u
  BY DEF OfThree
<1> HIDE DEF p, q, r
<1>5. (p = 0 => q >= 32) /\ (p = 13 => q < 32)
  BY <1>1, <1>2
<1>6. u \in Nat
  BY ONLY <1>1, <1>2, <1>3
<1>7. u >= 2048
  BY ONLY <1>1, <1>2, <1>3, <1>5
<1>8. u \div 1024 # 54
  BY ONLY <1>1, <1>2, <1>3, <1>5
<1>9. u \div 4096 = p /\ (u \div 64) % 64 = q /\ u % 64 = r
  <2> HIDE DEF u
  <2>1. u = p * 4096 + q * 64 + r
    BY DEF u
  <2> QED BY ONLY <1>1, <1>2, <1>3, <1>6, <2>1
<1> HIDE DEF u
<1>10. OfUnit(u) = <<224 + p, 128 + q, 128 + r>>
  BY <1>6, <1>7, <1>9 DEF OfUnit
<1> QED BY <1>1, <1>2, <1>3, <1>4, <1>8, <1>10 DEF IsHigh

LEMMA TwoKept ==
    ASSUME NEW b \in Nat, NEW x \in Nat, b >= 194, b =< 223, x >= 128, x =< 191
    PROVE  OfUnit(OfTwo(b, x)) = <<b, x>> /\ ~IsHigh(OfTwo(b, x))
<1> DEFINE p == b % 32
           q == x % 64
           u == p * 64 + q
<1>1. p \in 2..31 /\ b = 192 + p
  OBVIOUS
<1>2. q \in 0..63 /\ x = 128 + q
  OBVIOUS
<1>3. OfTwo(b, x) = u
  BY DEF OfTwo
<1> HIDE DEF p, q
<1>4. u \in Nat /\ u >= 128 /\ u < 2048 /\ u \div 1024 # 54
  BY ONLY <1>1, <1>2
<1>5. u \div 64 = p /\ u % 64 = q
  BY ONLY <1>1, <1>2
<1> HIDE DEF u
<1>6. OfUnit(u) = <<192 + p, 128 + q>>
  BY <1>4, <1>5 DEF OfUnit
<1> QED BY <1>1, <1>2, <1>3, <1>4, <1>6 DEF IsHigh

\* The bytes of a character are a piece of the text.
LEMMA PieceOf ==
    ASSUME NEW T, NEW t \in Seq(T), NEW i \in 1..Len(t), NEW j \in i..Len(t)
    PROVE  /\ SubSeq(t, i, j) \in Seq(T) /\ Len(SubSeq(t, i, j)) = j - i + 1
           /\ \A k \in 1..j - i + 1 : SubSeq(t, i, j)[k] = t[i + k - 1]
BY SubSeqProperties

LEMMA FirstPieces ==
    ASSUME NEW T, NEW t \in Seq(T), NEW i \in 1..Len(t)
    PROVE  /\ SubSeq(t, i, i) = <<t[i]>>
           /\ i + 1 =< Len(t) => SubSeq(t, i, i + 1) = <<t[i], t[i + 1]>>
           /\ i + 2 =< Len(t) => SubSeq(t, i, i + 2) = <<t[i], t[i + 1], t[i + 2]>>
<1>1. SubSeq(t, i, i) = <<t[i]>>
  <2> DEFINE u == SubSeq(t, i, i)
  <2>1. u \in Seq(T) /\ Len(u) = 1 /\ u[1] = t[i]
    BY PieceOf
  <2> HIDE DEF u
  <2>2. u = <<t[i]>>
    BY <2>1
  <2> QED BY <2>2 DEF u
<1>2. ASSUME i + 1 =< Len(t) PROVE SubSeq(t, i, i + 1) = <<t[i], t[i + 1]>>
  <2> DEFINE u == SubSeq(t, i, i + 1)
  <2>1. u \in Seq(T) /\ Len(u) = 2 /\ u[1] = t[i] /\ u[2] = t[i + 1]
    <3>1. i + 1 \in i..Len(t)
      BY <1>2
    <3>2. 1 \in 1..(i + 1) - i + 1 /\ 2 \in 1..(i + 1) - i + 1 /\ (i + 1) - i + 1 = 2
      OBVIOUS
    <3> QED BY <3>1, <3>2, PieceOf
  <2> HIDE DEF u
  <2>2. u = <<t[i], t[i + 1]>>
    BY <2>1
  <2> QED BY <2>2 DEF u
<1>3. ASSUME i + 2 =< Len(t) PROVE SubSeq(t, i, i + 2) = <<t[i], t[i + 1], t[i + 2]>>
  <2> DEFINE u == SubSeq(t, i, i + 2)
  <2>1. u \in Seq(T) /\ Len(u) = 3 /\ u[1] = t[i] /\ u[2] = t[i + 1] /\ u[3] = t[i + 2]
    <3>1. i + 2 \in i..Len(t)
      BY <1>3
    <3>2. /\ 1 \in 1..(i + 2) - i + 1 /\ 2 \in 1..(i + 2) - i + 1 /\ 3 \in 1..(i + 2) - i + 1
          /\ (i + 2) - i + 1 = 3
      OBVIOUS
    <3> QED BY <3>1, <3>2, PieceOf
  <2> HIDE DEF u
  <2>2. u = <<t[i], t[i + 1], t[i + 2]>>
    BY <2>1
  <2> QED BY <2>2 DEF u
<1> QED BY <1>1, <1>2, <1>3

LEMMA CharacterKept ==
    ASSUME NEW text \in Seq(Byte), Utf8(text), \A k \in 1..Len(text) : text[k] < 240,
           NEW i \in 1..Len(text), text[i] \notin Further
    PROVE  LET w == Width(text[i])
           IN  /\ w \in 1..3 /\ i + w =< Len(text) + 1
               /\ i + w =< Len(text) => text[i + w] \notin Further
               /\ OfUnit(UnitAt(text, i)) = SubSeq(text, i, i + w - 1)
               /\ ~IsHigh(UnitAt(text, i))
<1>1. text[i] \in Nat /\ text[i] >= 1 /\ text[i] < 240
  BY ByteOf
<1>2. CASE text[i] >= 224
  <2>1. Width(text[i]) = 3
    BY <1>2 DEF Width
  <2>2. /\ i + 2 =< Len(text) /\ text[i + 1] \in Further /\ text[i + 2] \in Further
        /\ text[i] = 224 => text[i + 1] >= 160
        /\ text[i] = 237 => text[i + 1] < 160
        /\ text[i] < 240 /\ i + 3 =< Len(text) => text[i + 3] \notin Further
    BY <1>2, ThreeBytes
  <2>3. i + 1 \in 1..Len(text) /\ i + 2 \in 1..Len(text)
    BY <2>2
  <2>4. text[i + 1] \in Nat /\ text[i + 2] \in Nat
    BY <2>3, ByteOf
  <2>5. UnitAt(text, i) = OfThree(text[i], text[i + 1], text[i + 2])
    BY <2>1, <2>3 DEF UnitAt, ByteAt, OfThree
  <2>6. text[i + 1] >= 128 /\ text[i + 1] =< 191 /\ text[i + 2] >= 128 /\ text[i + 2] =< 191
    BY <2>2, <2>4, FurtherRange
  <2>7. text[i] >= 224 /\ text[i] =< 239
    BY <1>1, <1>2
  <2>8. /\ OfUnit(UnitAt(text, i)) = <<text[i], text[i + 1], text[i + 2]>>
        /\ ~IsHigh(UnitAt(text, i))
    BY <1>1, <2>2, <2>4, <2>5, <2>6, <2>7, ThreeKept
  <2>9. SubSeq(text, i, i + 2) = <<text[i], text[i + 1], text[i + 2]>>
    BY <2>2, FirstPieces
  <2>10. i + 3 =< Len(text) + 1 /\ i + 3 - 1 = i + 2
    BY <2>2
  <2>11. i + 3 =< Len(text) => text[i + 3] \notin Further
    BY <1>1, <2>2
  <2>12. OfUnit(UnitAt(text, i)) = SubSeq(text, i, i + 3 - 1)
    BY <2>8, <2>9, <2>10
  <2> QED BY <2>1, <2>8, <2>10, <2>11, <2>12
<1>3. CASE text[i] >= 192 /\ text[i] < 224
  <2>1. Width(text[i]) = 2
    BY <1>1, <1>3 DEF Width
  <2>2. /\ i + 1 =< Len(text) /\ text[i + 1] \in Further /\ text[i] >= 194
        /\ i + 2 =< Len(text) => text[i + 2] \notin Further
    BY <1>3, TwoBytes
  <2>3. i + 1 \in 1..Len(text)
    BY <2>2
  <2>4. text[i + 1] \in Nat
    BY <2>3, ByteOf
  <2>5. UnitAt(text, i) = OfTwo(text[i], text[i + 1])
    BY <2>1, <2>3 DEF UnitAt, ByteAt, OfTwo
  <2>6. text[i + 1] >= 128 /\ text[i + 1] =< 191
    BY <2>2, <2>4, FurtherRange
  <2>7. text[i] =< 223
    BY <1>1, <1>3
  <2>8. OfUnit(UnitAt(text, i)) = <<text[i], text[i + 1]>> /\ ~IsHigh(UnitAt(text, i))
    BY <1>1, <2>2, <2>4, <2>5, <2>6, <2>7, TwoKept
  <2>9. SubSeq(text, i, i + 1) = <<text[i], text[i + 1]>> /\ i + 2 - 1 = i + 1
    BY <2>2, FirstPieces
  <2> QED BY <2>1, <2>2, <2>8, <2>9
<1>4. CASE text[i] < 192
  <2>1. text[i] < 128
    BY <1>1, <1>4, FurtherRange
  <2>2. Width(text[i]) = 1 /\ UnitAt(text, i) = text[i]
    BY <1>1, <1>4 DEF Width, UnitAt
  <2>3. i + 1 =< Len(text) => text[i + 1] \notin Further
    BY <2>1, OneByte
  <2>4. OfUnit(text[i]) = <<text[i]>> /\ ~IsHigh(text[i])
    BY <1>1, <2>1 DEF OfUnit, IsHigh
  <2>5. SubSeq(text, i, i) = <<text[i]>> /\ i + 1 - 1 = i
    BY FirstPieces
  <2> QED BY <2>2, <2>3, <2>4, <2>5
<1> QED BY <1>1, <1>2, <1>3, <1>4

LEMMA WholePiece ==
    ASSUME NEW T, NEW t \in Seq(T)
    PROVE  SubSeq(t, 1, Len(t)) = t
<1> DEFINE s == SubSeq(t, 1, Len(t))
<1>1. s \in Seq(T) /\ Len(s) = Len(t) /\ \A k \in 1..Len(t) : s[k] = t[k]
  BY SubSeqProperties
<1> HIDE DEF s
<1>2. s = t
  BY <1>1, SeqEqual
<1> QED BY <1>2 DEF s

LEMMA Rejoined ==
    ASSUME NEW T, NEW t \in Seq(T), NEW i \in 1..Len(t), NEW n \in i + 1..Len(t) + 1
    PROVE  SubSeq(t, i, n - 1) \o SubSeq(t, n, Len(t)) = SubSeq(t, i, Len(t))
<1> DEFINE p == SubSeq(t, i, n - 1)
           q == SubSeq(t, n, Len(t))
           r == SubSeq(t, i, Len(t))
<1>1. p \in Seq(T) /\ Len(p) = n - i /\ \A k \in 1..n - i : p[k] = t[i + k - 1]
  <2>1. n - 1 \in i..Len(t) /\ (n - 1) - i + 1 = n - i
    OBVIOUS
  <2> QED BY <2>1, PieceOf
<1>2. q \in Seq(T) /\ Len(q) = Len(t) - n + 1 /\ \A k \in 1..Len(t) - n + 1 : q[k] = t[n + k - 1]
  BY SubSeqProperties
<1>3. r \in Seq(T) /\ Len(r) = Len(t) - i + 1 /\ \A k \in 1..Len(t) - i + 1 : r[k] = t[i + k - 1]
  BY SubSeqProperties
<1> HIDE DEF p, q, r
<1>4. p \o q \in Seq(T) /\ Len(p \o q) = Len(r)
  <2>1. p \o q \in Seq(T) /\ Len(p \o q) = Len(p) + Len(q)
    BY <1>1, <1>2, ConcatProperties
  <2>2. Len(p) + Len(q) = Len(r)
    BY <1>1, <1>2, <1>3
  <2> QED BY <2>1, <2>2
<1>5. ASSUME NEW k \in 1..Len(p \o q) PROVE (p \o q)[k] = r[k]
  <2>1. k \in 1..Len(t) - i + 1 /\ r[k] = t[i + k - 1]
    BY <1>3, <1>4, <1>5
  <2>2. CASE k =< n - i
    BY <1>1, <1>2, <2>1, <2>2
  <2>3. CASE ~(k =< n - i)
    <3>1. k - (n - i) \in 1..Len(t) - n + 1 /\ n + (k - (n - i)) - 1 = i + k - 1
      BY <2>1, <2>3
    <3>2. (p \o q)[k] = q[k - (n - i)]
      BY <1>1, <1>2, <2>1, <2>3, ConcatProperties
    <3>3. q[k - (n - i)] = t[n + (k - (n - i)) - 1]
      BY <1>2, <3>1
    <3> QED BY <2>1, <3>1, <3>2, <3>3
  <2> QED BY <2>2, <2>3
<1>6. p \o q = r
  BY <1>3, <1>4, <1>5, SeqEqual
<1> QED BY <1>6 DEF p, q, r

Heads(u, s, t, j) == <<u>> \o s = SubSeq(t, j, Len(t))

LEMMA FirstOfPiece ==
    ASSUME NEW T, NEW t \in Seq(T), NEW s \in Seq(T), NEW u \in T, NEW j \in 1..Len(t) + 1,
           Heads(u, s, t, j)
    PROVE  j =< Len(t) /\ t[j] = u /\ s = SubSeq(t, j + 1, Len(t))
<1> DEFINE p == SubSeq(t, j, Len(t))
           q == SubSeq(t, j + 1, Len(t))
           r == <<u>> \o s
<1>1. r \in Seq(T) /\ Len(r) = 1 + Len(s) /\ r[1] = u /\ \A k \in 1..Len(s) : r[k + 1] = s[k]
  <2>1. <<u>> \in Seq(T) /\ Len(<<u>>) = 1 /\ <<u>>[1] = u
    OBVIOUS
  <2> QED BY <2>1, ConcatProperties
<1>2. /\ p \in Seq(T) /\ Len(p) = IF j =< Len(t) THEN Len(t) - j + 1 ELSE 0
      /\ \A k \in 1..Len(t) - j + 1 : p[k] = t[j + k - 1]
  BY SubSeqProperties
<1>3. q \in Seq(T) /\ Len(q) = (IF j + 1 =< Len(t) THEN Len(t) - (j + 1) + 1 ELSE 0)
      /\ \A k \in 1..Len(t) - (j + 1) + 1 : q[k] = t[(j + 1) + k - 1]
  <2>1. j + 1 \in Int /\ Len(t) \in Int /\ \A k \in j + 1..Len(t) : t[k] \in T
    OBVIOUS
  <2> QED BY <2>1, SubSeqProperties
<1>4. p = r
  BY DEF Heads
<1> HIDE DEF p, q, r
<1>5. j =< Len(t) /\ Len(s) = Len(t) - j
  BY <1>1, <1>2, <1>4
<1>6. t[j] = u
  BY <1>1, <1>2, <1>4, <1>5
<1>7. ASSUME NEW k \in 1..Len(s) PROVE s[k] = q[k]
  <2>1. k + 1 \in 1..Len(t) - j + 1 /\ k \in 1..Len(t) - (j + 1) + 1 /\ j + (k + 1) - 1 = (j + 1) + k - 1
    BY <1>5
  <2>2. s[k] = p[k + 1]
    BY <1>1, <1>4
  <2>3. p[k + 1] = t[j + (k + 1) - 1]
    BY <1>2, <2>1
  <2>4. q[k] = t[(j + 1) + k - 1]
    BY <1>3, <2>1
  <2> QED BY <2>1, <2>2, <2>3, <2>4
<1>8. Len(q) = Len(s)
  BY <1>3, <1>5
<1>9. s = q
  BY <1>3, <1>7, <1>8, SeqEqual
<1> QED BY <1>5, <1>6, <1>9 DEF q

LEMMA WildBehind ==
    ASSUME NEW a \in Int, NEW s \in Seq(Int), Wild \in Units(s)
    PROVE  Wild \in Units(<<a>> \o s)
<1>1. PICK k \in 1..Len(s) : s[k] = Wild
  BY DEF Units
<1>2. <<a>> \in Seq(Int) /\ Len(<<a>>) = 1
  OBVIOUS
<1>3. Len(<<a>> \o s) = 1 + Len(s) /\ (<<a>> \o s)[k + 1] = s[k]
  BY <1>1, <1>2, ConcatProperties
<1>4. k + 1 \in 1..Len(<<a>> \o s)
  BY <1>3
<1> QED BY <1>1, <1>3, <1>4 DEF Units

\* What the dialog shows of a text, or of the part of it that was copied, is
\* made of units, unless the conversion ran past the end.
LEMMA ShownUnits ==
    ASSUME NEW text \in Seq(Byte), Utf8(text), NEW src \in Seq(Byte),
           Len(src) =< Len(text), \A k \in 1..Len(src) : src[k] = text[k]
    PROVE  _utf8_to_utf16(src) \in Seq(Unit) \/ Wild \in Units(_utf8_to_utf16(src))
<1>0. PICK L \in Nat : L = Len(src)
  OBVIOUS
<1>1. PICK f \in [Nat \ {0} -> Seq(Int)] : Decodes(f, src) /\ _utf8_to_utf16(src) = f[1]
  BY Decoded
<1>2. \A i \in Nat \ {0} : f[i] = IF i = L + 1 THEN <<>>
                                  ELSE IF i > L + 1 THEN <<Wild>>
                                  ELSE <<UnitAt(src, i)>> \o f[i + Width(src[i])]
  BY <1>0, <1>1 DEF Decodes
<1> DEFINE Sound(s) == s \in Seq(Unit) \/ Wild \in Units(s)
           S == {i \in 1..L + 1 : Sound(f[i])}
<1>3. ASSUME NEW i \in 1..L + 1, \A j \in i + 1..L + 1 : j \in S PROVE Sound(f[i])
  <2>1. CASE i = L + 1
    <3>1. L + 1 \in Nat \ {0}
      OBVIOUS
    <3>2. f[i] = <<>>
      BY <1>2, <2>1, <3>1
    <3> QED BY <3>2
  <2>2. CASE i =< L
    <3>1. i \in 1..L /\ i \in Nat \ {0} /\ ~(i = L + 1) /\ ~(i > L + 1)
      BY <2>2
    <3>2. UnitAt(src, i) \in Int /\ Width(src[i]) \in 1..3
      BY <1>0, <3>1, UnitAtType
    <3>3. PICK n \in Nat \ {0} : n = i + Width(src[i]) /\ n > i
      <4>1. PICK w \in 1..3 : w = Width(src[i])
        BY <3>2
      <4>2. i + w \in Nat \ {0} /\ i + w > i
        BY ONLY i \in 1..L + 1, L \in Nat, w \in 1..3
      <4> QED BY <4>1, <4>2
    <3>4. f[i] = <<UnitAt(src, i)>> \o f[n] /\ f[n] \in Seq(Int)
      BY <1>2, <3>1, <3>3
    <3>5. CASE n > L + 1
      <4>0. ~(n = L + 1)
        BY <3>5
      <4>1. f[n] = <<Wild>>
        BY <1>2, <3>5, <4>0
      <4>2. Wild \in Units(f[n])
        BY <4>1 DEF Units
      <4> QED BY <3>2, <3>4, <4>2, WildBehind
    <3>6. CASE n =< L + 1
      <4>1. Sound(f[n])
        <5>1. n \in i + 1..L + 1
          BY ONLY <3>3, <3>6, i \in 1..L + 1, L \in Nat, n \in Nat \ {0}
        <5> HIDE DEF Sound
        <5> QED BY <1>3, <5>1
      <4>2. CASE Wild \in Units(f[n])
        BY <3>2, <3>4, <4>2, WildBehind
      <4>3. CASE f[n] \in Seq(Unit)
        <5>1. i + Width(src[i]) =< Len(src) + 1
          BY <1>0, <3>3, <3>6
        <5>2. UnitAt(src, i) \in Unit
          BY <1>0, <3>1, <5>1, UnitOfText
        <5>3. <<UnitAt(src, i)>> \in Seq(Unit)
          BY <5>2
        <5>4. f[i] \in Seq(Unit)
          BY ONLY <3>4, <4>3, <5>3, JoinedType, Zenon
        <5> QED BY <5>4
      <4> QED BY <4>1, <4>2, <4>3
    <3> QED BY <3>5, <3>6
  <2>3. i = L + 1 \/ i =< L
    OBVIOUS
  <2> QED BY <2>1, <2>2, <2>3, Zenon
<1>4. 1 \in S
  <2>1. ASSUME NEW i \in 1..L + 1, \A j \in i + 1..L + 1 : j \in S PROVE i \in S
    <3> HIDE DEF Sound
    <3> QED BY <1>3, <2>1
  <2>2. L + 1 \in Nat /\ 1 \in 1..L + 1
    OBVIOUS
  <2> HIDE DEF S
  <2>3. \A i \in 1..L + 1 : i \in S
    BY <2>1, <2>2, FromTheEnd
  <2> QED BY <2>2, <2>3
<1> QED BY <1>1, <1>4

\* The two conversions undo each other on characters of up to three bytes.
LEMMA RoundTrip ==
    ASSUME NEW text \in Seq(Byte), Utf8(text), \A k \in 1..Len(text) : text[k] < 240
    PROVE  /\ _utf8_to_utf16(text) \in Seq(Unit)
           /\ _utf16_to_utf8(_utf8_to_utf16(text)) = text
<1>0. PICK L \in Nat : L = Len(text)
  OBVIOUS
<1>1. PICK f \in [Nat \ {0} -> Seq(Int)] : Decodes(f, text) /\ _utf8_to_utf16(text) = f[1]
  BY Decoded
<1>2. \A i \in Nat \ {0} : f[i] = IF i = L + 1 THEN <<>>
                                  ELSE IF i > L + 1 THEN <<Wild>>
                                  ELSE <<UnitAt(text, i)>> \o f[i + Width(text[i])]
  BY <1>0, <1>1 DEF Decodes
<1> DEFINE Start(i) == i = L + 1 \/ (i \in 1..L /\ text[i] \notin Further)
           Piece(i, n, u) == /\ f[i] = <<u>> \o f[n] /\ ~IsHigh(u)
                             /\ OfUnit(u) = SubSeq(text, i, n - 1)
<1>3. f[L + 1] = <<>>
  <2>1. L + 1 \in Nat \ {0}
    OBVIOUS
  <2> QED BY <1>2, <2>1
<1>4. ASSUME NEW i \in 1..L, text[i] \notin Further
      PROVE  \E n \in i + 1..L + 1, u \in Unit : Start(n) /\ Piece(i, n, u)
  <2>1. i \in 1..Len(text)
    BY <1>0
  <2>2. /\ Width(text[i]) \in 1..3 /\ i + Width(text[i]) =< Len(text) + 1
        /\ i + Width(text[i]) =< Len(text) => text[i + Width(text[i])] \notin Further
        /\ OfUnit(UnitAt(text, i)) = SubSeq(text, i, i + Width(text[i]) - 1)
        /\ ~IsHigh(UnitAt(text, i))
    BY <1>4, <2>1, CharacterKept
  <2>3. PICK w \in 1..3 : w = Width(text[i])
    BY <2>2
  <2>4. i + w =< L + 1
    BY <1>0, <2>2, <2>3
  <2>5. i + w \in i + 1..L + 1
    BY ONLY w \in 1..3, i \in 1..L, L \in Nat, <2>4
  <2>6. PICK n \in i + 1..L + 1 : n = i + w
    BY ONLY <2>5
  <2>7. PICK u \in Unit : u = UnitAt(text, i)
    <3>1. Len(text) =< Len(text)
      BY <1>0
    <3> QED BY <2>1, <2>2, <3>1, UnitOfText
  <2>8. i \in Nat \ {0} /\ ~(i = L + 1) /\ ~(i > L + 1)
    OBVIOUS
  <2>9. f[i] = <<u>> \o f[n]
    BY <1>2, <2>3, <2>6, <2>7, <2>8
  <2>10. n =< L => text[n] \notin Further
    BY <1>0, <2>2, <2>3, <2>6
  <2>11. Start(n)
    <3>1. n = L + 1 \/ n \in 1..L
      OBVIOUS
    <3> QED BY <2>10, <3>1
  <2>12. Piece(i, n, u)
    <3>1. n - 1 = i + w - 1
      BY <2>6
    <3>2. OfUnit(u) = SubSeq(text, i, n - 1)
      BY <2>2, <2>3, <2>7, <3>1, Zenon
    <3>3. ~IsHigh(u)
      BY <2>2, <2>7, Zenon
    <3> QED BY <2>9, <3>2, <3>3, Zenon
  <2> HIDE DEF Piece, Start
  <2> QED BY <2>11, <2>12
<1>5. Start(1)
  <2>1. CASE L = 0
    BY <2>1
  <2>2. CASE L # 0
    <3>1. text[1] \notin Further /\ 1 \in 1..L
      BY <1>0, <2>2 DEF Utf8
    <3> QED BY <3>1
  <2> QED BY <2>1, <2>2
<1>6. L + 1 \in Nat /\ 1 \in 1..L + 1
  OBVIOUS
<1> DEFINE Typed == {i \in 1..L + 1 : Start(i) => f[i] \in Seq(Unit)}
<1>7. ASSUME NEW i \in 1..L + 1, \A j \in i + 1..L + 1 : j \in Typed PROVE i \in Typed
  <2>1. CASE i = L + 1
    <3>1. f[i] \in Seq(Unit)
      BY <1>3, <2>1
    <3> QED BY <3>1
  <2>2. ASSUME i \in 1..L, text[i] \notin Further PROVE f[i] \in Seq(Unit)
    <3>1. PICK n \in i + 1..L + 1, u \in Unit : Start(n) /\ Piece(i, n, u)
      BY <1>4, <2>2
    <3>2. f[n] \in Seq(Unit)
      BY <1>7, <3>1
    <3>3. <<u>> \in Seq(Unit)
      OBVIOUS
    <3>4. f[i] = <<u>> \o f[n]
      BY <3>1
    <3> QED BY ONLY <3>2, <3>3, <3>4, JoinedType, Zenon
  <2> QED BY <2>1, <2>2
<1>8. f[1] \in Seq(Unit)
  <2>1. \A i \in 1..L + 1 : i \in Typed
    <3> HIDE DEF Typed
    <3> QED BY <1>6, <1>7, FromTheEnd
  <2> QED BY <1>5, <1>6, <2>1
<1>9. PICK t \in Seq(Unit) : t = f[1]
  BY <1>8
<1>10. PICK g \in [Nat \ {0} -> Seq(Byte)] : Encodes(g, t) /\ _utf16_to_utf8(t) = g[1]
  BY Encoded
<1>11. PICK M \in Nat : M = Len(t)
  OBVIOUS
<1>12. \A i \in Nat \ {0} : g[i] = IF i > M THEN <<>>
                                   ELSE IF PairAt(t, i) THEN OfPair(t[i], t[i + 1]) \o g[i + 2]
                                   ELSE OfUnit(t[i]) \o g[i + 1]
  BY <1>10, <1>11 DEF Encodes
<1> DEFINE Back(i) == \A j \in 1..M + 1 : f[i] = SubSeq(t, j, M) => g[j] = SubSeq(text, i, L)
           Kept == {i \in 1..L + 1 : Start(i) => Back(i)}
<1>13. ASSUME NEW i \in 1..L + 1, \A j \in i + 1..L + 1 : j \in Kept PROVE i \in Kept
  <2>1. CASE i = L + 1
    <3>1. ASSUME NEW j \in 1..M + 1, f[i] = SubSeq(t, j, M) PROVE g[j] = SubSeq(text, i, L)
      <4>1. SubSeq(t, j, M) = <<>>
        BY <1>3, <2>1, <3>1
      <4>2. j > M
        <5>1. Len(SubSeq(t, j, M)) = IF j =< M THEN M - j + 1 ELSE 0
          BY <1>11, SubSeqProperties
        <5> QED BY <4>1, <5>1
      <4>3. g[j] = <<>>
        <5>1. j \in Nat \ {0}
          OBVIOUS
        <5> QED BY <1>12, <4>2, <5>1
      <4>4. SubSeq(text, L + 1, L) = <<>>
        BY SubSeqEmpty
      <4> QED BY <2>1, <4>3, <4>4
    <3> QED BY <3>1
  <2>2. ASSUME i \in 1..L, text[i] \notin Further,
               NEW j \in 1..M + 1, f[i] = SubSeq(t, j, M)
        PROVE  g[j] = SubSeq(text, i, L)
    <3>1. PICK n \in i + 1..L + 1, u \in Unit : Start(n) /\ Piece(i, n, u)
      BY <1>4, <2>2
    <3>2. f[n] \in Seq(Unit)
      <4>1. \A k \in 1..L + 1 : k \in Typed
        <5> HIDE DEF Typed
        <5> QED BY <1>6, <1>7, FromTheEnd
      <4>2. n \in 1..L + 1
        OBVIOUS
      <4> QED BY <3>1, <4>1, <4>2
    <3>3. <<u>> \o f[n] = SubSeq(t, j, Len(t)) /\ j \in 1..Len(t) + 1
      BY <1>11, <2>2, <3>1
    <3>4. j =< M /\ t[j] = u /\ f[n] = SubSeq(t, j + 1, M)
      <4> HIDE DEF Piece, Start, Typed, Back, Kept
      <4>1. Heads(u, f[n], t, j)
        BY <3>3 DEF Heads
      <4>2. j =< Len(t) /\ t[j] = u /\ f[n] = SubSeq(t, j + 1, Len(t))
        BY <3>2, <3>3, <4>1, FirstOfPiece
      <4> QED BY <1>11, <4>2
    <3>5. g[j] = OfUnit(u) \o g[j + 1]
      <4>1. j \in Nat \ {0} /\ ~(j > M)
        BY <3>4
      <4>2. ~PairAt(t, j)
        BY <3>1, <3>4 DEF PairAt
      <4>3. g[j] = OfUnit(t[j]) \o g[j + 1]
        BY <1>12, <4>1, <4>2
      <4> QED BY <3>4, <4>3
    <3>6. g[j + 1] = SubSeq(text, n, L)
      <4>1. n \in Kept
        BY <1>13
      <4>2. Back(n)
        BY <3>1, <4>1
      <4>3. j + 1 \in 1..M + 1
        BY <3>4
      <4> QED BY <3>4, <4>2, <4>3
    <3>7. SubSeq(text, i, n - 1) \o SubSeq(text, n, L) = SubSeq(text, i, L)
      BY <1>0, <2>2, Rejoined
    <3> QED BY <3>1, <3>5, <3>6, <3>7
  <2> HIDE DEF Typed
  <2> QED BY <2>1, <2>2
<1>14. Back(1)
  <2>1. \A i \in 1..L + 1 : i \in Kept
    <3> HIDE DEF Kept
    <3> QED BY <1>6, <1>13, FromTheEnd
  <2> QED BY <1>5, <1>6, <2>1
<1>15. f[1] = SubSeq(t, 1, M) /\ SubSeq(text, 1, L) = text
  BY <1>0, <1>9, <1>11, WholePiece
<1>16. g[1] = text
  <2>1. 1 \in 1..M + 1
    OBVIOUS
  <2> QED BY <1>14, <1>15, <2>1
<1> QED BY <1>1, <1>9, <1>10, <1>16

-----------------------------------------------------------------------------
\* What deleting leaves of a text is a piece from its start, and nothing when
\* there are as many deletions as bytes.
LEMMA DeletedPiece ==
    ASSUME NEW text \in Seq(Byte), NEW n \in Nat
    PROVE  \E k \in 0..Len(text) : /\ Deleted(text, n) = SubSeq(text, 1, k)
                                   /\ n >= Len(text) => k = 0
<1>0. PICK L \in Nat : L = Len(text)
  OBVIOUS
<1> DEFINE Starts(k) == {i \in k + 1..Len(text) : text[i] \notin Further}
           cuts == {0, Len(text)} \cup {i - 1 : i \in Starts(0)}
           left == {k \in cuts : Cardinality(Starts(k)) =< n}
           least == CHOOSE k \in left : \A j \in left : k =< j
           R == OpToRel(<, Nat)
<1>1. left \subseteq 0..L
  BY <1>0
<1>2. L \in left
  <2>1. Starts(L) = {}
    BY <1>0
  <2>2. Cardinality(Starts(L)) = 0
    BY <2>1, FS_EmptySet
  <2> HIDE DEF Starts
  <2> QED BY <1>0, <2>2
<1>3. n >= L => 0 \in left
  <2>1. IsFiniteSet(1..L) /\ Cardinality(1..L) = L
    BY FS_Interval
  <2>2. Starts(0) \subseteq 1..L
    BY <1>0
  <2> HIDE DEF Starts
  <2>3. Cardinality(Starts(0)) \in Nat /\ Cardinality(Starts(0)) =< L
    BY <2>1, <2>2, FS_Subset, FS_CardinalityType
  <2> QED BY <2>3
<1>4. Deleted(text, n) = SubSeq(text, 1, least)
  BY DEF Deleted
<1> HIDE DEF left, R
<1>5. \A x, y \in Nat : <<x, y>> \in R <=> x < y
  BY DEF R, OpToRel
<1>6. IsWellFoundedOn(R, Nat)
  BY NatLessThanWellFounded DEF R
<1>7. left \subseteq Nat /\ left # {}
  BY <1>1, <1>2
<1>8. PICK k \in left : \A j \in left : ~ (<<j, k>> \in R)
  BY <1>6, <1>7, WFMin, Zenon
<1>9. ASSUME NEW j \in left PROVE k =< j
  <2>1. j \in Nat /\ k \in Nat
    BY <1>7
  <2>2. ~(j < k)
    BY <1>5, <1>8, <2>1
  <2> QED BY <2>1, <2>2
<1>10. least \in left /\ \A j \in left : least =< j
  BY <1>9
<1> HIDE DEF least
<1>11. least \in 0..L /\ (n >= L => least = 0)
  BY <1>1, <1>3, <1>10
<1> QED BY <1>0, <1>4, <1>11

LEMMA DeletedWhole ==
    ASSUME NEW text \in Seq(Byte)
    PROVE  Deleted(text, Len(text)) = <<>>
<1>1. Len(text) \in Nat /\ Len(text) >= Len(text)
  OBVIOUS
<1>2. Deleted(text, Len(text)) = SubSeq(text, 1, 0)
  BY <1>1, DeletedPiece
<1> QED BY <1>2, SubSeqEmpty

\* The keyboard by the stages of its life.  What the user confirmed is only
\* converted at the end, from what was typed; the field is the one that it was
\* opened on until then.
KeyboardInv ==
    /\ dialog \in {"none", "running", "finished", "replaced"}
    /\ button \in {"enter", "close"}
    /\ field \in Seq(Byte) /\ before \in Seq(Byte) /\ initial \in Seq(Byte)
    /\ ime_input_text_utf8 \in Seq(Byte)
    /\ shown \in Seq(Unit) /\ typed \in Seq(Unit)
    /\ initial = Cut(before)
    /\ dialog # "none" =>
        /\ before \in Contents
        /\ \/ shown = _utf8_to_utf16(initial)
           \/ Wild \in Units(_utf8_to_utf16(initial))
    /\ dialog \in {"running", "finished"} => field = before /\ ime_input_text_utf8 = <<>>
    /\ dialog = "replaced" =>
        /\ ime_input_text_utf8 = IF button = "enter" THEN _utf16_to_utf8(typed) ELSE <<>>
        /\ field = Replaced(before, initial, ime_input_text_utf8)

LEMMA CutPiece ==
    ASSUME NEW text \in Seq(Byte)
    PROVE  /\ Cut(text) \in Seq(Byte) /\ Len(Cut(text)) =< MaxInitial /\ Len(Cut(text)) =< Len(text)
           /\ \A k \in 1..Len(Cut(text)) : Cut(text)[k] = text[k]
           /\ Len(text) =< MaxInitial => Cut(text) = text
<1>1. CASE Len(text) =< MaxInitial
  BY <1>1, KeyboardAssumption DEF Cut
<1>2. CASE Len(text) > MaxInitial
  <2>1. Cut(text) = SubSeq(text, 1, MaxInitial)
    BY <1>2 DEF Cut
  <2>2. /\ SubSeq(text, 1, MaxInitial) \in Seq(Byte) /\ Len(SubSeq(text, 1, MaxInitial)) = MaxInitial
        /\ \A k \in 1..MaxInitial : SubSeq(text, 1, MaxInitial)[k] = text[k]
    <3>1. 1 \in 1..Len(text) /\ MaxInitial \in 1..Len(text) /\ MaxInitial - 1 + 1 = MaxInitial
      BY <1>2, KeyboardAssumption
    <3> QED BY <3>1, PieceOf
  <2> QED BY <1>2, <2>1, <2>2, KeyboardAssumption
<1> QED BY <1>1, <1>2, KeyboardAssumption

LEMMA KeyboardStarts == KeyboardInit => KeyboardInv
<1> SUFFICES ASSUME KeyboardInit PROVE KeyboardInv
  OBVIOUS
<1>1. Cut(<<>>) = <<>>
  BY KeyboardAssumption DEF Cut
<1> QED BY <1>1 DEF KeyboardInit, KeyboardInv

LEMMA KeyboardOpens ==
    ASSUME KeyboardInv, OpenKeyboard
    PROVE  KeyboardInv'
<1>1. PICK content \in Contents : field' = content /\ before' = content /\ initial' = Cut(content)
  BY DEF OpenKeyboard
<1>2. content \in Seq(Byte) /\ Utf8(content)
  BY KeyboardAssumption, ContentsAssumption
<1>3. /\ initial' \in Seq(Byte) /\ Len(initial') =< Len(content)
      /\ \A k \in 1..Len(initial') : initial'[k] = content[k]
  BY <1>1, <1>2, CutPiece
<1>4. _utf8_to_utf16(initial') \in Seq(Unit) \/ Wild \in Units(_utf8_to_utf16(initial'))
  BY <1>2, <1>3, ShownUnits
<1>5. /\ shown' \in Seq(Unit)
      /\ shown' = _utf8_to_utf16(initial') \/ Wild \in Units(_utf8_to_utf16(initial'))
  <2>1. IF Wild \in Units(_utf8_to_utf16(initial')) THEN shown' \in Typings
        ELSE shown' = _utf8_to_utf16(initial')
    BY DEF OpenKeyboard
  <2> QED BY <1>4, <2>1, KeyboardAssumption
<1>6. /\ typed' = <<>> /\ ime_input_text_utf8' = <<>> /\ dialog' = "running" /\ button' = button
  BY DEF OpenKeyboard
<1>7. typed' \in Seq(Unit) /\ ime_input_text_utf8' \in Seq(Byte)
  BY <1>6
<1> QED BY <1>1, <1>2, <1>3, <1>5, <1>6, <1>7 DEF KeyboardInv

LEMMA KeyboardFinishes ==
    ASSUME KeyboardInv, Finish
    PROVE  KeyboardInv'
<1>1. typed' \in Seq(Unit)
  BY KeyboardAssumption DEF KeyboardInv, Finish
<1> QED BY <1>1 DEF KeyboardInv, Finish

LEMMA KeyboardReplaces ==
    ASSUME KeyboardInv, GetResult
    PROVE  KeyboardInv'
<1>1. ime_input_text_utf8' = IF button = "enter" THEN _utf16_to_utf8(typed) ELSE <<>>
  BY DEF KeyboardInv, GetResult
<1>2. _utf16_to_utf8(typed) \in Seq(Byte)
  <2>1. typed \in Seq(Unit)
    BY DEF KeyboardInv
  <2>2. PICK f \in [Nat \ {0} -> Seq(Byte)] : _utf16_to_utf8(typed) = f[1]
    BY <2>1, Encoded
  <2> QED BY <2>2
<1>3. ime_input_text_utf8' \in Seq(Byte)
  BY <1>1, <1>2
<1>4. field' = Replaced(before, initial, ime_input_text_utf8')
  BY DEF KeyboardInv, GetResult
<1>5. field' \in Seq(Byte)
  <2>1. before \in Seq(Byte) /\ initial \in Seq(Byte)
    BY DEF KeyboardInv
  <2>2. PICK k \in 0..Len(before) : Deleted(before, Len(initial)) = SubSeq(before, 1, k)
    BY <2>1, DeletedPiece
  <2>3. SubSeq(before, 1, k) \in Seq(Byte)
    BY <2>1, SubSeqProperties
  <2> QED BY <1>3, <1>4, <2>2, <2>3 DEF Replaced
<1> QED BY <1>1, <1>3, <1>4, <1>5 DEF KeyboardInv, GetResult

LEMMA KeyboardCloses ==
    ASSUME KeyboardInv, CloseKeyboard
    PROVE  KeyboardInv'
<1>1. Cut(<<>>) = <<>>
  BY KeyboardAssumption DEF Cut
<1> QED BY <1>1 DEF KeyboardInv, CloseKeyboard

LEMMA KeyboardStep ==
    ASSUME KeyboardInv, OpenKeyboard \/ Finish \/ GetResult \/ CloseKeyboard \/ UNCHANGED keyboard
    PROVE  KeyboardInv'
<1>1. CASE UNCHANGED keyboard
  BY <1>1 DEF KeyboardInv, keyboard
<1> QED BY <1>1, KeyboardOpens, KeyboardFinishes, KeyboardReplaces, KeyboardCloses

LEMMA UnitsOf ==
    ASSUME NEW T, NEW s \in Seq(T)
    PROVE  Units(s) \subseteq T
BY DEF Units

\* The invariant says of each answer what the field must hold.
LEMMA FieldFollows == KeyboardInv => FieldAsConfirmed
<1> SUFFICES ASSUME KeyboardInv PROVE FieldAsConfirmed
  OBVIOUS
<1>1. /\ field \in Seq(Byte) /\ before \in Seq(Byte) /\ initial \in Seq(Byte)
      /\ ime_input_text_utf8 \in Seq(Byte) /\ shown \in Seq(Unit) /\ typed \in Seq(Unit)
      /\ initial = Cut(before)
  BY DEF KeyboardInv
<1>2. KeyboardTypeOK
  <2>1. \A text \in {field, before, initial, ime_input_text_utf8} : Units(text) \subseteq Byte
    BY <1>1, UnitsOf
  <2>2. Units(shown) \subseteq Unit /\ Units(typed) \subseteq Unit
    BY <1>1, UnitsOf
  <2>3. Len(initial) =< MaxInitial
    BY <1>1, CutPiece
  <2> QED BY <2>1, <2>2, <2>3 DEF KeyboardInv, KeyboardTypeOK
<1>3. ASSUME dialog = "replaced"
      PROVE  /\ field = Deleted(before, Len(initial)) \o ime_input_text_utf8
             /\ button = "enter" => ime_input_text_utf8 = _utf16_to_utf8(typed)
             /\ button = "close" => ime_input_text_utf8 = <<>>
  BY <1>3 DEF KeyboardInv, Replaced
<1>4. ConfirmReplaces
  <2> SUFFICES ASSUME dialog = "replaced", button = "enter", Len(before) =< MaxInitial
               PROVE  field = _utf16_to_utf8(typed)
    BY DEF ConfirmReplaces
  <2>1. initial = before
    BY <1>1, CutPiece
  <2>2. Deleted(before, Len(before)) = <<>>
    BY <1>1, DeletedWhole
  <2> QED BY <1>1, <1>3, <2>1, <2>2
<1>5. UneditedIsKept
  <2> SUFFICES ASSUME dialog = "replaced", button = "enter", typed = shown,
                      Len(before) =< MaxInitial, Units(before) \cap 240..255 = {}
               PROVE  field = before
    BY DEF UneditedIsKept
  <2>1. field = _utf16_to_utf8(shown)
    BY <1>4 DEF ConfirmReplaces
  <2>2. initial = before /\ before \in Contents
    BY <1>1, CutPiece DEF KeyboardInv
  <2>3. Utf8(before)
    BY <2>2, ContentsAssumption
  <2>4. ASSUME NEW k \in 1..Len(before) PROVE before[k] < 240
    <3>1. before[k] \in Units(before)
      BY DEF Units
    <3>2. before[k] \in Nat /\ before[k] =< 255
      BY <1>1, ByteOf
    <3>3. before[k] \notin 240..255
      BY <3>1
    <3>4. \A b \in Nat : b =< 255 /\ b \notin 240..255 => b < 240
      OBVIOUS
    <3> QED BY <3>2, <3>3, <3>4
  <2>5. /\ _utf8_to_utf16(before) \in Seq(Unit)
        /\ _utf16_to_utf8(_utf8_to_utf16(before)) = before
    BY <1>1, <2>3, <2>4, RoundTrip
  <2>6. Wild \notin Units(_utf8_to_utf16(before))
    <3>1. Units(_utf8_to_utf16(before)) \subseteq Unit
      BY <2>5, UnitsOf
    <3>2. Wild \notin Unit
      BY DEF Wild, Unit
    <3> QED BY <3>1, <3>2
  <2>7. shown = _utf8_to_utf16(before)
    BY <2>2, <2>6 DEF KeyboardInv
  <2> QED BY <2>1, <2>5, <2>7
<1>6. CancelInsertsNothing
  <2> SUFFICES ASSUME dialog = "replaced", button = "close"
               PROVE  Len(field) =< Len(before) /\ field = SubSeq(before, 1, Len(field))
    BY DEF CancelInsertsNothing
  <2>1. PICK k \in 0..Len(before) : Deleted(before, Len(initial)) = SubSeq(before, 1, k)
    <3>1. Len(initial) \in Nat
      BY <1>1
    <3> QED BY <1>1, <3>1, DeletedPiece
  <2>2. SubSeq(before, 1, k) \in Seq(Byte) /\ Len(SubSeq(before, 1, k)) = k
    BY <1>1, SubSeqProperties
  <2>3. field = SubSeq(before, 1, k)
    BY <1>3, <2>1, <2>2
  <2> QED BY <2>2, <2>3
<1> QED BY <1>2, <1>4, <1>5, <1>6 DEF FieldAsConfirmed

LEMMA KeyboardHolds == LoopSpec => []KeyboardInv
<1>1. LoopInit => KeyboardInv
  BY KeyboardStarts DEF LoopInit
<1>2. KeyboardInv /\ [LoopNext]_<<vars, keyboard>> => KeyboardInv'
  BY KeyboardStep DEF LoopNext, Frame, Edit, Poll
<1> QED BY <1>1, <1>2, PTL DEF LoopSpec

\* After confirming, the field holds what was confirmed and nothing of what it
\* held, and what it held where nothing was changed; a cancel puts nothing in
\* (openIMEKeyboard, get_ime_dialog_result and the two conversions): for any
\* texts, any typing and any size of openIMEKeyboard's copy.
THEOREM FieldAlwaysConfirmed == LoopSpec => []FieldAsConfirmed
BY KeyboardHolds, FieldFollows, PTL
=============================================================================
