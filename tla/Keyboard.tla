------------------------------ MODULE Keyboard ------------------------------
(***************************************************************************)
(* The on-screen keyboard: openIMEKeyboard (source/falso_jni_impl.c) and   *)
(* the dialog under it (source/utils/dialog.c).  The game calls it with a  *)
(* text field selected; it blocks the frame loop, polling the system's     *)
(* dialog, and then takes the old text out of the field and puts the new   *)
(* one in.                                                                 *)
(*                                                                         *)
(* Text is UTF-8 in the game and UTF-16 in the dialog: sequences of bytes  *)
(* and of 16-bit units, with no terminator.  External: the dialog, and the *)
(* game's field, which nativeDeleteBackward shortens by one character and  *)
(* nativeInsertText extends.                                               *)
(***************************************************************************)
EXTENDS Integers, Sequences, FiniteSets

CONSTANTS Contents,   \* texts a field may hold, in UTF-8
          Typings,    \* texts a user may type, in UTF-16
          MaxInitial  \* sizeof initial - 1

\* What a text is made of, besides its terminator.
Byte == 1..255
Unit == {u \in Nat \ {0} : u \div 1024 < 64}

ASSUME KeyboardAssumption ==
    /\ MaxInitial \in Nat \ {0}
    /\ Contents \subseteq Seq(Byte) /\ Typings \subseteq Seq(Unit)

VARIABLES
    dialog,   \* external: the dialog's status, "replaced" once it is over
    button,   \* external: the button that ended it
    field,    \* external: the content of the selected field
    before,   \* history: that content when the keyboard opened
    initial,  \* the copy that openIMEKeyboard keeps
    shown,    \* ime_initial_text_utf16
    typed,    \* ime_input_text_utf16
    ime_input_text_utf8

keyboard == <<dialog, button, field, before, initial, shown, typed, ime_input_text_utf8>>

KeyboardInit ==
    /\ dialog = "none" /\ button = "close"
    /\ field = <<>> /\ before = <<>> /\ initial = <<>>
    /\ shown = <<>> /\ typed = <<>> /\ ime_input_text_utf8 = <<>>

-----------------------------------------------------------------------------
(* The conversions, on the numbers the code masks and shifts.              *)

IsHigh(u) == u \div 1024 = 54
IsLow(u)  == u \div 1024 = 55

\* The bytes of one unit, and of a pair (whose third byte is not the UTF-8 one:
\* its two parts are shifted the wrong way).
OfUnit(u) ==
    IF u < 128 THEN <<u>>
    ELSE IF u < 2048 THEN <<192 + u \div 64, 128 + (u % 64)>>
    ELSE <<224 + u \div 4096, 128 + ((u \div 64) % 64), 128 + (u % 64)>>
OfPair(h, l) ==
    <<240 + (((h + 64) \div 256) % 4), 128 + ((h \div 4 + 16) % 64),
      128 + 16 * ((h \div 256) % 4) + 4 * (l % 4), 128 + (l % 64)>>

PairAt(src, i) == i < Len(src) /\ IsHigh(src[i]) /\ IsLow(src[i + 1])

_utf16_to_utf8(src) ==
    LET from[i \in Nat \ {0}] ==
            IF i > Len(src) THEN <<>>
            ELSE IF PairAt(src, i) THEN OfPair(src[i], src[i + 1]) \o from[i + 2]
            ELSE OfUnit(src[i]) \o from[i + 1]
    IN  from[1]

\* How far _utf8_to_utf16 steps at a byte.
\* Mutant: the two tests in the other order.
Width_Swapped(b) == IF b >= 192 THEN 2 ELSE IF b >= 224 THEN 3 ELSE 1
Width(b) == IF b >= 224 THEN 3 ELSE IF b >= 192 THEN 2 ELSE 1

\* A field holds UTF-8: every first byte has its further ones behind it and no
\* more, and a character of two or three bytes needs them and is no half of a
\* pair.  (One of four bytes may be longer than it has to be: OfPair makes such.)
Further == 128..191
Utf8(text) ==
    /\ text # <<>> => text[1] \notin Further
    /\ \A i \in 1..Len(text) : text[i] \notin Further =>
        LET size == IF text[i] >= 240 THEN 4 ELSE IF text[i] >= 224 THEN 3
                    ELSE IF text[i] >= 192 THEN 2 ELSE 1
        IN  /\ i + size =< Len(text) + 1
            /\ \A k \in i + 1..i + size - 1 : text[k] \in Further
            /\ i + size =< Len(text) => text[i + size] \notin Further
            /\ text[i] \notin {192, 193}
            /\ text[i] = 224 => text[i + 1] >= 160
            /\ text[i] = 237 => text[i + 1] < 160
            /\ text[i] = 240 => text[i + 1] # 128 \/ text[i + 2] # 128

ASSUME ContentsAssumption == \A text \in Contents : Utf8(text)

\* Beyond the text lies its terminator; what is read further is not defined.
Wild == -1
ByteAt(src, i) == IF i > Len(src) THEN 0 ELSE src[i]
UnitAt(src, i) ==
    CASE Width(src[i]) = 3 ->
            (src[i] % 16) * 4096 + (ByteAt(src, i + 1) % 64) * 64 + (ByteAt(src, i + 2) % 64)
      [] Width(src[i]) = 2 -> (src[i] % 32) * 64 + (ByteAt(src, i + 1) % 64)
      [] OTHER -> src[i]

_utf8_to_utf16(src) ==
    LET from[i \in Nat \ {0}] ==
            IF i = Len(src) + 1 THEN <<>>
            ELSE IF i > Len(src) + 1 THEN <<Wild>>
            ELSE <<UnitAt(src, i)>> \o from[i + Width(src[i])]
    IN  from[1]

Units(text) == {text[i] : i \in 1..Len(text)}

-----------------------------------------------------------------------------
(* The keyboard's life.                                                    *)

Cut(text) == IF Len(text) > MaxInitial THEN SubSeq(text, 1, MaxInitial) ELSE text

\* The field's text, cut to the size of the copy, goes into the dialog.  (A
\* cut within a character makes the conversion run past the end of the copy.)
OpenKeyboard ==
    /\ dialog = "none"
    /\ \E content \in Contents :
        /\ field' = content /\ before' = content
        /\ initial' = Cut(content)
    /\ LET text == _utf8_to_utf16(initial')
       IN  IF Wild \in Units(text) THEN shown' \in Typings ELSE shown' = text
    /\ typed' = <<>> /\ ime_input_text_utf8' = <<>>
    /\ dialog' = "running"
    /\ UNCHANGED button

\* External: the user confirms the text as it is or another, or cancels.
Finish ==
    /\ dialog = "running"
    /\ typed' \in Typings \cup {shown}
    /\ button' \in {"enter", "close"}
    /\ dialog' = "finished"
    /\ UNCHANGED <<field, before, initial, shown, ime_input_text_utf8>>

\* nativeDeleteBackward, n times: a character ends a text from its first byte.
Deleted(text, n) ==
    LET Starts(k) == {i \in k + 1..Len(text) : text[i] \notin Further}
        cuts == {0, Len(text)} \cup {i - 1 : i \in Starts(0)}
        left == {k \in cuts : Cardinality(Starts(k)) =< n}
    IN  SubSeq(text, 1, CHOOSE k \in left : \A j \in left : k =< j)

\* As many deletions as the copy has bytes; an empty result is not inserted.
Replaced(text, old, new) == Deleted(text, Len(old)) \o new

\* get_ime_dialog_result, and what openIMEKeyboard does with its answer.
GetResult ==
    /\ dialog = "finished"
    /\ ime_input_text_utf8' = IF button = "enter" THEN _utf16_to_utf8(typed)
                                                  ELSE ime_input_text_utf8
    /\ field' = Replaced(field, initial, ime_input_text_utf8')
    /\ dialog' = "replaced"
    /\ UNCHANGED <<button, before, initial, shown, typed>>

\* nativeTextClosed, and back to the frame.  The buffers keep their contents.
CloseKeyboard ==
    /\ dialog = "replaced"
    /\ dialog' = "none" /\ button' = "close"
    /\ field' = <<>> /\ before' = <<>> /\ initial' = <<>>
    /\ shown' = <<>> /\ typed' = <<>>
    /\ UNCHANGED ime_input_text_utf8

-----------------------------------------------------------------------------
(* Properties.                                                             *)

KeyboardTypeOK ==
    /\ dialog \in {"none", "running", "finished", "replaced"}
    /\ button \in {"enter", "close"}
    /\ \A text \in {field, before, initial, ime_input_text_utf8} :
            Units(text) \subseteq Byte
    /\ Len(initial) =< MaxInitial
    /\ Units(shown) \cup Units(typed) \subseteq Unit

\* After confirming, the field holds what was confirmed and nothing of what it
\* held before, however many bytes its characters had, unless the text was
\* longer than openIMEKeyboard's copy of it.
ConfirmReplaces ==
    dialog = "replaced" /\ button = "enter" /\ Len(before) =< MaxInitial =>
        field = _utf16_to_utf8(typed)

\* Confirming a text as the dialog showed it leaves the field as it was: the
\* two conversions undo each other on every character of up to three bytes.
UneditedIsKept ==
    dialog = "replaced" /\ button = "enter" /\ typed = shown
      /\ Len(before) =< MaxInitial /\ Units(before) \cap 240..255 = {}
        => field = before

\* Cancelling puts nothing into the field, also when an earlier keyboard was
\* confirmed.  (It does take the old text out.)
CancelInsertsNothing ==
    dialog = "replaced" /\ button = "close" =>
        Len(field) =< Len(before) /\ field = SubSeq(before, 1, Len(field))

\* A field holds what was confirmed, character for character, and what it held
\* where nothing was changed; a cancel puts nothing in.
FieldAsConfirmed ==
    KeyboardTypeOK /\ ConfirmReplaces /\ UneditedIsKept /\ CancelInsertsNothing
=============================================================================
