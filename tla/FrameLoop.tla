----------------------------- MODULE FrameLoop -----------------------------
(***************************************************************************)
(* The main loop (source/main.c) with the on-screen keyboard that a frame  *)
(* may open.  openIMEKeyboard is called from the game's code and returns   *)
(* only when the dialog is over, so the loop samples nothing meanwhile: a  *)
(* finger lifted under the keyboard is noticed in the frame after.  The    *)
(* loop's own state is the same at every call of the game, so it does not  *)
(* matter which one opens the keyboard; here it is the render.             *)
(***************************************************************************)
EXTENDS TouchInput, Keyboard

\* The loop goes on.
Frame == dialog = "none" /\ Next /\ UNCHANGED keyboard

\* The game's code opens the keyboard.
Edit == at = Rendering /\ OpenKeyboard /\ UNCHANGED vars

\* The loop inside openIMEKeyboard.
Poll == (Finish \/ GetResult \/ CloseKeyboard) /\ UNCHANGED vars

LoopInit == Init /\ KeyboardInit
LoopNext == Frame \/ Edit \/ Poll
LoopSpec == LoopInit /\ [][LoopNext]_<<vars, keyboard>>
=============================================================================
