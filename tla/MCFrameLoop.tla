---------------------------- MODULE MCFrameLoop ----------------------------
(* Three buttons, as in the code; two slots, so that a finger report can   *)
(* shrink and shift; two spots, so that a stale place differs from a fresh *)
(* one.  Texts with characters of one to four bytes, the first and last of *)
(* each width, over a copy of three bytes: some fit, some are cut between  *)
(* two characters and some within one.                                     *)
(* Beside them: two shaders and two sources, one of them Shockwave's, over  *)
(* any number of lives; a song and one of the game's sounds, and offsets on *)
(* both sides of 0, with 16 for 2^32.                                       *)
EXTENDS FrameLoop, Graphics, Music, TLC

MCButtons == 16..18
MCPlace == (16 :> "left") @@ (17 :> "right") @@ (18 :> "cross")
MCSpots == {"s1", "s2"}

MCContents == { <<>>, <<1, 127>>, <<65, 194, 128>>, <<223, 191>>,
                <<224, 160, 128>>, <<239, 191, 191>>, <<65, 66, 67, 68>>,
                <<65, 66, 224, 160, 128>>, <<240, 159, 152, 128>> }
MCTypings == {<<>>, <<66>>, <<128, 2047>>, <<55357, 56832>>}

MCLength == ("song" :> 3) @@ ("menuLoop" :> 2)
MCOffsets == {-2, 0, 2}

\* The three share no variable: each moves while the others have not begun.  The
\* loop and the music are the same in both builds.
ServicesInit == LoopInit /\ GraphicsInit /\ MusicInit
ServicesNext ==
    \/ ~cg /\ GraphicsInit /\ MusicInit /\ LoopNext /\ UNCHANGED <<grVars, musicVars>>
    \/ LoopInit /\ MusicInit /\ GraphicsNext /\ UNCHANGED <<vars, keyboard, musicVars>>
    \/ ~cg /\ LoopInit /\ GraphicsInit /\ MusicNext /\ UNCHANGED <<vars, keyboard, grVars>>
ServicesSpec == ServicesInit /\ [][ServicesNext]_<<vars, keyboard, grVars, musicVars>>
=============================================================================
