---------------------------- MODULE MCFileBridge ----------------------------
(* The file calls beside errno: two threads; a song and its download name,  *)
(* one built-in song; three contents, three seeds.  For errno: success,     *)
(* ENOENT (2 on both sides), EINPROGRESS (119, 115 in bionic), and newlib's *)
(* EFTYPE (79), which the table leaves out.  Beside them the import table,  *)
(* in both builds, with two objects at a time.                              *)
EXTENDS ErrnoBridge, FileBridge, ImportTable

CONSTANTS t1, t2

MCThreads  == {t1, t2}
MCListed   == {0, 2, 119}
MCBionic   == (0 :> 0) @@ (2 :> 2) @@ (119 :> 115)
MCUnlisted == {79}

\* The three parts share no variable: each moves while the others have not begun.
BridgeInit == Init /\ FileInit /\ ImportInit
BridgeNext ==
    \/ ~bridge /\ FileInit /\ ImportInit /\ Next /\ UNCHANGED <<fileVars, importVars>>
    \/ ~bridge /\ Init /\ ImportInit /\ FileNext /\ UNCHANGED <<vars, importVars>>
    \/ Init /\ FileInit /\ ImportNext /\ UNCHANGED <<vars, fileVars>>
BridgeSpec == BridgeInit /\ [][BridgeNext]_<<vars, fileVars, importVars>>
=============================================================================
