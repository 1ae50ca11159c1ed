---------------------------- MODULE MainStartup ----------------------------
(***************************************************************************)
(* What main() (source/main.c) does between soloader_init_all and the      *)
(* frame loop: it overwrites two branches of the game's TLS start-up,      *)
(* brings up the network, creates the save files the game only ever opens, *)
(* registers the digests of the game's OpenSSL by hand, and then calls     *)
(* into the game.  The loader of SoLoader comes first, and its file is     *)
(* what an exception thrown by the game is unwound with.                   *)
(*                                                                         *)
(* External: the card; which symbols the image exports; OPENSSL_init_ssl,  *)
(* which looks two digests up by name and, where the name table has no     *)
(* answer, executes the branch that main overwrote; that the name table    *)
(* never has one (source/main.c:300); the instruction cache.               *)
(***************************************************************************)
EXTENDS SoLoader, SequencesExt

CONSTANTS SaveFiles,   \* file_paths, in order
          Digests,     \* digest_short_names, in order
          MaxDigests,  \* the length of g_digest_names and g_digest_mds
          CheckedNames,\* the two digests that ssl_load_ciphers insists on
          Followed     \* bound: the images after whose loading main is followed;
                       \* main reads nothing of what differs between them

ASSUME DigestsAssumption == /\ SaveFiles \in Seq(ToSet(SaveFiles))
                            /\ \A k, l \in 1..Len(SaveFiles) :
                                   SaveFiles[k] = SaveFiles[l] => k = l
                            /\ Digests \in Seq(ToSet(Digests))
                            /\ MaxDigests \in Nat
                            /\ CheckedNames \subseteq ToSet(Digests)

VARIABLES
    mpc,      \* where main is
    trace,    \* constant: GDASH_TRACE
    exported, \* constant: the digests whose getter the image exports
    turn,     \* the next turn of the loop main is in
    netUp,    \* external: sceNet and sceNetCtl are initialised
    card,     \* external: what the card holds of each save file
    heldFirst,\* history: what it held when main began
    unread,   \* history: the saves it had and did not open for reading
    unmade,   \* history: those it did not open for writing
    known,    \* g_digest_names and g_digest_mds
    hooked,   \* evp_get_digestbyname_hook is installed
    check,    \* the branch after each digest check, as written
    cached,   \* external: what the instruction cache holds of it
    unwound   \* history: what __gnu_Unwind_Find_exidx_soloader read

game   == <<trace, exported>>
saves  == <<card, heldFirst, unread, unmade>>
tls    == <<known, hooked, check, cached>>
mainVars == <<mpc, game, turn, netUp, saves, tls, unwound>>
startVars == <<vars, mainVars>>

Places == {"loading", "patch", "net", "saves", "digests", "hook", "ssl", "onload",
           "loop", "died"}

MainTypeOK ==
    /\ mpc \in Places
    /\ trace \in BOOLEAN /\ exported \subseteq ToSet(Digests)
    /\ turn \in 1..Len(SaveFiles) + Len(Digests) + 1
    /\ netUp \in BOOLEAN /\ hooked \in BOOLEAN
    /\ {card, heldFirst} \subseteq [ToSet(SaveFiles) -> {"absent", "empty", "saved"}]
    /\ unread \subseteq ToSet(SaveFiles) /\ unmade \subseteq ToSet(SaveFiles)
    /\ known \in Seq([name : ToSet(Digests), md : ToSet(Digests)])
    /\ check \in [CheckedNames -> {"branch", "nop"}]
    /\ cached \in [CheckedNames -> {"nothing", "branch"}]
    /\ unwound \in {"nothing", "file", "freed"}

MainInit ==
    /\ mpc = "loading"
    /\ trace = FALSE /\ exported = {}
    /\ turn = 1 /\ netUp = FALSE
    /\ card = [f \in ToSet(SaveFiles) |-> "absent"] /\ heldFirst = card
    /\ unread = {} /\ unmade = {}
    /\ known = <<>> /\ hooked = FALSE
    /\ check = [d \in CheckedNames |-> "branch"]
    /\ cached = [d \in CheckedNames |-> "nothing"]
    /\ unwound = "nothing"

-----------------------------------------------------------------------------

\* soloader_init_all has returned.  What main will find is settled here: the
\* build, the image and the card, and which of the two lines the constructors
\* left in the instruction cache.
MainBegins ==
    /\ mpc = "loading" /\ pc = "started" /\ segs \in Followed
    /\ trace' \in BOOLEAN
    /\ exported' \in SUBSET ToSet(Digests)
    /\ card' \in [ToSet(SaveFiles) -> {"absent", "empty", "saved"}]
    /\ heldFirst' = card'
    /\ cached' \in [CheckedNames -> {"nothing", "branch"}]
    /\ mpc' = "patch"
    /\ UNCHANGED <<vars, turn, netUp, unread, unmade, known, hooked, check, unwound>>

\* The two copies of a NOP.  The caches are not flushed.
PatchChecks ==
    /\ mpc = "patch"
    /\ check' = [d \in CheckedNames |-> "nop"]
    /\ mpc' = "net"
    /\ UNCHANGED <<vars, game, turn, netUp, saves, known, hooked, cached, unwound>>

\* fmod_init: sceNetInit where sceNet is not up; nothing it fails at is fatal.
FmodInit ==
    /\ mpc = "net"
    /\ netUp' \in {netUp, TRUE}
    /\ mpc' = "saves"
    /\ UNCHANGED <<vars, game, turn, saves, tls, unwound>>

\* Mutant: the file is opened for writing to see whether it is there.
SaveFile_Truncates ==
    /\ mpc = "saves" /\ turn =< Len(SaveFiles)
    /\ card' = [card EXCEPT ![SaveFiles[turn]] = "empty"]
    /\ turn' = turn + 1
    /\ UNCHANGED <<vars, mpc, game, netUp, heldFirst, unread, unmade, tls, unwound>>

\* A turn of save_files_init.  A file that does not open for reading, for whatever
\* reason, is opened for writing, which empties it if it was there; the card may
\* refuse that too.  (The last fclose is then of NULL, which newlib lets pass.)
SaveFile ==
    /\ mpc = "saves" /\ turn =< Len(SaveFiles)
    /\ LET f == SaveFiles[turn] IN
         \/ card[f] # "absent" /\ UNCHANGED <<card, unread, unmade>>
         \/ /\ unread' = IF card[f] = "absent" THEN unread ELSE unread \cup {f}
            /\ \/ card' = [card EXCEPT ![f] = "empty"] /\ UNCHANGED unmade
               \/ unmade' = unmade \cup {f} /\ UNCHANGED card
    /\ turn' = turn + 1
    /\ UNCHANGED <<vars, mpc, game, netUp, heldFirst, tls, unwound>>

SavesDone ==
    /\ mpc = "saves" /\ turn > Len(SaveFiles)
    /\ mpc' = "digests" /\ turn' = 1
    /\ UNCHANGED <<vars, game, netUp, saves, tls, unwound>>

\* Mutant: the name is taken from the end of the table, not from the list.
RegisterDigest_Count ==
    /\ mpc = "digests" /\ turn =< Len(Digests)
    /\ known' = IF Digests[turn] \in exported /\ Len(known) < MaxDigests
                THEN Append(known, [name |-> Digests[Len(known) + 1], md |-> Digests[turn]])
                ELSE known
    /\ turn' = turn + 1
    /\ UNCHANGED <<vars, mpc, game, netUp, saves, hooked, check, cached, unwound>>

\* A turn of the loop over digest_getters.  A digest is known by the short
\* name that stands at the place of its getter.
RegisterDigest ==
    /\ mpc = "digests" /\ turn =< Len(Digests)
    /\ known' = IF Digests[turn] \in exported /\ Len(known) < MaxDigests
                THEN Append(known, [name |-> Digests[turn], md |-> Digests[turn]])
                ELSE known
    /\ turn' = turn + 1
    /\ UNCHANGED <<vars, mpc, game, netUp, saves, hooked, check, cached, unwound>>

\* EVP_get_digestbyname is hooked in a build with traces only.
HookDigestByName ==
    /\ mpc = "digests" /\ turn > Len(Digests)
    /\ hooked' = trace
    /\ mpc' = "ssl" /\ turn' = 1
    /\ UNCHANGED <<vars, game, netUp, saves, known, check, cached, unwound>>

\* GDGetDigestByName_hook, and the name table behind it.
DigestFound(name) == hooked /\ \E k \in 1..Len(known) : known[k].name = name

\* What is executed after a check that failed.
Executed(name) == IF cached[name] = "nothing" THEN check[name] ELSE cached[name]

\* OPENSSL_init_ssl: ssl_load_ciphers ends the process at a branch it takes.
InitSsl ==
    /\ mpc = "ssl"
    /\ mpc' = IF \E d \in CheckedNames : ~DigestFound(d) /\ Executed(d) = "branch"
              THEN "died" ELSE "onload"
    /\ UNCHANGED <<vars, game, turn, netUp, saves, tls, unwound>>

\* JNI_OnLoad, nativeSetApkPath, gl_init, nativeInit.
StartGame ==
    /\ mpc = "onload"
    /\ mpc' = "loop"
    /\ UNCHANGED <<vars, game, turn, netUp, saves, tls, unwound>>

\* The unwinder asks for the tables of an exception of the game's code.  They
\* are found through ehdr and phdr, which point into the copy of the file.
FindExidx ==
    /\ pc \in {"constructors", "started"} /\ mpc # "died"
    /\ unwound = "nothing"
    /\ unwound' = IF So \in live THEN "file" ELSE "freed"
    /\ UNCHANGED <<vars, mpc, game, turn, netUp, saves, tls>>

MainNext == \/ MainBegins \/ PatchChecks \/ FmodInit \/ SaveFile \/ SavesDone
            \/ RegisterDigest \/ HookDigestByName \/ InitSsl \/ StartGame

LoadNext == Next /\ UNCHANGED mainVars

StartInit == Init /\ MainInit
StartNext == LoadNext \/ MainNext
StartSpec == StartInit /\ [][StartNext]_startVars

-----------------------------------------------------------------------------
(* Properties.                                                             *)

\* A digest is registered under its own name, whichever getters the image
\* lacks: the two lists of names are walked together and the table is filled
\* behind them.
DigestsPaired ==
    /\ Len(known) =< MaxDigests
    /\ \A k \in 1..Len(known) : known[k].name = known[k].md

\* From its start to the game's first call main loses a save only where the card has
\* it, does not open it for reading and does open it for writing: the refusal of one
\* file costs no other, so that a save and its .bak are never lost by one of them.
\* And once the loop is over the game finds every file it will open, unless the card
\* would not make that one.
SavesKept ==
    /\ \A f \in ToSet(SaveFiles) : card[f] # heldFirst[f] =>
         /\ card[f] = "empty"
         /\ heldFirst[f] = "saved" => f \in unread \ unmade
    /\ mpc \notin {"loading", "patch", "net", "saves"} =>
         \A f \in ToSet(SaveFiles) : card[f] = "absent" => f \in unmade

\* The TLS start-up ends the process only through a line of code that was in
\* the instruction cache before main overwrote it: with any set of exported
\* digests, traced or not, the two NOPs are enough.
DiesOnlyOfStaleCode ==
    mpc = "died" => \E d \in CheckedNames : cached[d] = "branch"

\* source/reimpl/proc_stubs.c:145-148: the program headers tell where the
\* unwind table lives.
UnwindReadsImage == unwound # "freed"

\* OpenSSL starts whatever digests the image has: those it has are known by their
\* names, and a check of one it has not is a line that no longer branches.
TlsStarts == MainTypeOK /\ DigestsPaired /\ DiesOnlyOfStaleCode
=============================================================================
