----------------------------- MODULE FileBridge -----------------------------
(***************************************************************************)
(* The file calls of the game: how source/reimpl/io.c, and source/main.c   *)
(* for FMOD, turn the paths of an Android game into paths of the card, how *)
(* _struct_converters.c turns the flags of open, and how an open of        *)
(* /dev/urandom is answered from a seed file.                              *)
(*                                                                         *)
(* A path is the directory it starts with, how many slashes too many       *)
(* follow it, and a name.  External: the card, whose paths are exact (a    *)
(* doubled slash is another path), and which may refuse to open the seed   *)
(* file for writing, or run full while it is written.                      *)
(***************************************************************************)
EXTENDS Integers, SequencesExt

CONSTANTS Readers,   \* the threads of the game that use files
          Names,     \* the names of the files the game keeps
          BuiltIn,   \* the names of its own songs
          MaxWrites, \* bound: files the game makes or rewrites
          MaxOpens   \* bound: opens of /dev/urandom that make a seed

\* The installed game has made one content; there is room for it in the bounds.
ASSUME BoundsAssumption == MaxWrites \in Nat \ {0} /\ MaxOpens \in Nat

Private  == "/data/data/com.robtopx.geometryjump/"
Data     == "ux0:data/gdash/"
Assets   == "ux0:data/gdash/assets/"
PackageAssets == "file:///android_asset/" \* 22 characters

Path(dir, slashes, name) == [dir |-> dir, slashes |-> slashes, name |-> name]

\* Paths the game makes: under getCocos2dxWritablePath, to which it appends a
\* slash that may be one too many; and those of its own songs.
Kept  == {Path(Private, slashes, n) : slashes \in 0..1, n \in Names}
Songs == {Path(PackageAssets, 0, b) : b \in BuiltIn}

VARIABLES card,    \* external: what each path of the card holds
          meant,   \* history: what the same calls leave on Android
          writes,  \* history: the contents made so far
          refusal, \* history: the last open's answer, and the one Android gives
          stage,   \* where each thread's open of /dev/urandom is
          pool,    \* buf of ensure_urandom_seed_file
          seed,    \* external: what the seed file holds
          rolls,   \* external: the pools the generator has made
          excused, \* history: the open overlapped another, or the card failed it
          drawn    \* history: what the opens that were not read, in order

files == <<card, meant, writes, refusal>>
random == <<stage, pool, seed, rolls, excused, drawn>>
fileVars == <<files, random>>

Missing == 0
Empty   == -1
Stages  == {"idle", "opening", "made", "cleared", "ready", "reading"}

FileTypeOK ==
    /\ writes \in 0..MaxWrites
    /\ \A p \in DOMAIN card : card[p] \in Int
    /\ meant \in [Names -> Int]
    /\ refusal \in [got : BOOLEAN, due : BOOLEAN]
    /\ stage \in [Readers -> Stages]
    /\ pool \in [Readers -> 0..MaxOpens]
    /\ \A t \in Readers : stage[t] \in {"made", "cleared"} => pool[t] # 0
    /\ seed \in {Missing, Empty} \cup 1..MaxOpens
    /\ rolls \in 0..MaxOpens
    /\ excused \in [Readers -> BOOLEAN]
    /\ drawn \in Seq({Missing, Empty} \cup 1..MaxOpens)

Agreed == [got |-> TRUE, due |-> TRUE]

\* The installed game: its own songs are on the card, its files are not.
FileInit ==
    /\ card = [p \in {Path(Assets, 0, b) : b \in BuiltIn} |-> 1]
    /\ meant = [n \in Names |-> Missing]
    /\ writes = 1
    /\ refusal = Agreed
    /\ stage = [t \in Readers |-> "idle"]
    /\ pool = [t \in Readers |-> 0]
    /\ seed = Missing
    /\ rolls = 0
    /\ excused = [t \in Readers |-> FALSE]
    /\ drawn = <<>>

-----------------------------------------------------------------------------
(* Paths.                                                                  *)

\* The loop that drops a slash after a slash.
Collapse(p) == [p EXCEPT !.slashes = 0]
In(dir, p)  == [p EXCEPT !.dir = dir]

translate_path_Verbatim(p) == \* mutant: the doubled slash stays
    IF p.dir = Private THEN In(Data, p) ELSE p
translate_path(p) == IF p.dir = Private THEN Collapse(In(Data, p)) ELSE p

\* str_replace, then the loop, which runs for every path.
fopen_path(p) == Collapse(IF p.dir = Private THEN In(Data, p) ELSE p)

\* Paths of the card are kept; of any other, 22 characters are skipped if it
\* has more, and what is left is an asset.
fmod_translate_path_Skips(p) == In(Assets, p) \* mutant: the first port's
fmod_translate_path(p) ==
    Collapse(CASE p.dir = Private -> In(Data, p)
               [] p.dir \in {Data, Assets} -> p
               [] OTHER -> In(Assets, p))

\* The path each call reaches for a path of the game.
ByName  == [p \in Kept |-> translate_path(p)]
ByFopen == [p \in Kept |-> fopen_path(p)]
ByFmod  == [p \in Kept \cup Songs |-> fmod_translate_path(p)]

Holds(p) == IF p \in DOMAIN card THEN card[p] ELSE Missing
Put(p, v) == [q \in DOMAIN card \cup {p} |-> IF q = p THEN v ELSE card[q]]
NameOf(p) == p.name

-----------------------------------------------------------------------------
(* Calls that change files.  The card and what Android would hold change    *)
(* together; where they put the change is the model's question.            *)

Answer(got, due) == refusal' = [got |-> got, due |-> due]

\* oflags_newlib_to_oflags_musl, which converts from bionic's flags: the access
\* mode, RDWR taking precedence, and the five flags it knows.
Passed == {"NONBLOCK", "APPEND", "CREAT", "TRUNC", "EXCL"}
oflags(flags) ==
    (flags \cap Passed) \cup
    {IF "RDWR" \in flags THEN "RDWR" ELSE IF "WRONLY" \in flags THEN "WRONLY" ELSE "RDONLY"}

\* External: what open does to a file that holds v.
Opened(v, flags) ==
    IF v = Missing THEN IF "CREAT" \in flags THEN Empty ELSE Missing
    ELSE IF "TRUNC" \in flags /\ flags \cap {"WRONLY", "RDWR"} # {} THEN Empty ELSE v
Fails(v, flags) == \/ v = Missing /\ "CREAT" \notin flags
                   \/ v # Missing /\ {"CREAT", "EXCL"} \subseteq flags

\* open_soloader, and the writes through the descriptor it gives.
Open(p) ==
    \E flags \in {f \cup {"WRONLY", "CLOEXEC"} : f \in SUBSET {"CREAT", "TRUNC", "EXCL"}} :
    \E fill \in BOOLEAN :
        LET real == ByName[p]
            here == Holds(real)  there == meant[NameOf(p)]
            got == ~Fails(here, oflags(flags))  due == ~Fails(there, flags)
            new == writes + 1
        IN /\ fill => new <= MaxWrites
           /\ writes' = IF fill THEN new ELSE writes
           /\ card' = IF got
                      THEN Put(real, IF fill THEN new ELSE Opened(here, oflags(flags)))
                      ELSE card
           /\ meant' = IF due
                       THEN [meant EXCEPT ![NameOf(p)] = IF fill THEN new ELSE Opened(@, flags)]
                       ELSE meant
           /\ Answer(got, due)

\* fopen_soloader(p, "wb"), the writes, fclose_soloader.
Save(p) ==
    /\ writes < MaxWrites
    /\ writes' = writes + 1
    /\ card' = Put(ByFopen[p], writes + 1)
    /\ meant' = [meant EXCEPT ![NameOf(p)] = writes + 1]
    /\ Answer(TRUE, TRUE)

\* remove_soloader, unlink_soloader.
RemoveFile(p) ==
    LET real == ByName[p]
    IN /\ card' = [q \in DOMAIN card \ {real} |-> card[q]]
       /\ meant' = [meant EXCEPT ![NameOf(p)] = Missing]
       /\ Answer(Holds(real) # Missing, meant[NameOf(p)] # Missing)
       /\ UNCHANGED writes

\* rename_soloader: a finished download gets its name.
RenameFile(p, q) ==
    LET old == ByName[p]  new == ByName[q]
    IN /\ NameOf(p) # NameOf(q)
       /\ IF Holds(old) = Missing THEN card' = card
          ELSE card' = [r \in (DOMAIN card \cup {new}) \ {old} |->
                          IF r = new THEN card[old] ELSE card[r]]
       /\ IF meant[NameOf(p)] = Missing THEN meant' = meant
          ELSE meant' = [meant EXCEPT ![NameOf(q)] = meant[NameOf(p)],
                                      ![NameOf(p)] = Missing]
       /\ Answer(Holds(old) # Missing, meant[NameOf(p)] # Missing)
       /\ UNCHANGED writes

-----------------------------------------------------------------------------
(* /dev/urandom.                                                           *)

Busy == {t \in Readers : stage[t] # "idle"}
To(t, s) == stage' = [stage EXCEPT ![t] = s]
Overlap(t) == IF Busy = {} THEN {} ELSE Busy \cup {t}

\* fopen_soloader or open_soloader is called with the device's path.
OpenDevice(t) ==
    /\ stage[t] = "idle"
    /\ To(t, "opening")
    /\ excused' = [u \in Readers |-> IF u \in Overlap(t) THEN TRUE
                                     ELSE u # t /\ excused[u]]
    /\ UNCHANGED <<pool, seed, rolls, drawn>>

\* sceKernelGetRandomNumber fills buf.
MakePool(t) ==
    /\ stage[t] = "opening" /\ rolls < MaxOpens
    /\ rolls' = rolls + 1
    /\ pool' = [pool EXCEPT ![t] = rolls + 1]
    /\ To(t, "made")
    /\ UNCHANGED <<seed, excused, drawn>>

\* fopen "wb" empties the seed file ...
ClearSeed(t) ==
    /\ stage[t] = "made"
    /\ seed' = Empty
    /\ To(t, "cleared")
    /\ UNCHANGED <<pool, rolls, excused, drawn>>

\* ... or fails, which is silent: the file stays as it is.
ClearRefused(t) ==
    /\ stage[t] = "made"
    /\ excused' = [excused EXCEPT ![t] = TRUE]
    /\ To(t, "ready")
    /\ UNCHANGED <<pool, seed, rolls, drawn>>

FillSeed_Later(t) == \* mutant: the stream is not closed before the file is read
    /\ stage[t] = "cleared" /\ To(t, "ready")
    /\ UNCHANGED <<pool, seed, rolls, excused, drawn>>

\* fwrite and fclose, whose answers nobody looks at: on a full card the file is left
\* empty, or with a start of the pool, which counts as empty here.
FillSeed(t) ==
    /\ stage[t] = "cleared"
    /\ \/ seed' = pool[t] /\ UNCHANGED excused
       \/ seed' = Empty /\ excused' = [excused EXCEPT ![t] = TRUE]
    /\ To(t, "ready")
    /\ UNCHANGED <<pool, rolls, drawn>>

\* The call on the seed file itself; without one, the open fails.
OpenSeed(t) ==
    /\ stage[t] = "ready"
    /\ To(t, IF seed = Missing THEN "idle" ELSE "reading")
    /\ UNCHANGED <<pool, seed, rolls, excused, drawn>>

\* The game reads its bytes and closes.
ReadSeed(t) ==
    /\ stage[t] = "reading"
    /\ drawn' = IF excused[t] THEN drawn ELSE Append(drawn, seed)
    /\ To(t, "idle")
    /\ UNCHANGED <<pool, seed, rolls, excused>>

\* The process ends wherever it is, and starts again: the card keeps its files,
\* the seed file as empty as it may be.
Restart ==
    /\ Busy # {}
    /\ stage' = [t \in Readers |-> "idle"]
    /\ pool' = [t \in Readers |-> 0]
    /\ UNCHANGED <<seed, rolls, excused, drawn>>

FileCalls ==
    \/ \E p \in Kept : Open(p) \/ Save(p) \/ RemoveFile(p)
    \/ \E p, q \in Kept : RenameFile(p, q)
DeviceCalls ==
    \/ \E t \in Readers : \/ OpenDevice(t) \/ MakePool(t) \/ ClearSeed(t) \/ ClearRefused(t)
                          \/ FillSeed(t) \/ OpenSeed(t) \/ ReadSeed(t)
    \/ Restart

\* The game's files and the seed file share no path.
FileNext == \/ FileCalls /\ rolls = 0 /\ Busy = {} /\ UNCHANGED random
            \/ DeviceCalls /\ writes = 1 /\ UNCHANGED files

-----------------------------------------------------------------------------
(* Properties.                                                             *)

\* Every way to reach a file reaches the same one (source/reimpl/io.c: "for
\* EVERY path-taking file API, not just fopen"): what the game last put under
\* a name, by whichever call and with whichever number of slashes, is what
\* stat and open, fopen, and FMOD find there, and FMOD finds the game's own
\* songs.
OneFileByEveryPath ==
    /\ \A p \in Kept : \A real \in {ByName[p], ByFopen[p], ByFmod[p]} :
           Holds(real) = meant[NameOf(p)]
    /\ \A p \in Songs : Holds(ByFmod[p]) # Missing

\* An open, a remove or a rename is refused exactly when Android would refuse
\* it, given everything the game did before.
RefusedAsOnAndroid == refusal.got = refusal.due

\* io.c: "repeat TLS handshakes don't all reuse the exact same random bytes".
\* Opens of /dev/urandom that overlapped no other, and whose own writing of the seed
\* file the card did not fail, read bytes, and never the bytes of another, across
\* restarts and whatever failed opens before them left in the file.
SeedsFresh == /\ Empty \notin ToSet(drawn) /\ Missing \notin ToSet(drawn)
              /\ IsInjective(drawn)

\* The files of the game are as on Android: one name is one file by every call, and
\* a call is refused when it would be there.
FilesAsOnAndroid == FileTypeOK /\ OneFileByEveryPath /\ RefusedAsOnAndroid
=============================================================================
