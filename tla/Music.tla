-------------------------------- MODULE Music -------------------------------
(***************************************************************************)
(* The wrappers that stand between the game and FMOD (source/main.c): a    *)
(* stream of a downloaded song is opened synchronously, a position outside *)
(* the song becomes its start, and the rest goes through.  Volume, fade    *)
(* points, pitch, delay and clock touch none of this and are left out.     *)
(*                                                                         *)
(* External: FMOD.  A sound opened without blocking is ready some time     *)
(* later, and is refused until then; a channel ends with its sound.  Times *)
(* are in units of which 2 * Half make the range of a 32-bit unsigned.     *)
(***************************************************************************)
EXTENDS Integers

CONSTANTS Songs,    \* downloaded songs: their path has /songs/
          Effects,  \* the game's own sounds
          Length,   \* Length[x]: in milliseconds
          Half,     \* 2^31
          Offsets   \* the music offsets of the settings, some below 0

ASSUME LengthAssumption == /\ Songs \cap Effects = {}
                           /\ Half \in Nat \ {0}
                           /\ Length \in [Songs \cup Effects -> 1..Half - 1]
                           /\ Offsets \subseteq -Half..Half - 1

VARIABLES opened,  \* external: the state of each stream of the game
          channel, \* external: the sound the music channel plays, or "none"
          pos,     \* external: where it is in the sound
          paused,  \* external
          mixer,   \* external: the mixer runs
          unit,    \* history: the unit of the last setPosition
          refused  \* history: a sound was played that was not ready

player   == <<channel, pos, paused, unit>>
musicVars == <<opened, player, mixer, refused>>

Sounds == Songs \cup Effects
Modes  == {"ACCURATETIME", "NONBLOCKING", "OPENMEMORY"}

MusicTypeOK ==
    /\ opened \in [Sounds -> {"closed", "loading", "ready"}]
    /\ channel \in Sounds \cup {"none"}
    /\ pos \in 0..2 * Half - 1
    /\ paused \in BOOLEAN /\ mixer \in BOOLEAN
    /\ unit \in {"ms", "other"}
    /\ refused \subseteq Sounds
    /\ channel # "none" => opened[channel] = "ready"

MusicInit ==
    /\ opened = [x \in Sounds |-> "closed"]
    /\ channel = "none" /\ pos = 0 /\ paused = FALSE
    /\ unit = "ms" /\ mixer = TRUE /\ refused = {}

\* A data mode means that the name is not a path, so there is nothing in it to
\* find; a song's path loses the two flags that make it slow to start.
SongMode(x, mode) ==
    IF x \in Songs /\ "OPENMEMORY" \notin mode
    THEN mode \ {"ACCURATETIME", "NONBLOCKING"} ELSE mode

\* gdash_FMOD_System_createStream.
CreateStream(x) ==
    /\ opened[x] = "closed"
    /\ \E mode \in SUBSET Modes :
         /\ x \in Songs => "OPENMEMORY" \notin mode
         /\ opened' = [opened EXCEPT ![x] =
                IF "NONBLOCKING" \in SongMode(x, mode) THEN "loading" ELSE "ready"]
    /\ UNCHANGED <<player, mixer, refused>>

\* gdash_FMOD_System_createSound, which keeps the flags.
CreateSound(x) ==
    /\ opened[x] = "closed" /\ x \in Effects
    /\ \E mode \in SUBSET Modes :
         opened' = [opened EXCEPT ![x] = IF "NONBLOCKING" \in mode THEN "loading" ELSE "ready"]
    /\ UNCHANGED <<player, mixer, refused>>

\* External: FMOD's thread has opened the sound; getOpenState would tell.
Loaded(x) ==
    /\ opened[x] = "loading"
    /\ opened' = [opened EXCEPT ![x] = "ready"]
    /\ UNCHANGED <<player, mixer, refused>>

\* gdash_FMOD_System_playSound.
PlaySound(x) ==
    /\ opened[x] # "closed"
    /\ IF opened[x] = "ready"
       THEN /\ channel' = x /\ pos' = 0 /\ unit' = "ms"
            /\ paused' \in BOOLEAN
            /\ UNCHANGED refused
       ELSE refused' = refused \cup {x} /\ UNCHANGED <<channel, pos, unit, paused>>
    /\ UNCHANGED <<opened, mixer>>

Negative(p) == p >= Half
SetTo_Sign(p, u) == IF Negative(p) THEN 0 ELSE p  \* mutant: the end is not looked at
\* Where gdash_FMOD_setPosition goes for what it was asked.
SetTo(p, u) ==
    IF Negative(p) \/ (u = "ms" /\ channel # "none" /\ p >= Length[channel]) THEN 0 ELSE p

\* gdash_FMOD_setPosition: the game adds its offset to a start in the song.
SetPosition ==
    /\ channel # "none"
    /\ \E start \in 0..Length[channel] - 1, offset \in Offsets, u \in {"ms", "other"} :
         /\ pos' = SetTo((start + offset) % (2 * Half), u)
         /\ unit' = u
    /\ UNCHANGED <<opened, channel, paused, mixer, refused>>

\* External: time goes by, and the channel ends with its sound.
Advance ==
    /\ channel # "none" /\ mixer /\ ~paused
    /\ IF pos + 1 >= Length[channel]
       THEN channel' = "none" /\ pos' = 0
       ELSE pos' = pos + 1 /\ UNCHANGED channel
    /\ UNCHANGED <<opened, paused, unit, mixer, refused>>

\* gdash_FMOD_setPaused.
SetPaused ==
    /\ channel # "none"
    /\ paused' \in BOOLEAN
    /\ UNCHANGED <<opened, channel, pos, unit, mixer, refused>>

\* gdash_FMOD_stop.
Stop ==
    /\ channel # "none"
    /\ channel' = "none" /\ pos' = 0
    /\ UNCHANGED <<opened, paused, unit, mixer, refused>>

\* gdash_FMOD_mixerSuspend, gdash_FMOD_mixerResume.
Mixer ==
    /\ mixer' = ~mixer
    /\ UNCHANGED <<opened, player, refused>>

MusicNext ==
    \/ \E x \in Sounds : CreateStream(x) \/ CreateSound(x) \/ Loaded(x) \/ PlaySound(x)
    \/ SetPosition \/ Advance \/ SetPaused \/ Stop \/ Mixer

-----------------------------------------------------------------------------
(* Properties.                                                             *)

\* The music starts inside its song whatever offset the settings add to whatever
\* start of a level: no position below 0 becomes one far past the end.
InsideTheSong ==
    channel # "none" /\ unit = "ms" => pos < Length[channel]

\* The game plays a downloaded song as soon as createStream returned, and it is
\* ready: it never meets a song that is still being opened.
SongsReady == refused \cap Songs = {}

\* A song the game starts plays at once, from a place within it.
SongsPlay == MusicTypeOK /\ InsideTheSong /\ SongsReady
=============================================================================
