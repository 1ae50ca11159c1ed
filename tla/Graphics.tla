------------------------------ MODULE Graphics ------------------------------
(***************************************************************************)
(* Between the game and vitaGL (source/utils/glutil.c, and the shader      *)
(* hook of source/dynlib.c): the start of the library, the cache of        *)
(* compiled shaders of a USE_CG_SHADERS build, and the one shader that any *)
(* other build rewrites.                                                   *)
(*                                                                         *)
(* A source stands for the text its pieces make, and for the SHA-1 that    *)
(* names its file.  A binary is named by the source it was compiled from.  *)
(* External: vitaGL; the card, which may refuse to open a file and read or *)
(* write less than it is asked; and the game, which may bring its shaders  *)
(* in any order, though it has a habit: to compile the one it just brought.*)
(***************************************************************************)
EXTENDS Integers, FiniteSets

CONSTANTS Shaders,   \* the game's shader objects
          Sources,   \* the texts of its shaders
          Shockwave, \* the one that says "// SHOCKWAVE"
          MaxBrought \* bound: sources brought in one life of the process

\* Beside the texts of the game and its shaders there are "none", "broken" and "fixed".
ASSUME ShadersAssumption == /\ Shockwave \in Sources /\ MaxBrought \in Nat
                            /\ Sources \cap {"none", "broken", "fixed"} = {}
                            /\ "none" \notin Shaders

VARIABLES
    cg,       \* constant: USE_CG_SHADERS
    glStarts, \* gl_init calls in this life
    holds,    \* external: what each shader object holds
    runs,     \* external: what it was compiled to
    skip,     \* skip_next_compile
    fname,    \* next_shader_fname, by the source it is for
    gxp,      \* external: the compiled shaders on the card
    writing,  \* the shader whose binary is being written to fname
    given,    \* history: the source each shader was brought last
    pending,  \* history: the shaders not compiled since
    orderly,  \* history: the game kept its habit, in this and all lives before
    torn,     \* history: files whose last write was cut off, by a restart or by the card
    spoiled,  \* history: the shaders brought from half a file, or half a read
    brought   \* history: sources brought in this life

cache  == <<skip, fname, gxp, writing>>
habit  == <<given, pending, orderly, torn, spoiled, brought>>
grVars == <<cg, glStarts, holds, runs, cache, habit>>

None   == "none"
Broken == "broken"  \* an empty or half-written binary, or what one compiles to
Text(src) == [kind |-> "text", of |-> src]
Binary(src) == [kind |-> "binary", of |-> src]
Nothing == [kind |-> "nothing", of |-> None]

GraphicsTypeOK ==
    /\ cg \in BOOLEAN /\ glStarts \in 0..2
    /\ holds \in [Shaders -> [kind : {"nothing", "text", "binary"},
                              of : Sources \cup {None, Broken, "fixed"}]]
    /\ runs \in [Shaders -> Sources \cup {None, Broken, "fixed"}]
    /\ skip \in BOOLEAN /\ fname \in Sources \cup {None}
    /\ gxp \in [Sources -> Sources \cup {None, Broken}]
    /\ writing \in Shaders \cup {None} /\ pending \subseteq Shaders
    /\ given \in [Shaders -> Sources \cup {None}]
    /\ orderly \in BOOLEAN /\ torn \subseteq Sources /\ spoiled \subseteq Shaders
    /\ brought \in 0..MaxBrought
    /\ ~cg => fname = None /\ ~skip

GraphicsInit ==
    /\ cg \in BOOLEAN
    /\ glStarts = 0
    /\ holds = [s \in Shaders |-> Nothing] /\ runs = [s \in Shaders |-> None]
    /\ skip = FALSE /\ fname = None
    /\ gxp = [src \in Sources |-> None] /\ writing = None
    /\ given = [s \in Shaders |-> None]
    /\ pending = {} /\ orderly = TRUE /\ torn = {} /\ spoiled = {} /\ brought = 0

-----------------------------------------------------------------------------
(* Shaders.                                                                *)

\* main's gl_init; eglInitialize calls it once more.
StartGl ==
    /\ glStarts < 2 /\ writing = None
    /\ glStarts' = glStarts + 1
    /\ UNCHANGED <<cg, holds, runs, cache, habit>>

\* External: the game brings a source for a shader.
Bring(s, src) ==
    /\ glStarts > 0 /\ writing = None /\ brought < MaxBrought
    /\ brought' = brought + 1
    /\ given' = [given EXCEPT ![s] = src]
    /\ orderly' = (orderly /\ pending = {})
    /\ pending' = pending \cup {s}
    /\ UNCHANGED <<cg, glStarts, torn>>

\* Mutant: the flag is set before it is known whether there is a binary.
LoadShader_Early(s, src) ==
    /\ skip' = TRUE /\ spoiled' = spoiled \ {s}
    /\ IF gxp[src] = None
       THEN holds' = [holds EXCEPT ![s] = Text(src)] /\ fname' = src
       ELSE holds' = [holds EXCEPT ![s] = Binary(gxp[src])] /\ UNCHANGED fname

\* load_shader.  A file that does not open is taken for one that is not there: the
\* name is remembered for the compilation.  Of one that does, whatever is read is
\* the binary, and it is remembered that there is none to compile.
LoadShader(s, src) ==
    \/ /\ holds' = [holds EXCEPT ![s] = Text(src)]
       /\ fname' = src /\ spoiled' = spoiled \ {s}
       /\ UNCHANGED skip
    \/ /\ gxp[src] # None
       /\ \E whole \in BOOLEAN :
            /\ holds' = [holds EXCEPT ![s] = Binary(IF whole THEN gxp[src] ELSE Broken)]
            /\ spoiled' = IF whole /\ src \notin torn THEN spoiled \ {s} ELSE spoiled \cup {s}
       /\ skip' = TRUE
       /\ UNCHANGED fname

\* glShaderSourceHook, for a source that is not NULL.
SourceCached(s, src) ==
    /\ cg /\ Bring(s, src)
    /\ LoadShader(s, src)
    /\ UNCHANGED <<runs, gxp, writing>>

FixedOf_Never(src) == src  \* mutant: the search for the marker is lost
\* The text that vitaGL gets: from its first condition on, the Shockwave shader
\* is replaced by fixed_shader, and it is all that is left of the pieces.
FixedOf(src) == IF src = Shockwave THEN "fixed" ELSE src

\* glShaderSource_soloader, for a source in at least two pieces.
SourceFixed(s, src) ==
    /\ ~cg /\ Bring(s, src)
    /\ holds' = [holds EXCEPT ![s] = Text(FixedOf(src))]
    /\ UNCHANGED <<runs, spoiled, cache>>

Compiled(s) ==
    /\ pending' = pending \ {s}
    /\ orderly' = (orderly /\ pending = {s})
    /\ UNCHANGED <<given, torn, spoiled, brought>>

\* glCompileShader of vitaGL; the shader of a cached binary is ready as it is.
CompilePlain(s) ==
    /\ ~cg /\ holds[s] # Nothing
    /\ runs' = [runs EXCEPT ![s] = holds[s].of]
    /\ Compiled(s)
    /\ UNCHANGED <<cg, glStarts, holds, cache>>

\* glCompileShaderHook with skip_next_compile: nothing is compiled, whichever
\* shader it is.
CompileSkipped(s) ==
    /\ cg /\ skip /\ writing = None /\ holds[s] # Nothing
    /\ runs' = [runs EXCEPT ![s] = IF holds[s].kind = "binary" THEN holds[s].of ELSE None]
    /\ skip' = FALSE
    /\ Compiled(s)
    /\ UNCHANGED <<cg, glStarts, holds, fname, gxp, writing>>

\* It compiles the shader, and opens the file of fname, which empties it.  (Where it
\* does not open, fname still being "" or the card refusing it, fwrite is given no
\* stream and the process ends: RestartGl.)
CompileOpen(s) ==
    /\ cg /\ ~skip /\ writing = None /\ holds[s] # Nothing /\ fname # None
    /\ runs' = [runs EXCEPT ![s] = holds[s].of]
    /\ Compiled(s)
    /\ gxp' = [gxp EXCEPT ![fname] = Broken] /\ writing' = s
    /\ UNCHANGED <<cg, glStarts, holds, skip, fname>>

\* fwrite and fclose, whose answers nobody reads.
CompileWrite ==
    /\ writing # None
    /\ \E whole \in BOOLEAN :
         /\ gxp' = [gxp EXCEPT ![fname] = IF whole THEN runs[writing] ELSE Broken]
         /\ torn' = IF whole THEN torn \ {fname} ELSE torn \cup {fname}
    /\ writing' = None
    /\ UNCHANGED <<cg, glStarts, holds, runs, skip, fname, given, pending, orderly, spoiled, brought>>

\* The process ends, in the middle of a write perhaps, and starts again.
RestartGl ==
    /\ glStarts > 0
    /\ glStarts' = 0
    /\ holds' = [s \in Shaders |-> Nothing] /\ runs' = [s \in Shaders |-> None]
    /\ skip' = FALSE /\ fname' = None /\ writing' = None
    /\ torn' = IF writing = None THEN torn ELSE torn \cup {fname}
    /\ given' = [s \in Shaders |-> None] /\ pending' = {} /\ spoiled' = {} /\ brought' = 0
    /\ UNCHANGED <<cg, gxp, orderly>>

GraphicsNext ==
    \/ \E s \in Shaders : \/ \E src \in Sources : SourceCached(s, src) \/ SourceFixed(s, src)
                          \/ CompilePlain(s) \/ CompileSkipped(s) \/ CompileOpen(s)
    \/ StartGl \/ CompileWrite \/ RestartGl

-----------------------------------------------------------------------------
(* Properties.                                                             *)

\* The two globals of the cache tie a compilation to the source brought before
\* it.  As long as the game compiles each shader right after bringing it, the
\* file of a source holds that source's whole binary and nothing else, over restarts
\* and opens that the card refuses, but for a file whose last write was cut off.
CacheHonest ==
    orderly => \A src \in Sources :
        gxp[src] \in {None, src} \/ src \in torn \/ (writing # None /\ fname = src)

\* Then a shader runs, once it is compiled, the source it was last given, from the
\* cache or not; but for one that was brought from a file that was cut off, or read
\* short: what is in a file is never looked at, and half a binary is given to the
\* shader in every life in which its file opens.  Without the cache it runs its
\* source in whatever order the game works, Shockwave's in its rewritten form.
RunsItsSource ==
    \A s \in Shaders : given[s] # None /\ s \notin pending =>
        IF cg THEN orderly /\ s \notin spoiled => runs[s] = given[s]
        ELSE /\ runs[s] # Shockwave
             /\ given[s] # Shockwave => runs[s] = given[s]

\* No compilation is left out: in an orderly life the flag is set only for the
\* shader that is about to be compiled, and is down after it.
SkipsOnlyItsOwn == orderly /\ pending = {} => ~skip

\* A shader runs its own source, over lives and cached files, and half a file spoils
\* only the shaders of its own source.
ShadersRun ==
    GraphicsTypeOK /\ CacheHonest /\ RunsItsSource /\ SkipsOnlyItsOwn
=============================================================================
