------------------------------ MODULE SoLoader ------------------------------
(***************************************************************************)
(* The start of the program, source/utils/init.c, and the ELF loader of    *)
(* lib/so_util/so_util.c it drives: reading the image, placing its         *)
(* segments, the error exits, relocation against the image's own symbols,  *)
(* resolution against the import table, and the code that then runs.       *)
(*                                                                         *)
(* External: the image, whose headers are in the first sector of its file  *)
(* and whose section headers, with the name table's last, end it; the file *)
(* system, which reads whole sectors, and perhaps too few; and the kernel, *)
(* which fills a block with zeros, may refuse one, and always refuses one  *)
(* that overlaps a live one.  Addresses are in units of which PageSize     *)
(* make a page, offset so that 0 is no address.                            *)
(*                                                                         *)
(* One module is ever loaded, so so_resolve_link, which looks only at      *)
(* others, finds nothing and is left out.                                  *)
(***************************************************************************)
EXTENDS Naturals, Sequences, FiniteSets

CONSTANTS Images,     \* the PT_LOAD segments an image may have, in order
          Slots,      \* the words that a relocation entry speaks of
          PageSize,   \* p_align
          MaxDataSeg, \* MAX_DATA_SEG
          LoadAddress \* LOAD_ADDRESS

Segment == [kind : {"text", "data"}, vaddr : Nat, memsz : Nat]
Types   == {"ABS32", "RELATIVE", "GLOB_DAT", "JUMP_SLOT", "other"}
Symbols == {"own", "imported", "unknown"} \* defined; in default_dynlib; nowhere

ASSUME SizesAssumption == /\ PageSize \in Nat \ {0} /\ MaxDataSeg \in Nat \ {0}
                          /\ LoadAddress \in Nat \ {0}
\* An image has something to load.
ASSUME ImagesAssumption == Images \subseteq Seq(Segment) \ {<<>>}

VARIABLES
    segs,     \* constant: the segments of this image
    isElf,    \* constant: it begins with ELFMAG
    hasTables,\* it has the five sections the loader needs, and so has the copy
    pc,       \* where soloader_init_all is
    i,        \* the next segment
    res,      \* res, and then what so_file_load returned
    fd,       \* whether the file is open
    live,     \* external: the blocks that are allocated
    wrongFree,\* history: a block was freed that was not
    placed,   \* mod: where segment n went; data_addr is the end of the last
    parsed,   \* mod: dynamic, dynsym, reldyn, ... are set, mod is in the list
    rel,      \* the relocation entry of a slot
    value,    \* what a slot holds
    stale     \* code was written that the instruction cache may not have seen

image == <<segs, isElf, hasTables>>
memory == <<fd, live, wrongFree>>
module == <<placed, parsed, rel, value, stale>>
vars == <<image, pc, i, res, memory, module>>

Data(n) == <<"data", n>>
AllData == {Data(n) : n \in 0..MaxDataSeg - 1}
So    == <<"so", 0>>     \* the copy of the file
Arena == <<"patch", 0>>  \* for code patches
Text  == <<"text", 0>>
Blocks  == {So, Arena, Text} \cup AllData

Phases == {"check", "open", "alloc", "segments", "freedata", "freetext",
           "freeso", "returned", "relocate", "resolve", "patch", "flush",
           "constructors", "started", "fatal"}

\* A word: how often text_base was added to it, and to what; "file" is what
\* the image has there.
Word  == [base : 0..2, what : {"file", "symbol", "import", "plt0_stub"}, addend : BOOLEAN]
Entry == [type : Types, symbol : Symbols, addend : BOOLEAN]
AsInFile(entry) == [base |-> 0, what |-> "file", addend |-> entry.addend]
NoEntry == [type |-> "GLOB_DAT", symbol |-> "own", addend |-> FALSE]

TypeOK ==
    /\ segs \in Seq(Segment) /\ isElf \in BOOLEAN /\ hasTables \in BOOLEAN
    /\ pc \in Phases
    /\ i \in 1..Len(segs) + 1
    /\ res \in {"negative", "zero", "positive"}
    /\ fd \in BOOLEAN /\ wrongFree \in BOOLEAN
    /\ live \subseteq Blocks
    /\ placed \in Seq([kind : {"text", "data"}, base : Nat, size : Nat, at : Nat, memsz : Nat])
    /\ Len(placed) =< Len(segs)
    /\ parsed \in BOOLEAN /\ stale \in BOOLEAN
    /\ rel \in [Slots -> Entry]
    /\ value \in [Slots -> Word]

Init ==
    /\ segs \in Images
    /\ isElf \in BOOLEAN /\ hasTables \in BOOLEAN
    /\ pc = "check" /\ i = 1 /\ res = "zero"
    /\ fd = FALSE /\ live = {} /\ wrongFree = FALSE
    /\ placed = <<>> /\ parsed = FALSE /\ stale = FALSE
    /\ rel = [s \in Slots |-> NoEntry]
    /\ value = [s \in Slots |-> AsInFile(NoEntry)]

Go(phase) == pc' = phase
Fail(phase) == Go(phase) /\ res' = "negative"

-----------------------------------------------------------------------------
(* so_file_load                                                            *)

\* module_loaded("kubridge") and file_exists(SO_PATH), fatal when not.
CheckInstalled ==
    /\ pc = "check"
    /\ Go("open") \/ Go("fatal")
    /\ UNCHANGED <<image, i, res, memory, module>>

Open ==
    /\ pc = "open"
    /\ \/ Go("alloc") /\ fd' = TRUE /\ UNCHANGED res
       \/ Fail("returned") /\ UNCHANGED fd
    /\ UNCHANGED <<image, i, live, wrongFree, module>>

\* A refused block leaves the file open.  How much of the file is read is not looked
\* at: nothing, and the copy is no ELF; or less than all, and it is not its end that
\* is read, so that the section names are zeros.
Allocate ==
    /\ pc = "alloc"
    /\ \/ /\ live' = live \cup {So}
          /\ fd' = FALSE
          /\ \/ isElf /\ Go("segments") /\ hasTables' \in {hasTables, FALSE} /\ UNCHANGED res
             \/ Fail("freeso") /\ UNCHANGED hasTables
       \/ Fail("returned") /\ UNCHANGED <<live, fd, hasTables>>
    /\ UNCHANGED <<segs, isElf, i, wrongFree, module>>

-----------------------------------------------------------------------------
(* _so_load, a segment a step.                                             *)

AlignUp(n) == ((n + PageSize - 1) \div PageSize) * PageSize

TextPlaced == \E n \in 1..Len(placed) : placed[n].kind = "text"
TextBase == LET n == CHOOSE m \in 1..Len(placed) : placed[m].kind = "text"
            IN  placed[n].at
NData == Cardinality({n \in 1..Len(placed) : placed[n].kind = "data"})

\* Where the block of the last segment ends, 0 when no text is placed.
DataAddr == IF TextPlaced THEN placed[Len(placed)].base + placed[Len(placed)].size ELSE 0

LoadSegment(kind) ==
    /\ pc = "segments"
    /\ i =< Len(segs) /\ segs[i].kind = kind
    /\ UNCHANGED <<image, fd, wrongFree, parsed, rel, value>>

Placed(base, size, at) ==
    /\ placed' = Append(placed, [kind |-> segs[i].kind, base |-> base, size |-> size,
                                 at |-> at, memsz |-> segs[i].memsz])
    /\ res' = "positive"
    /\ i' = i + 1
    /\ UNCHANGED pc

\* The patch arena goes right under the text; when the text is refused the
\* arena stays.
LoadText ==
    /\ LoadSegment("text")
    /\ \/ Fail("freeso") /\ UNCHANGED <<live, i, placed, stale>>
       \/ /\ Arena \notin live
          /\ live' = live \cup {Arena}
          /\ Fail("freeso") /\ UNCHANGED <<i, placed, stale>>
       \/ /\ {Arena, Text} \cap live = {}
          /\ live' = live \cup {Arena, Text}
          /\ Placed(LoadAddress, AlignUp(segs[i].memsz), LoadAddress + segs[i].vaddr)
          /\ stale' = TRUE

\* Mutant: the block is as large as the segment.
DataSize_Plain(seg) == AlignUp(seg.memsz)

\* From data_addr to the end of the segment; 0 also for what wraps around.
DataSize(seg) ==
    LET before == DataAddr - TextBase
    IN  IF seg.vaddr + seg.memsz > before THEN AlignUp(seg.memsz + seg.vaddr - before) ELSE 0

\* The exits before a block is asked for leave res as the last block set it.
LoadData ==
    /\ LoadSegment("data")
    /\ UNCHANGED stale
    /\ \/ /\ DataAddr = 0
          /\ Go("freeso") /\ UNCHANGED <<i, res, live, placed>>
       \/ /\ DataAddr # 0 /\ NData >= MaxDataSeg
          /\ Go("freedata") /\ UNCHANGED <<i, res, live, placed>>
       \/ /\ DataAddr # 0 /\ NData < MaxDataSeg
          /\ Fail("freetext") /\ UNCHANGED <<i, live, placed>>
       \/ /\ DataAddr # 0 /\ NData < MaxDataSeg
          /\ DataSize(segs[i]) > 0 /\ Data(NData) \notin live
          /\ live' = live \cup {Data(NData)}
          /\ Placed(DataAddr, DataSize(segs[i]), TextBase + segs[i].vaddr)

\* The section headers, and on success the end of _so_load.
ReadSections ==
    /\ pc = "segments"
    /\ i > Len(segs)
    /\ IF hasTables
       THEN /\ parsed' = TRUE
            /\ \E r \in [Slots -> Entry] :
                /\ rel' = r
                /\ value' = [s \in Slots |-> AsInFile(r[s])]
            /\ live' = live \ {So}
            /\ res' = "zero"
            /\ Go("returned")
       ELSE Fail("freedata") /\ UNCHANGED <<parsed, rel, value, live>>
    /\ UNCHANGED <<image, i, fd, wrongFree, placed, stale>>

Free(blocks) ==
    /\ live' = live \ blocks
    /\ wrongFree' = (wrongFree \/ ~(blocks \subseteq live))
    /\ UNCHANGED <<image, i, res, fd, module>>

\* Mutant: every block there could be is freed.
ErrFreeData_All == pc = "freedata" /\ Free(AllData) /\ Go("freetext")

\* The three labels, each falling through to the next.
ErrFreeData == pc = "freedata" /\ Free({Data(n) : n \in 0..NData - 1}) /\ Go("freetext")

ErrFreeText == pc = "freetext" /\ Free({Text}) /\ Go("freeso")

ErrFreeSo == pc = "freeso" /\ Free({So}) /\ Go("returned")

-----------------------------------------------------------------------------
(* soloader_init_all, once the image is loaded.                            *)

\* so_file_load(...) < 0
Loaded ==
    /\ pc = "returned"
    /\ Go(IF res = "negative" THEN "fatal" ELSE "relocate")
    /\ UNCHANGED <<image, i, res, memory, module>>

AddBase(w, what) == [w EXCEPT !.base = @ + 1, !.what = what]

\* so_relocate, for one entry: imports are left alone.
Relocated(entry, w) ==
    CASE entry.type = "RELATIVE" -> AddBase(w, "file")
      [] entry.symbol = "own" /\ entry.type = "ABS32" -> AddBase(w, "symbol")
      [] entry.symbol = "own" /\ entry.type \in {"GLOB_DAT", "JUMP_SLOT"} ->
             [base |-> 1, what |-> "symbol", addend |-> FALSE]
      [] OTHER -> w

Relocate ==
    /\ pc = "relocate"
    /\ IF parsed /\ \E s \in Slots : rel[s].type = "other"
       THEN Go("fatal") /\ UNCHANGED value
       ELSE /\ Go("resolve")
            /\ value' = IF parsed THEN [s \in Slots |-> Relocated(rel[s], value[s])] ELSE value
    /\ UNCHANGED <<image, i, res, memory, placed, parsed, rel, stale>>

\* Mutant: symbols of the image itself are looked up as well.
Resolved_Own(entry, w) ==
    IF entry.type = "RELATIVE" \/ entry.symbol = "imported" THEN w
    ELSE [base |-> 0, what |-> "plt0_stub", addend |-> FALSE]

\* so_resolve, for one entry.  A jump slot nobody provides gets the stub that
\* names the symbol and stops; other words nobody provides stay as they are.
Resolved(entry, w) ==
    CASE entry.type # "RELATIVE" /\ entry.symbol = "imported" ->
             [base |-> 0, what |-> "import", addend |-> FALSE]
      [] entry.type = "JUMP_SLOT" /\ entry.symbol = "unknown" ->
             [base |-> 0, what |-> "plt0_stub", addend |-> FALSE]
      [] OTHER -> w

Resolve ==
    /\ pc = "resolve"
    /\ Go("patch")
    /\ value' = IF parsed THEN [s \in Slots |-> Resolved(rel[s], value[s])] ELSE value
    /\ UNCHANGED <<image, i, res, memory, placed, parsed, rel, stale>>

\* so_patch: hooks, on the symbols that are found.
Patch ==
    /\ pc = "patch"
    /\ Go("flush")
    /\ stale' = (stale \/ parsed)
    /\ UNCHANGED <<image, i, res, memory, placed, parsed, rel, value>>

\* so_flush_caches
Flush ==
    /\ pc = "flush"
    /\ Go("constructors")
    /\ stale' = FALSE
    /\ UNCHANGED <<image, i, res, memory, placed, parsed, rel, value>>

\* so_initialize; gl_preload and jni_init follow.
Initialize ==
    /\ pc = "constructors"
    /\ Go("started")
    /\ UNCHANGED <<image, i, res, memory, module>>

-----------------------------------------------------------------------------
Ended == pc \in {"started", "fatal"} /\ UNCHANGED vars

Next == \/ CheckInstalled \/ Open \/ Allocate
        \/ LoadText \/ LoadData \/ ReadSections
        \/ ErrFreeData \/ ErrFreeText \/ ErrFreeSo \/ Loaded
        \/ Relocate \/ Resolve \/ Patch \/ Flush \/ Initialize \/ Ended

Spec == Init /\ [][Next]_vars

-----------------------------------------------------------------------------
(* Properties.                                                             *)

GoingOn == pc \in {"relocate", "resolve", "patch", "flush", "constructors", "started"}

\* A text and then at most MAX_DATA_SEG data segments.
Regular == /\ segs[1].kind = "text"
           /\ \A n \in 2..Len(segs) : segs[n].kind = "data"
           /\ Len(segs) - 1 =< MaxDataSeg

\* As linkers lay an image out: the text at 0, no two segments in one page.
PagesApart == /\ segs[1].vaddr = 0
              /\ \A n \in 2..Len(segs) :
                    segs[n].vaddr >= AlignUp(segs[n-1].vaddr + segs[n-1].memsz)

\* The three error labels of _so_load free blocks that are allocated, each
\* once, whatever the exit they are reached from.
FreesOnlyLive == ~wrongFree

\* However so_file_load ended, the copy of the file is gone, and the file is
\* closed unless there was no block for the copy.
CopyReleased == pc \in {"returned", "fatal"} \/ GoingOn =>
    So \notin live /\ (fd => res = "negative" /\ live = {})

\* soloader_init_all goes on with a regular image only when all of it is in
\* memory, its tables are known, and nothing of the loading is left behind.
\* (With data before text, or too many data segments, it goes on regardless.)
GoesOnLoaded == GoingOn /\ Regular =>
    /\ parsed /\ res = "zero"
    /\ live = {Arena, Text} \cup {Data(n) : n \in 0..Len(segs) - 2}

\* A segment lies within its block, at the one distance from its address in the
\* file, and no two blocks overlap.
SegmentsFit == Regular /\ PagesApart =>
    \A n \in 1..Len(placed) :
        /\ placed[n].at = LoadAddress + segs[n].vaddr
        /\ placed[n].base =< placed[n].at
        /\ placed[n].at + placed[n].memsz =< placed[n].base + placed[n].size
        /\ \A m \in 1..n - 1 : placed[m].base + placed[m].size =< placed[n].base

\* What the ARM ELF specification says a word must hold, with a stub for a
\* function nobody provides.
Expected(entry) ==
    CASE entry.type = "RELATIVE" -> [base |-> 1, what |-> "file", addend |-> entry.addend]
      [] entry.type # "RELATIVE" /\ entry.symbol = "own" ->
            [base |-> 1, what |-> "symbol", addend |-> entry.type = "ABS32" /\ entry.addend]
      [] entry.type # "RELATIVE" /\ entry.symbol = "imported" ->
            [base |-> 0, what |-> "import", addend |-> entry.type = "ABS32" /\ entry.addend]
      [] entry.type = "JUMP_SLOT" /\ entry.symbol = "unknown" ->
            [base |-> 0, what |-> "plt0_stub", addend |-> FALSE]
      [] OTHER -> AsInFile(entry)

\* The image's constructors run when so_relocate and so_resolve between them
\* have given every word its value once, and the code has been flushed since
\* it was last written.  An import with an addend is not among those words:
\* so_resolve stores the function alone.
ConstructorsReady == pc \in {"constructors", "started"} /\ parsed =>
    /\ ~stale
    /\ \A s \in Slots :
        ~(rel[s].type = "ABS32" /\ rel[s].symbol = "imported" /\ rel[s].addend)
            => value[s] = Expected(rel[s])

\* On every way out of the loader each block is freed as often as it was allocated,
\* or is one the loader keeps.
BlocksFreed == TypeOK /\ FreesOnlyLive /\ CopyReleased

\* An image the program goes on with is in memory, all of it and nothing beside it,
\* every segment at its place.
ImageInPlace == GoesOnLoaded /\ SegmentsFit
=============================================================================
