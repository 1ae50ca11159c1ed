--------------------------- MODULE StartupProofs ----------------------------
(***************************************************************************)
(* For any images, page size, load address and number of data segments:    *)
(* what the loader of SoLoader frees, what it goes on with, where the      *)
(* segments are and what the relocated words hold; for any digests and     *)
(* save files, that MainStartup brings TLS up and which saves it may lose; *)
(* for any symbols, hash table and width of a hash, that SymbolTable finds *)
(* what the image defines.                                                 *)
(***************************************************************************)
EXTENDS MainStartup, SymbolTable, FiniteSetTheorems, WellFoundedInduction, TLAPS

-----------------------------------------------------------------------------
(* Pages.                                                                  *)

LEMMA Monotone ==
    ASSUME NEW p \in Nat, NEW a \in Int, NEW b \in Int, a =< b
    PROVE  a * p =< b * p
<1>1. (b - a) * p >= 0
  OBVIOUS
<1>2. (b - a) * p = b * p - a * p
  OBVIOUS
<1> QED BY <1>1, <1>2

LEMMA Quotient ==
    ASSUME NEW p \in Nat \ {0}, NEW y \in Int
    PROVE  /\ y \div p \in Int
           /\ (y \div p) * p =< y
           /\ y < (y \div p) * p + p
OBVIOUS

\* A number between two multiples of the page that follow each other is in no
\* other page.
LEMMA OneQuotient ==
    ASSUME NEW p \in Nat \ {0}, NEW y \in Int, NEW q \in Int,
           q * p =< y, y < q * p + p
    PROVE  q = y \div p
<1> DEFINE d == y \div p
<1>1. d \in Int /\ d * p =< y /\ y < d * p + p
  BY Quotient
<1> HIDE DEF d
<1>2. ASSUME q < d PROVE FALSE
  <2>1. (q + 1) * p =< d * p
    BY <1>1, <1>2, Monotone
  <2>2. (q + 1) * p = q * p + p
    OBVIOUS
  <2> QED BY <1>1, <2>1, <2>2
<1>3. ASSUME d < q PROVE FALSE
  <2>1. (d + 1) * p =< q * p
    BY <1>1, <1>3, Monotone
  <2>2. (d + 1) * p = d * p + p
    BY <1>1
  <2> QED BY <1>1, <2>1, <2>2
<1> QED BY <1>1, <1>2, <1>3 DEF d

\* AlignUp does not go down, and stays where it is on a page.
LEMMA AlignUpType ==
    ASSUME NEW n \in Nat
    PROVE  AlignUp(n) \in Nat /\ AlignUp(n) >= n
<1> DEFINE q == (n + PageSize - 1) \div PageSize
<1>1. PageSize \in Nat \ {0} /\ n + PageSize - 1 \in Int
  BY SizesAssumption
<1>2. /\ q \in Int /\ q * PageSize =< n + PageSize - 1
      /\ n + PageSize - 1 < q * PageSize + PageSize
  BY <1>1, Quotient
<1> HIDE DEF q
<1>3. q * PageSize \in Int
  BY <1>1, <1>2
<1>4. q * PageSize >= n
  BY <1>1, <1>2, <1>3
<1> QED BY <1>3, <1>4 DEF AlignUp, q

\* What is aligned from the end of a page on is aligned.
LEMMA AlignFromPage ==
    ASSUME NEW m \in Nat, NEW n \in Nat, n >= AlignUp(m)
    PROVE  AlignUp(n - AlignUp(m)) = AlignUp(n) - AlignUp(m)
<1> DEFINE k == (m + PageSize - 1) \div PageSize
           y == n + PageSize - 1
           q == y \div PageSize
<1>1. PageSize \in Nat \ {0} /\ m + PageSize - 1 \in Int /\ y \in Int
  BY SizesAssumption
<1>2. k \in Int /\ q \in Int /\ q * PageSize =< y /\ y < q * PageSize + PageSize
  BY <1>1, Quotient
<1>3. AlignUp(m) = k * PageSize /\ AlignUp(n) = q * PageSize
  BY DEF AlignUp
<1>4. AlignUp(n - AlignUp(m)) = ((y - k * PageSize) \div PageSize) * PageSize
  <2>1. (n - AlignUp(m)) + PageSize - 1 = y - k * PageSize
    BY <1>1, <1>2, <1>3
  <2> QED BY <2>1 DEF AlignUp
<1> HIDE DEF k, y, q
<1>5. (q - k) * PageSize = q * PageSize - k * PageSize
  BY <1>1, <1>2
<1>6. q - k = (y - k * PageSize) \div PageSize
  <2>1. /\ q - k \in Int /\ y - k * PageSize \in Int
        /\ (q - k) * PageSize =< y - k * PageSize
        /\ y - k * PageSize < (q - k) * PageSize + PageSize
    BY <1>1, <1>2, <1>5
  <2> QED BY <1>1, <2>1, OneQuotient
<1> QED BY <1>3, <1>4, <1>5, <1>6

-----------------------------------------------------------------------------
(* The loader's invariant.                                                 *)

DataBlocks(n) == {Data(k) : k \in 0..n - 1}

\* What _so_load has allocated for the segments it has placed.
Allocated == IF placed = <<>> THEN {} ELSE {Arena, Text} \cup DataBlocks(Len(placed) - 1)

\* A text comes first, and only once; nothing is placed at 0, which for the
\* loader is no address.
TextThenData == placed # <<>> =>
    /\ placed[1].kind = "text"
    /\ \A n \in 2..Len(placed) : placed[n].kind = "data"
    /\ Len(placed) - 1 =< MaxDataSeg
    /\ \A n \in 1..Len(placed) : placed[n].base > 0

Loading == pc \in {"check", "open", "alloc", "segments", "freedata", "freetext", "freeso"}

\* What is allocated where so_file_load and soloader_init_all are.
LiveWhere ==
    /\ pc \in {"check", "open", "alloc"} => live = {} /\ placed = <<>> /\ i = 1 /\ (fd => pc = "alloc")
    /\ pc = "segments" => /\ live = {So} \cup Allocated /\ i = Len(placed) + 1
    /\ pc = "freedata" => /\ live = {So} \cup Allocated /\ placed # <<>>
    /\ pc = "freetext" => {So, Text} \subseteq live
    /\ pc = "freeso" => So \in live
    /\ pc \in {"segments", "freedata", "freetext", "freeso"} => ~fd
    /\ ~Loading => So \notin live /\ (fd => res = "negative" /\ live = {})

\* A regular image leaves _so_load whole, or with the result that makes
\* soloader_init_all stop.
Whole == parsed /\ res = "zero" /\ live = {Arena, Text} \cup DataBlocks(Len(segs) - 1)

WholeOrNegative == Regular =>
    /\ pc \in {"freedata", "freetext", "freeso"} => res = "negative"
    /\ pc = "returned" => res = "negative" \/ Whole
    /\ GoingOn => Whole

LiveInv == TypeOK /\ Len(segs) >= 1 /\ ~wrongFree /\ TextThenData /\ LiveWhere /\ WholeOrNegative

\* The segments placed are the first of the image, each block begins where the
\* one before it ends, and ends on the page its segment ends on.
End(block) == block.base + block.size

Layout == Regular /\ PagesApart =>
    \A n \in 1..Len(placed) :
        /\ placed[n].at = LoadAddress + segs[n].vaddr
        /\ placed[n].memsz = segs[n].memsz
        /\ placed[n].base = IF n = 1 THEN LoadAddress ELSE End(placed[n - 1])
        /\ End(placed[n]) = LoadAddress + AlignUp(segs[n].vaddr + segs[n].memsz)
        /\ \A m \in 1..n - 1 : End(placed[m]) =< placed[n].base

\* What the words hold where so_relocate and so_resolve are.
WordsWhere ==
    /\ parsed => ~Loading
    /\ parsed /\ pc \in {"returned", "relocate"} =>
          \A s \in Slots : value[s] = AsInFile(rel[s])
    /\ parsed /\ pc = "resolve" =>
          \A s \in Slots : /\ rel[s].type # "other"
                          /\ value[s] = Relocated(rel[s], AsInFile(rel[s]))
    /\ parsed /\ pc \in {"patch", "flush", "constructors", "started"} =>
          \A s \in Slots : /\ rel[s].type # "other"
                          /\ value[s] = Resolved(rel[s], Relocated(rel[s], AsInFile(rel[s])))
    /\ pc \in {"constructors", "started"} => ~stale

LoadInv == LiveInv /\ Layout /\ WordsWhere

\* Beside what TlsStarts says: once main has patched the checks they are NOPs.
StartInv == TlsStarts /\ (mpc \notin {"loading", "patch"} => check = [d \in CheckedNames |-> "nop"])

-----------------------------------------------------------------------------
(* What is placed.                                                         *)

PlacedSegment == [kind : {"text", "data"}, base : Nat, size : Nat, at : Nat, memsz : Nat]

\* What the operators over placed come to, since the text is the first.
LEMMA Placement ==
    ASSUME TypeOK, TextThenData
    PROVE  /\ placed = <<>> => ~TextPlaced /\ NData = 0 /\ DataAddr = 0
           /\ placed # <<>> => /\ TextBase = placed[1].at
                              /\ NData = Len(placed) - 1
                              /\ TextPlaced /\ DataAddr = End(placed[Len(placed)])
<1>1. placed \in Seq(PlacedSegment)
  BY DEF TypeOK, PlacedSegment
<1>2. CASE placed = <<>>
  <2>1. 1..Len(placed) = {}
    BY <1>2
  <2>2. {n \in 1..Len(placed) : placed[n].kind = "data"} = {}
    BY <2>1
  <2> QED BY <1>2, <2>1, <2>2, FS_EmptySet DEF TextPlaced, NData, DataAddr
<1>3. CASE placed # <<>>
  <2>1. Len(placed) \in Nat /\ Len(placed) >= 1
    BY <1>1, <1>3
  <2>2. /\ placed[1].kind = "text"
        /\ \A n \in 2..Len(placed) : placed[n].kind = "data"
    BY <1>3 DEF TextThenData
  <2>3. \A n \in 1..Len(placed) : placed[n].kind = "text" <=> n = 1
    BY <2>1, <2>2
  <2>4. {n \in 1..Len(placed) : placed[n].kind = "data"} = 2..Len(placed)
    BY <2>1, <2>2
  <2>5. Cardinality(2..Len(placed)) = Len(placed) - 1
    BY <2>1, FS_Interval
  <2>6. TextPlaced
    BY <2>1, <2>2 DEF TextPlaced
  <2>7. TextBase = placed[1].at
    BY <2>1, <2>3 DEF TextBase
  <2> QED BY <1>3, <2>4, <2>5, <2>6, <2>7 DEF NData, DataAddr, End
<1> QED BY <1>2, <1>3

\* A block for data has a size, whatever the image.
LEMMA DataSizeType ==
    ASSUME TypeOK, TextThenData, placed # <<>>, NEW seg \in Segment
    PROVE  DataSize(seg) \in Nat
<1>1. TextBase = placed[1].at /\ DataAddr = End(placed[Len(placed)])
  BY Placement
<1>2. placed \in Seq(PlacedSegment)
  BY DEF TypeOK, PlacedSegment
<1>3. Len(placed) \in Nat /\ Len(placed) >= 1
  BY <1>2
<1>4. TextBase \in Nat /\ DataAddr \in Nat
  <2>1. placed[1] \in PlacedSegment /\ placed[Len(placed)] \in PlacedSegment
    BY <1>2, <1>3
  <2> QED BY <1>1, <2>1 DEF End, PlacedSegment
<1> DEFINE before == DataAddr - TextBase
<1>5. before \in Int /\ seg.vaddr \in Nat /\ seg.memsz \in Nat
  BY <1>4 DEF Segment
<1>6. DataSize(seg) = IF seg.vaddr + seg.memsz > before
                      THEN AlignUp(seg.memsz + seg.vaddr - before) ELSE 0
  BY DEF DataSize
<1> HIDE DEF before
<1>7. CASE seg.vaddr + seg.memsz > before
  <2>1. seg.memsz + seg.vaddr - before \in Nat
    BY <1>5, <1>7
  <2> QED BY <1>6, <1>7, <2>1, AlignUpType
<1> QED BY <1>5, <1>6, <1>7

\* The step that places a segment appends to placed.
LEMMA Appended ==
    ASSUME TypeOK, NEW base \in Nat, NEW size \in Nat, NEW at \in Nat,
           Placed(base, size, at), i =< Len(segs), i = Len(placed) + 1
    PROVE  /\ placed' \in Seq(PlacedSegment)
           /\ Len(placed') = Len(placed) + 1 /\ placed' # <<>>
           /\ \A n \in 1..Len(placed) : placed'[n] = placed[n]
           /\ placed'[Len(placed')] = [kind |-> segs[i].kind, base |-> base, size |-> size,
                                       at |-> at, memsz |-> segs[i].memsz]
<1>1. placed \in Seq(PlacedSegment) /\ segs[i] \in Segment
  BY DEF TypeOK, PlacedSegment
<1> DEFINE p == [kind |-> segs[i].kind, base |-> base, size |-> size,
                 at |-> at, memsz |-> segs[i].memsz]
<1>2. p \in PlacedSegment
  BY <1>1 DEF PlacedSegment, Segment
<1>3. placed' = Append(placed, p)
  BY DEF Placed
<1> HIDE DEF p
<1>4. /\ placed' \in Seq(PlacedSegment) /\ Len(placed') = Len(placed) + 1
      /\ \A n \in 1..Len(placed) : placed'[n] = placed[n]
      /\ placed'[Len(placed')] = p
  BY <1>1, <1>2, <1>3
<1>5. placed' # <<>>
  BY <1>1, <1>4
<1> QED BY <1>4, <1>5 DEF p

-----------------------------------------------------------------------------
(* The blocks.                                                             *)

\* What a regular image has placed when its headers are all read.
LEMMA AllPlaced ==
    ASSUME TypeOK, TextThenData, placed # <<>>, i = Len(placed) + 1, i > Len(segs)
    PROVE  Len(placed) = Len(segs)
BY DEF TypeOK

\* Data(n) is told from the other blocks and from its like.
LEMMA DataApart ==
    ASSUME NEW n, NEW m
    PROVE  /\ Data(n) \notin {So, Arena, Text}
           /\ Data(n) = Data(m) => n = m
BY DEF Data, So, Arena, Text

\* The blocks that the error labels free are those allocated for the data.
LEMMA DataFreed ==
    ASSUME TypeOK, TextThenData, placed # <<>>
    PROVE  /\ {Data(n) : n \in 0..NData - 1} = DataBlocks(Len(placed) - 1)
           /\ ({So} \cup Allocated) \ DataBlocks(Len(placed) - 1) = {So, Arena, Text}
<1>1. NData = Len(placed) - 1
  BY Placement
<1>2. Allocated = {Arena, Text} \cup DataBlocks(Len(placed) - 1)
  BY DEF Allocated
<1>3. \A b \in DataBlocks(Len(placed) - 1) : b \notin {So, Arena, Text}
  BY DataApart DEF DataBlocks
<1> QED BY <1>1, <1>2, <1>3 DEF DataBlocks

\* The text gets its block: it is the first segment.
LEMMA LiveText ==
    ASSUME LiveInv, LoadText
    PROVE  LiveInv'
<1> USE DEF LiveInv
<1>1. pc = "segments" /\ i =< Len(segs) /\ segs[i].kind = "text"
  BY DEF LoadText, LoadSegment
<1>2. live = {So} \cup Allocated /\ i = Len(placed) + 1 /\ ~fd
  BY <1>1 DEF LiveWhere
<1>3. segs' = segs /\ isElf' = isElf /\ hasTables' = hasTables /\ fd' = fd
      /\ wrongFree' = wrongFree /\ parsed' = parsed /\ rel' = rel /\ value' = value
  BY DEF LoadText, LoadSegment, image
<1>4. segs[i] \in Segment
  BY <1>1 DEF TypeOK
<1>5. CASE Fail("freeso") /\ UNCHANGED <<i, placed, stale>> /\ live' \in {live, live \cup {Arena}}
  <2>1. TypeOK'
    BY <1>3, <1>5 DEF TypeOK, Fail, Go, Phases, Blocks
  <2>2. TextThenData'
    BY <1>5 DEF TextThenData
  <2>3. So \in live' /\ pc' = "freeso"
    BY <1>2, <1>5 DEF Fail, Go
  <2>4. LiveWhere'
    BY <1>2, <1>3, <2>3 DEF LiveWhere, Loading
  <2>5. WholeOrNegative'
    BY <1>5, <2>3 DEF WholeOrNegative, Fail, GoingOn
  <2> QED BY <1>3, <2>1, <2>2, <2>4, <2>5
<1>6. CASE /\ {Arena, Text} \cap live = {}
           /\ live' = live \cup {Arena, Text}
           /\ Placed(LoadAddress, AlignUp(segs[i].memsz), LoadAddress + segs[i].vaddr)
           /\ stale' = TRUE
  <2>1. placed = <<>>
    BY <1>2, <1>6 DEF Allocated
  <2>2. Len(placed) = 0
    BY <2>1
  <2>3. AlignUp(segs[i].memsz) \in Nat /\ LoadAddress + segs[i].vaddr \in Nat /\ LoadAddress \in Nat
    <3>1. segs[i].memsz \in Nat /\ segs[i].vaddr \in Nat
      BY <1>4 DEF Segment
    <3>2. AlignUp(segs[i].memsz) \in Nat
      BY <3>1, AlignUpType
    <3> QED BY <3>1, <3>2, SizesAssumption
  <2>4. /\ placed' \in Seq(PlacedSegment)
        /\ Len(placed') = 1 /\ placed' # <<>>
        /\ placed'[1].kind = "text" /\ placed'[1].base = LoadAddress
    <3> DEFINE size == AlignUp(segs[i].memsz)
               at == LoadAddress + segs[i].vaddr
    <3>1. size \in Nat /\ at \in Nat /\ LoadAddress \in Nat /\ Placed(LoadAddress, size, at)
      BY <1>6, <2>3
    <3> HIDE DEF size, at
    <3>2. /\ placed' \in Seq(PlacedSegment)
          /\ Len(placed') = Len(placed) + 1 /\ placed' # <<>>
          /\ placed'[Len(placed')] = [kind |-> segs[i].kind, base |-> LoadAddress,
                  size |-> size, at |-> at, memsz |-> segs[i].memsz]
      BY <1>1, <1>2, <3>1, Appended
    <3> QED BY <1>1, <2>2, <3>2
  <2>5. pc' = pc /\ i' = i + 1 /\ res' = "positive"
    BY <1>6 DEF Placed
  <2>6. TypeOK'
    BY <1>1, <1>2, <1>3, <1>6, <2>2, <2>4, <2>5 DEF TypeOK, PlacedSegment, Blocks
  <2>7. TextThenData'
    BY <2>4, SizesAssumption DEF TextThenData
  <2>8. Allocated' = {Arena, Text} /\ Allocated = {}
    BY <2>1, <2>4 DEF Allocated, DataBlocks
  <2>9. LiveWhere'
    BY <1>1, <1>2, <1>3, <1>6, <2>4, <2>5, <2>2, <2>8 DEF LiveWhere, Loading
  <2>10. WholeOrNegative'
    BY <1>1, <2>5 DEF WholeOrNegative, GoingOn
  <2> QED BY <1>3, <2>6, <2>7, <2>9, <2>10
<1> QED BY <1>5, <1>6 DEF LoadText

\* A data segment gets the next of the blocks for data.
LEMMA LiveData ==
    ASSUME LiveInv, LoadData
    PROVE  LiveInv'
<1> USE DEF LiveInv
<1>1. pc = "segments" /\ i =< Len(segs) /\ segs[i].kind = "data"
  BY DEF LoadData, LoadSegment
<1>2. live = {So} \cup Allocated /\ i = Len(placed) + 1 /\ ~fd
  BY <1>1 DEF LiveWhere
<1>3. segs' = segs /\ isElf' = isElf /\ hasTables' = hasTables /\ fd' = fd
      /\ wrongFree' = wrongFree /\ parsed' = parsed /\ rel' = rel /\ value' = value
      /\ stale' = stale
  BY DEF LoadData, LoadSegment, image
<1>4. segs[i] \in Segment /\ i \in Nat /\ Len(segs) \in Nat
  BY <1>1 DEF TypeOK
<1>5. Regular => i # 1
  BY <1>1 DEF Regular
<1>6. placed = <<>> => Len(placed) = 0
  OBVIOUS
<1>7. CASE ~(DataAddr # 0 /\ NData < MaxDataSeg /\ Placed(DataAddr, DataSize(segs[i]), TextBase + segs[i].vaddr))
  <2>1. /\ UNCHANGED <<i, live, placed>>
        /\ \/ DataAddr = 0 /\ Go("freeso") /\ UNCHANGED res
           \/ DataAddr # 0 /\ NData >= MaxDataSeg /\ Go("freedata") /\ UNCHANGED res
           \/ DataAddr # 0 /\ Fail("freetext")
    BY <1>7 DEF LoadData
  <2>2. TypeOK'
    BY <1>3, <2>1 DEF TypeOK, Fail, Go, Phases
  <2>3. TextThenData' /\ Allocated' = Allocated
    BY <2>1 DEF TextThenData, Allocated
  <2>4. DataAddr # 0 => placed # <<>> /\ Text \in live /\ NData = Len(placed) - 1
    BY <1>2, Placement DEF Allocated
  <2>5. pc' \in {"freeso", "freedata", "freetext"}
    BY <2>1 DEF Fail, Go
  <2>6. LiveWhere'
    <3>1. pc' = "freedata" => live' = {So} \cup Allocated' /\ placed' # <<>>
      BY <1>2, <2>1, <2>3, <2>4 DEF Go, Fail
    <3>2. pc' = "freetext" => {So, Text} \subseteq live'
      BY <1>2, <2>1, <2>4 DEF Go, Fail
    <3>3. So \in live'
      BY <1>2, <2>1
    <3> QED BY <1>2, <1>3, <2>5, <3>1, <3>2, <3>3 DEF LiveWhere, Loading
  <2>7. Regular => res' = "negative"
    <3> SUFFICES ASSUME Regular PROVE res' = "negative"
      OBVIOUS
    <3>1. DataAddr # 0 /\ placed # <<>>
      <4>1. i # 1 /\ Len(placed) # 0 /\ placed # <<>>
        BY <1>2, <1>4, <1>5 DEF TypeOK
      <4>2. placed \in Seq(PlacedSegment) /\ Len(placed) \in 1..Len(placed)
        BY <4>1 DEF TypeOK, PlacedSegment
      <4>3. DataAddr = End(placed[Len(placed)])
        BY <4>1, Placement
      <4>4. placed[Len(placed)].base > 0 /\ placed[Len(placed)] \in PlacedSegment
        BY <4>1, <4>2 DEF TextThenData
      <4> QED BY <4>1, <4>3, <4>4 DEF End, PlacedSegment
    <3>2. NData \in Nat /\ NData < MaxDataSeg
      <4>1. NData = Len(placed) - 1 /\ Len(segs) - 1 =< MaxDataSeg
        BY <2>4, <3>1 DEF Regular
      <4>2. Len(placed) \in Nat /\ Len(placed) >= 1
        BY <3>1 DEF TypeOK
      <4> QED BY <1>1, <1>2, <1>4, <4>1, <4>2, SizesAssumption
    <3>3. ~(NData >= MaxDataSeg)
      BY <3>2, SizesAssumption
    <3> QED BY <2>1, <3>1, <3>3 DEF Fail
  <2>8. Regular' = Regular
    BY <1>3 DEF Regular
  <2>9. WholeOrNegative'
    BY <2>5, <2>7, <2>8 DEF WholeOrNegative, GoingOn
  <2> QED BY <1>3, <2>2, <2>3, <2>6, <2>9
<1>8. CASE DataAddr # 0 /\ NData < MaxDataSeg /\ Placed(DataAddr, DataSize(segs[i]), TextBase + segs[i].vaddr)
  <2>1. pc' = pc /\ i' = i + 1 /\ res' = "positive"
    BY <1>8 DEF Placed
  <2>2. live' = live \cup {Data(NData)}
    BY <1>2, <1>4, <1>8, <2>1 DEF LoadData
  <2>3. placed # <<>> /\ NData = Len(placed) - 1 /\ TextBase = placed[1].at
        /\ DataAddr = End(placed[Len(placed)])
    BY <1>8, Placement
  <2>4. Len(placed) \in Nat /\ Len(placed) >= 1 /\ placed \in Seq(PlacedSegment)
    BY SMTT(30), <2>3 DEF TypeOK, PlacedSegment
  <2>5. DataAddr \in Nat /\ TextBase + segs[i].vaddr \in Nat
    <3>1. placed[1] \in PlacedSegment /\ placed[Len(placed)] \in PlacedSegment
      BY <2>4
    <3>2. /\ placed[1].at \in Nat /\ segs[i].vaddr \in Nat
          /\ placed[Len(placed)].base \in Nat /\ placed[Len(placed)].size \in Nat
      BY <1>4, <3>1 DEF PlacedSegment, Segment
    <3>3. End(placed[Len(placed)]) = placed[Len(placed)].base + placed[Len(placed)].size
      BY DEF End
    <3> QED BY SMTT(30), <2>3, <3>2, <3>3
  <2>6. DataSize(segs[i]) \in Nat
    BY <1>4, <2>3, DataSizeType
  <2>7. /\ placed' \in Seq(PlacedSegment)
        /\ Len(placed') = Len(placed) + 1 /\ placed' # <<>>
        /\ \A n \in 1..Len(placed) : placed'[n] = placed[n]
        /\ placed'[Len(placed')].kind = "data" /\ placed'[Len(placed')].base = DataAddr
    <3> DEFINE base == DataAddr
               size == DataSize(segs[i])
               at == TextBase + segs[i].vaddr
    <3>1. size \in Nat /\ at \in Nat /\ base \in Nat /\ Placed(base, size, at)
      BY <1>8, <2>5, <2>6
    <3> HIDE DEF size, at, base
    <3>2. /\ placed' \in Seq(PlacedSegment)
          /\ Len(placed') = Len(placed) + 1 /\ placed' # <<>>
          /\ \A n \in 1..Len(placed) : placed'[n] = placed[n]
          /\ placed'[Len(placed')] = [kind |-> segs[i].kind, base |-> base,
                  size |-> size, at |-> at, memsz |-> segs[i].memsz]
      BY <1>1, <1>2, <3>1, Appended
    <3> QED BY <1>1, <3>2 DEF base
  <2>8. NData \in 0..MaxDataSeg - 1
    BY <1>8, <2>3, <2>4, SizesAssumption
  <2>9. TypeOK'
    <3>1. live' \subseteq Blocks
      BY <2>2, <2>8 DEF TypeOK, Blocks, AllData
    <3>2. i' \in 1..Len(segs') + 1 /\ Len(placed') =< Len(segs')
      BY <1>1, <1>2, <1>3, <1>4, <2>1, <2>4, <2>7
    <3>3. pc' \in Phases /\ res' \in {"negative", "zero", "positive"}
      BY <2>1 DEF TypeOK
    <3> QED BY <1>3, <2>7, <3>1, <3>2, <3>3 DEF TypeOK, PlacedSegment
  <2>10. TextThenData'
    <3>1. Len(placed') - 1 =< MaxDataSeg
      BY <2>3, <2>4, <2>7, <2>8, SizesAssumption
    <3>2. \A n \in 1..Len(placed') : n \in 1..Len(placed) \/ n = Len(placed')
      BY <2>4, <2>7
    <3>3. \A n \in 1..Len(placed') : placed'[n].base > 0
      BY <1>8, <2>3, <2>5, <2>7, <3>2 DEF TextThenData
    <3> QED BY <2>3, <2>4, <2>7, <3>1, <3>2, <3>3 DEF TextThenData
  <2>11. Allocated' = Allocated \cup {Data(NData)}
    <3>1. DataBlocks(Len(placed') - 1) = DataBlocks(Len(placed) - 1) \cup {Data(Len(placed) - 1)}
      <4>1. 0..(Len(placed') - 1) - 1 = (0..(Len(placed) - 1) - 1) \cup {Len(placed) - 1}
        BY <2>4, <2>7
      <4> QED BY <4>1 DEF DataBlocks
    <3> QED BY <2>3, <2>7, <3>1 DEF Allocated
  <2>12. LiveWhere'
    BY <1>1, <1>2, <1>3, <2>1, <2>2, <2>4, <2>7, <2>11 DEF LiveWhere, Loading
  <2>13. WholeOrNegative'
    BY <1>1, <2>1 DEF WholeOrNegative, GoingOn
  <2> QED BY <1>3, <2>9, <2>10, <2>12, <2>13
<1> QED BY <1>7, <1>8

\* The steps that place nothing and leave the segments as they are.
LEMMA LiveOther ==
    ASSUME LiveInv, UNCHANGED <<segs, i, placed>>, TypeOK', ~wrongFree',
           LiveWhere', WholeOrNegative'
    PROVE  LiveInv'
BY DEF LiveInv, TextThenData

\* What so_relocate and so_resolve make of a word is a word.
LEMMA WordTypes ==
    ASSUME NEW entry \in Entry, NEW w \in Word
    PROVE  /\ AsInFile(entry) \in Word
           /\ w.base # 2 => Relocated(entry, w) \in Word
           /\ Resolved(entry, w) \in Word
<1>1. AsInFile(entry) \in Word
  BY DEF AsInFile, Word, Entry
<1>2. /\ w.base \in 0..2 /\ w.addend \in BOOLEAN
      /\ w = [base |-> w.base, what |-> w.what, addend |-> w.addend]
  BY DEF Word
<1>3. ASSUME NEW what \in {"file", "symbol"}, w.base # 2
      PROVE  AddBase(w, what) \in Word
  <2>1. w.base + 1 \in 0..2
    BY <1>2, <1>3
  <2> QED BY <2>1 DEF AddBase, Word
<1>4. w.base # 2 => Relocated(entry, w) \in Word
  BY <1>3 DEF Relocated, Word
<1>5. Resolved(entry, w) \in Word
  BY DEF Resolved, Word
<1> QED BY <1>1, <1>4, <1>5

\* Reading, allocating and the end of _so_load.
LEMMA LiveLoad ==
    ASSUME LiveInv, CheckInstalled \/ Open \/ Allocate \/ ReadSections
    PROVE  LiveInv'
<1> USE DEF LiveInv
<1>1. CASE CheckInstalled
  <2> USE <1>1 DEF CheckInstalled, image, memory, module, Go
  <2>1. TypeOK' /\ ~wrongFree'
    BY DEF TypeOK, Phases
  <2>2. LiveWhere'
    BY DEF LiveWhere, Loading
  <2>3. WholeOrNegative'
    BY DEF WholeOrNegative, GoingOn
  <2> QED BY <2>1, <2>2, <2>3, LiveOther
<1>2. CASE Open
  <2> USE <1>2 DEF Open, image, module, Go, Fail
  <2>1. TypeOK' /\ ~wrongFree'
    BY DEF TypeOK, Phases
  <2>2. LiveWhere'
    BY DEF LiveWhere, Loading
  <2>3. WholeOrNegative'
    BY DEF WholeOrNegative, GoingOn
  <2> QED BY <2>1, <2>2, <2>3, LiveOther
<1>3. CASE Allocate
  <2> USE <1>3 DEF Allocate, image, module, Go, Fail
  <2>1. TypeOK' /\ ~wrongFree'
    BY DEF TypeOK, Phases, Blocks
  <2>2. LiveWhere'
    <3>1. live = {} /\ placed = <<>> /\ Allocated' = {}
      BY DEF LiveWhere, Allocated
    <3>2. pc' = "segments" => live' = {So} /\ ~fd'
      BY <3>1
    <3>3. pc' = "freeso" => So \in live' /\ ~fd'
      BY <3>1
    <3>4. pc' = "returned" => live' = {} /\ res' = "negative"
      BY <3>1
    <3>5. i' = i /\ placed' = placed /\ Len(placed) = 0 /\ pc' \in {"segments", "freeso", "returned"}
      BY <3>1
    <3>6. i = 1
      BY DEF LiveWhere
    <3> QED BY <3>1, <3>2, <3>3, <3>4, <3>5, <3>6 DEF LiveWhere, Loading
  <2>3. WholeOrNegative'
    BY DEF WholeOrNegative, GoingOn
  <2> QED BY <2>1, <2>2, <2>3, LiveOther
<1>4. CASE ReadSections
  <2> USE <1>4 DEF ReadSections, image, Go, Fail
  <2>1. live = {So} \cup Allocated /\ i = Len(placed) + 1 /\ ~fd
    BY DEF LiveWhere
  <2>2. placed # <<>>
    <3>1. placed = <<>> => Len(placed) = 0
      OBVIOUS
    <3> QED BY <2>1, <3>1 DEF TypeOK
  <2>3. TypeOK'
    <3>1. \A r \in [Slots -> Entry] : [s \in Slots |-> AsInFile(r[s])] \in [Slots -> Word]
      BY DEF AsInFile, Word, Entry
    <3>2. rel' \in [Slots -> Entry] /\ value' \in [Slots -> Word]
      BY <3>1 DEF TypeOK
    <3>3. pc' \in Phases /\ res' \in {"negative", "zero", "positive"} /\ live' \subseteq Blocks
          /\ parsed' \in BOOLEAN
      BY DEF TypeOK, Phases
    <3> QED BY <3>2, <3>3 DEF TypeOK
  <2>4. CASE hasTables
    <3>1. pc' = "returned" /\ live' = Allocated /\ So \notin live'
      <4>1. So \notin Allocated
        BY DataApart DEF Allocated, DataBlocks, So, Arena, Text
      <4> QED BY <2>1, <2>4, <4>1
    <3>2. LiveWhere'
      BY <2>1, <2>4, <3>1 DEF LiveWhere, Loading
    <3>3. Whole'
      <4>1. Len(placed) = Len(segs)
        BY <2>1, <2>2, AllPlaced
      <4> QED BY <2>2, <2>4, <3>1, <4>1 DEF Whole, Allocated
    <3>4. WholeOrNegative'
      BY <3>1, <3>3 DEF WholeOrNegative, GoingOn
    <3> QED BY <2>3, <3>2, <3>4, LiveOther
  <2>5. CASE ~hasTables
    <3>1. pc' = "freedata" /\ res' = "negative" /\ live' = live /\ fd' = fd /\ placed' = placed
      BY <2>5
    <3>2. LiveWhere'
      BY <2>1, <2>2, <3>1 DEF LiveWhere, Loading, Allocated
    <3>3. WholeOrNegative'
      BY <3>1 DEF WholeOrNegative, GoingOn
    <3> QED BY <2>3, <3>2, <3>3, LiveOther
  <2> QED BY <2>4, <2>5
<1> QED BY <1>1, <1>2, <1>3, <1>4

\* The three labels.
LEMMA LiveErrors ==
    ASSUME LiveInv, ErrFreeData \/ ErrFreeText \/ ErrFreeSo
    PROVE  LiveInv'
<1> USE DEF LiveInv
<1>1. CASE ErrFreeData
  <2> USE <1>1 DEF ErrFreeData, image, module, Go, Free
  <2>1. live = {So} \cup Allocated /\ placed # <<>> /\ ~fd
    BY DEF LiveWhere
  <2>2. {Data(n) : n \in 0..NData - 1} = DataBlocks(Len(placed) - 1)
    BY <2>1, DataFreed
  <2>3. Allocated = {Arena, Text} \cup DataBlocks(Len(placed) - 1)
    BY <2>1 DEF Allocated
  <2>4. live' = {So, Arena, Text}
    BY <2>1, <2>2, DataFreed
  <2>5. ~wrongFree'
    BY <2>1, <2>2, <2>3
  <2>6. TypeOK'
    BY <2>4, <2>5 DEF TypeOK, Phases, Blocks
  <2>7. LiveWhere'
    BY <2>1, <2>4 DEF LiveWhere, Loading
  <2>8. WholeOrNegative'
    BY DEF WholeOrNegative, GoingOn, Regular
  <2> QED BY <2>5, <2>6, <2>7, <2>8, LiveOther
<1>2. CASE ErrFreeText
  <2> USE <1>2 DEF ErrFreeText, image, module, Go, Free
  <2>1. {So, Text} \subseteq live /\ ~fd
    BY DEF LiveWhere
  <2>2. ~wrongFree' /\ So \in live' /\ live' \subseteq live
    BY <2>1 DEF So, Text
  <2>3. TypeOK'
    BY <2>2 DEF TypeOK, Phases
  <2>4. LiveWhere'
    BY <2>1, <2>2 DEF LiveWhere, Loading
  <2>5. WholeOrNegative'
    BY DEF WholeOrNegative, GoingOn, Regular
  <2> QED BY <2>2, <2>3, <2>4, <2>5, LiveOther
<1>3. CASE ErrFreeSo
  <2> USE <1>3 DEF ErrFreeSo, image, module, Go, Free
  <2>1. So \in live /\ ~fd
    BY DEF LiveWhere
  <2>2. ~wrongFree' /\ So \notin live' /\ live' \subseteq live
    BY <2>1
  <2>3. TypeOK'
    BY <2>2 DEF TypeOK, Phases
  <2>4. LiveWhere'
    BY <2>1, <2>2 DEF LiveWhere, Loading
  <2>5. WholeOrNegative'
    BY DEF WholeOrNegative, GoingOn, Regular
  <2> QED BY <2>2, <2>3, <2>4, <2>5, LiveOther
<1> QED BY <1>1, <1>2, <1>3

\* What soloader_init_all does with a loaded image.
LEMMA LiveInit ==
    ASSUME LiveInv, WordsWhere,
           Loaded \/ Relocate \/ Resolve \/ Patch \/ Flush \/ Initialize \/ Ended \/ UNCHANGED vars
    PROVE  LiveInv'
<1> USE DEF LiveInv
<1>1. UNCHANGED <<segs, isElf, hasTables, i, res, fd, live, wrongFree, placed, parsed, rel>>
  BY DEF Loaded, Relocate, Resolve, Patch, Flush, Initialize, Ended, vars, image, memory, module
<1>2. stale' \in BOOLEAN
  <2>1. stale \in BOOLEAN /\ parsed \in BOOLEAN
    BY DEF TypeOK
  <2>2. stale' \in {stale, FALSE} \/ stale' = (stale \/ parsed)
    BY DEF Loaded, Relocate, Resolve, Patch, Flush, Initialize, Ended, vars, module
  <2>3. (stale \/ parsed) \in BOOLEAN
    BY <2>1, Zenon
  <2>4. stale' \in BOOLEAN
    BY <2>1, <2>2, <2>3, Zenon
  <2> QED BY <2>4
<1>3. value' \in [Slots -> Word]
  <2>1. value \in [Slots -> Word] /\ rel \in [Slots -> Entry]
    BY DEF TypeOK
  <2>2. CASE Relocate /\ pc' = "resolve" /\ parsed
    <3>1. value' = [s \in Slots |-> Relocated(rel[s], value[s])]
      BY <2>2 DEF Relocate, Go
    <3>2. ASSUME NEW s \in Slots PROVE Relocated(rel[s], value[s]) \in Word
      <4>1. rel[s] \in Entry /\ value[s] \in Word
        BY <2>1
      <4>2. value[s] = AsInFile(rel[s])
        BY <2>2 DEF Relocate, WordsWhere
      <4>3. value[s].base # 2
        BY <4>2 DEF AsInFile
      <4> QED BY <4>1, <4>3, WordTypes
    <3> QED BY <3>1, <3>2
  <2>3. CASE Resolve /\ parsed
    <3>1. value' = [s \in Slots |-> Resolved(rel[s], value[s])]
      BY <2>3 DEF Resolve
    <3>2. ASSUME NEW s \in Slots PROVE Resolved(rel[s], value[s]) \in Word
      BY <2>1, WordTypes
    <3> QED BY <3>1, <3>2
  <2>4. CASE value' = value
    BY <2>1, <2>4
  <2> QED BY <2>2, <2>3, <2>4
        DEF Loaded, Relocate, Resolve, Patch, Flush, Initialize, Ended, vars, module, Go
<1>4. \/ pc \in {"returned"} \cup {"relocate", "resolve", "patch", "flush", "constructors"}
           /\ pc' \in {"fatal", "relocate", "resolve", "patch", "flush", "constructors", "started"}
      \/ pc' = pc
  BY DEF Loaded, Relocate, Resolve, Patch, Flush, Initialize, Ended, vars, Go
<1>5. TypeOK'
  BY <1>1, <1>2, <1>3, <1>4 DEF TypeOK, Phases
<1>6. LiveWhere'
  BY <1>1, <1>4 DEF LiveWhere, Loading, Allocated
<1>7. WholeOrNegative'
  <2>1. Regular' = Regular /\ Whole' = Whole
    BY <1>1 DEF Regular, Whole
  <2>2. pc = "returned" /\ pc' # pc => Loaded
    BY <1>4 DEF Loaded, Relocate, Resolve, Patch, Flush, Initialize, Ended, vars
  <2>3. Regular /\ pc = "returned" /\ pc' # "fatal" /\ pc' # pc => Whole
    BY <2>2 DEF Loaded, Go, WholeOrNegative
  <2> QED BY <1>1, <1>4, <2>1, <2>3 DEF WholeOrNegative, GoingOn
<1> QED BY <1>1, <1>5, <1>6, <1>7, LiveOther DEF LiveWhere

LEMMA LiveKept ==
    ASSUME LiveInv, WordsWhere, [Next]_vars
    PROVE  LiveInv'
BY LiveText, LiveData, LiveLoad, LiveErrors, LiveInit DEF Next

LEMMA LiveStarts == Init => LiveInv
<1> SUFFICES ASSUME Init PROVE LiveInv
  OBVIOUS
<1>1. segs \in Seq(Segment) /\ segs # <<>>
  BY ImagesAssumption DEF Init
<1>2. Len(segs) \in Nat /\ Len(segs) >= 1
  BY <1>1
<1>3. TypeOK
  <2>1. NoEntry \in Entry /\ AsInFile(NoEntry) \in Word
    BY DEF NoEntry, Entry, Types, Symbols, AsInFile, Word
  <2>2. rel \in [Slots -> Entry] /\ value \in [Slots -> Word]
    BY <2>1 DEF Init
  <2>3. placed = <<>> /\ live = {}
    BY DEF Init
  <2>4. /\ placed \in Seq([kind : {"text", "data"}, base : Nat, size : Nat, at : Nat, memsz : Nat])
        /\ Len(placed) = 0 /\ live \subseteq Blocks
    BY <2>3
  <2>5. i \in 1..Len(segs) + 1 /\ Len(placed) =< Len(segs) /\ pc \in Phases
    BY <1>2, <2>4 DEF Init, Phases
  <2>6. /\ isElf \in BOOLEAN /\ hasTables \in BOOLEAN /\ res = "zero" /\ fd \in BOOLEAN
        /\ wrongFree \in BOOLEAN /\ parsed \in BOOLEAN /\ stale \in BOOLEAN
    BY DEF Init
  <2> QED BY <1>1, <2>2, <2>4, <2>5, <2>6 DEF TypeOK
<1>4. TextThenData /\ ~wrongFree
  BY DEF Init, TextThenData
<1>5. LiveWhere
  BY DEF Init, LiveWhere, Loading
<1>6. WholeOrNegative
  BY DEF Init, WholeOrNegative, GoingOn
<1> QED BY <1>2, <1>3, <1>4, <1>5, <1>6 DEF LiveInv

-----------------------------------------------------------------------------
(* The words.                                                              *)

LEMMA WordsKept ==
    ASSUME LiveInv, WordsWhere, [Next]_vars
    PROVE  WordsWhere'
<1> USE DEF WordsWhere
<1>1. CASE ReadSections
  <2>1. pc' \in {"returned", "freedata"} /\ (parsed' => pc' = "returned")
    BY <1>1 DEF ReadSections, Fail, Go, Loading
  <2>2. parsed' => \A s \in Slots : value'[s] = AsInFile(rel'[s])
    BY <1>1 DEF ReadSections, Fail, Go, Loading
  <2> QED BY <2>1, <2>2 DEF Loading
<1>2. CASE Relocate
  <2>1. pc = "relocate" /\ rel' = rel /\ parsed' = parsed /\ pc' \in {"resolve", "fatal"}
    BY <1>2 DEF Relocate, Go, module
  <2>2. parsed /\ pc' = "resolve" =>
           \A s \in Slots : /\ rel[s].type # "other"
                            /\ value'[s] = Relocated(rel[s], AsInFile(rel[s]))
    BY <1>2, <2>1 DEF Relocate, Go
  <2> QED BY <2>1, <2>2 DEF Loading
<1>3. CASE Resolve
  <2>1. pc = "resolve" /\ rel' = rel /\ parsed' = parsed /\ pc' = "patch"
    BY <1>3 DEF Resolve, Go
  <2>2. parsed => \A s \in Slots : value'[s] = Resolved(rel[s], Relocated(rel[s], AsInFile(rel[s])))
    BY <1>3, <2>1 DEF Resolve
  <2> QED BY <2>1, <2>2 DEF Loading
<1>4. CASE Patch \/ Flush \/ Initialize
  <2>1. /\ pc \in {"patch", "flush", "constructors"}
        /\ pc' \in {"flush", "constructors", "started"}
        /\ rel' = rel /\ parsed' = parsed /\ value' = value
        /\ pc' \in {"constructors", "started"} => ~stale'
    BY <1>4 DEF Patch, Flush, Initialize, Go, module
  <2> QED BY <2>1 DEF Loading
<1>5. CASE \/ CheckInstalled \/ Open \/ Allocate \/ LoadText \/ LoadData
           \/ ErrFreeData \/ ErrFreeText \/ ErrFreeSo
  <2>1. Loading /\ parsed' = parsed /\ pc' \notin {"constructors", "started"}
    BY <1>5 DEF CheckInstalled, Open, Allocate, LoadText, LoadData, LoadSegment, Placed,
         ErrFreeData, ErrFreeText, ErrFreeSo, Free, Fail, Go, Loading, module
  <2> QED BY <2>1
<1>6. CASE Loaded \/ Ended \/ UNCHANGED vars
  BY <1>6 DEF Loaded, Ended, vars, Go, module, Loading
<1> QED BY <1>1, <1>2, <1>3, <1>4, <1>5, <1>6 DEF Next

\* After the two passes every word is as the ARM ELF specification has it.
LEMMA BothPasses ==
    ASSUME NEW entry \in Entry, entry.type # "other",
           ~(entry.type = "ABS32" /\ entry.symbol = "imported" /\ entry.addend)
    PROVE  Resolved(entry, Relocated(entry, AsInFile(entry))) = Expected(entry)
<1>1. /\ entry.type \in {"ABS32", "RELATIVE", "GLOB_DAT", "JUMP_SLOT"}
      /\ entry.symbol \in {"own", "imported", "unknown"} /\ entry.addend \in BOOLEAN
  BY DEF Entry, Types, Symbols
<1> DEFINE w == AsInFile(entry)
<1>2. w = [base |-> 0, what |-> "file", addend |-> entry.addend]
  BY DEF AsInFile
<1>3. ASSUME NEW what \in {"file", "symbol"}
      PROVE  AddBase(w, what) = [base |-> 1, what |-> what, addend |-> entry.addend]
  <2> DEFINE r == AddBase(w, what)
  <2>1. w \in Word /\ w.base = 0 /\ w.addend = entry.addend
    BY <1>1, <1>2 DEF Word
  <2> HIDE DEF w
  <2>2. r \in Word
    <3>1. w.base + 1 \in 0..2
      BY <2>1
    <3> QED BY <2>1, <3>1 DEF AddBase, Word
  <2>3. r.base = w.base + 1
    BY <2>1 DEF AddBase, Word
  <2>4. r.what = what
    BY <2>1 DEF AddBase, Word
  <2>5. r.addend = w.addend
    BY <2>1 DEF AddBase, Word
  <2> HIDE DEF r
  <2>6. r = [base |-> 1, what |-> what, addend |-> entry.addend]
    BY <2>1, <2>2, <2>3, <2>4, <2>5 DEF Word
  <2> QED BY <2>6 DEF r
<1>4. CASE entry.type = "RELATIVE"
  BY <1>3, <1>4 DEF Resolved, Relocated, Expected
<1>5. CASE entry.type = "ABS32" /\ entry.symbol = "own"
  <2>1. (entry.type = "ABS32" /\ entry.addend) = entry.addend
    BY <1>1, <1>5, Zenon
  <2>2. Relocated(entry, w) = [base |-> 1, what |-> "symbol", addend |-> entry.addend]
    BY <1>3, <1>5 DEF Relocated
  <2>3. Resolved(entry, Relocated(entry, w)) = Relocated(entry, w)
    BY <1>5 DEF Resolved
  <2>4. Expected(entry) = [base |-> 1, what |-> "symbol", addend |-> entry.addend]
    BY <1>5, <2>1 DEF Expected
  <2> QED BY <2>2, <2>3, <2>4
<1>6. CASE entry.type \in {"GLOB_DAT", "JUMP_SLOT"} /\ entry.symbol = "own"
  BY <1>6 DEF Resolved, Relocated, Expected
<1>7. CASE entry.type # "RELATIVE" /\ entry.symbol = "imported"
  BY <1>1, <1>7 DEF Resolved, Relocated, Expected
<1>8. CASE entry.type # "RELATIVE" /\ entry.symbol = "unknown"
  BY <1>1, <1>8 DEF Resolved, Relocated, Expected
<1> QED BY <1>1, <1>4, <1>5, <1>6, <1>7, <1>8

-----------------------------------------------------------------------------
(* The layout.                                                             *)

\* A data segment of a regular image ends on the page it should: the block
\* before it ends on a page, at or under the segment.
LEMMA DataEnds ==
    ASSUME TypeOK, Layout, Regular, PagesApart, TextThenData, placed # <<>>,
           i =< Len(segs), i = Len(placed) + 1, DataSize(segs[i]) > 0
    PROVE  /\ TextBase = LoadAddress
           /\ DataAddr + DataSize(segs[i]) = LoadAddress + AlignUp(segs[i].vaddr + segs[i].memsz)
<1> DEFINE k == Len(placed)
           last == segs[k].vaddr + segs[k].memsz
           n == segs[i].vaddr + segs[i].memsz
<1>1. k \in Nat /\ k >= 1 /\ Len(segs) \in Nat /\ i \in 2..Len(segs) /\ i - 1 = k /\ 1 \in 1..Len(placed) /\ k \in 1..Len(placed)
  BY DEF TypeOK
<1>2. \A m \in {1, k, i} : segs[m] \in Segment
  <2>1. 1 \in 1..Len(segs) /\ k \in 1..Len(segs) /\ i \in 1..Len(segs)
    BY <1>1
  <2> QED BY <2>1 DEF TypeOK
<1>3. last \in Nat /\ n \in Nat /\ segs[1].vaddr = 0 /\ segs[i].vaddr >= AlignUp(last)
      /\ segs[i].vaddr \in Nat /\ segs[i].memsz \in Nat
  BY SMTT(30), <1>1, <1>2 DEF PagesApart, Segment
<1>4. TextBase = placed[1].at /\ DataAddr = End(placed[k])
  BY Placement
<1>5. LoadAddress \in Nat
  BY SizesAssumption
<1>6. TextBase = LoadAddress
  BY <1>1, <1>3, <1>4, <1>5 DEF Layout
<1>7. DataAddr = LoadAddress + AlignUp(last)
  BY <1>1, <1>4 DEF Layout
<1>8. segs[i].memsz + segs[i].vaddr = n
  BY <1>3
<1> HIDE DEF last, n, k
<1>9. AlignUp(last) \in Nat /\ AlignUp(n) \in Nat
  BY <1>3, AlignUpType
<1>10. n >= AlignUp(last)
  BY <1>3, <1>8, <1>9
<1>11. DataAddr - TextBase = AlignUp(last)
  BY <1>5, <1>6, <1>7, <1>9
<1>12. DataSize(segs[i]) = AlignUp(n - AlignUp(last))
  <2>1. DataSize(segs[i]) = IF n > AlignUp(last) THEN AlignUp(n - AlignUp(last)) ELSE 0
    <3>1. DataSize(segs[i]) =
             IF segs[i].vaddr + segs[i].memsz > AlignUp(last)
             THEN AlignUp(segs[i].memsz + segs[i].vaddr - AlignUp(last)) ELSE 0
      BY <1>11 DEF DataSize
    <3>2. segs[i].vaddr + segs[i].memsz = n
      BY DEF n
    <3>3. segs[i].memsz + segs[i].vaddr - AlignUp(last) = n - AlignUp(last)
      BY <1>3, <1>8, <1>9
    <3> QED BY <3>1, <3>2, <3>3
  <2> QED BY <2>1
<1>13. DataSize(segs[i]) = AlignUp(n) - AlignUp(last)
  BY <1>3, <1>10, <1>12, AlignFromPage
<1> QED BY <1>5, <1>6, <1>7, <1>9, <1>13 DEF n

LEMMA EndType ==
    ASSUME NEW block \in PlacedSegment
    PROVE  End(block) \in Nat
<1>1. block.base \in Nat /\ block.size \in Nat
  BY DEF PlacedSegment
<1> QED BY <1>1 DEF End

LEMMA Below ==
    ASSUME NEW k \in Nat, NEW m \in 1..k, m # k
    PROVE  k \in 1..k /\ m \in 1..k - 1
OBVIOUS

\* What Layout says of a segment survives the placing of another.
LEMMA LayoutAppended ==
    ASSUME TypeOK, Layout, Regular, PagesApart, UNCHANGED segs,
           i =< Len(segs), i = Len(placed) + 1,
           NEW base \in Nat, NEW size \in Nat, NEW at \in Nat,
           Placed(base, size, at),
           at = LoadAddress + segs[i].vaddr,
           base = IF i = 1 THEN LoadAddress ELSE End(placed[i - 1]),
           base + size = LoadAddress + AlignUp(segs[i].vaddr + segs[i].memsz)
    PROVE  Layout'
<1>1. /\ placed' \in Seq(PlacedSegment) /\ Len(placed') = i
      /\ \A n \in 1..Len(placed) : placed'[n] = placed[n]
      /\ placed'[i] = [kind |-> segs[i].kind, base |-> base, size |-> size,
                       at |-> at, memsz |-> segs[i].memsz]
  <2>1. Len(placed') = i
    BY Appended DEF TypeOK
  <2> QED BY <2>1, Appended
<1>2. i \in Nat /\ i >= 1 /\ Len(placed) = i - 1 /\ placed \in Seq(PlacedSegment)
  BY DEF TypeOK, PlacedSegment
<1>3. \A n \in 1..i - 1 : placed'[n] = placed[n] /\ End(placed'[n]) = End(placed[n]) /\ placed[n] \in PlacedSegment
  BY <1>1, <1>2 DEF End
<1>4. End(placed'[i]) = base + size /\ placed'[i].base = base /\ placed'[i].at = at
      /\ placed'[i].memsz = segs[i].memsz
  BY <1>1 DEF End
<1>5. \A n \in 1..Len(placed) :
        /\ placed[n].at = LoadAddress + segs[n].vaddr
        /\ placed[n].memsz = segs[n].memsz
        /\ placed[n].base = IF n = 1 THEN LoadAddress ELSE End(placed[n - 1])
        /\ End(placed[n]) = LoadAddress + AlignUp(segs[n].vaddr + segs[n].memsz)
        /\ \A m \in 1..n - 1 : End(placed[m]) =< placed[n].base
  BY DEF Layout
<1>6. ASSUME NEW m \in 1..i - 1 PROVE End(placed[m]) =< base
  <2>1. base = End(placed[i - 1])
    BY <1>2
  <2>2. CASE m = i - 1
    <3>1. End(placed[m]) \in Nat
      BY SMTT(30), <1>3 DEF End, PlacedSegment
    <3> QED BY <2>1, <2>2, <3>1
  <2>3. CASE m # i - 1
    <3>1. i - 1 \in 1..Len(placed) /\ m \in 1..(i - 1) - 1 /\ m \in 1..i - 1
      <4> DEFINE k == i - 1
      <4>1. k \in Nat
        BY <1>2
      <4>2. m \in 1..k
        BY <1>6
      <4> HIDE DEF k
      <4>3. k \in 1..k /\ m \in 1..k - 1
        BY <2>3, <4>1, <4>2, Below DEF k
      <4> QED BY <1>2, <4>2, <4>3 DEF k
    <3>2. End(placed[m]) =< placed[i - 1].base
      BY <1>5, <3>1
    <3>3. placed[i - 1] \in PlacedSegment /\ placed[m] \in PlacedSegment
      BY <1>2, <1>3, <3>1
    <3>4. End(placed[m]) \in Nat /\ placed[i - 1].base \in Nat /\ placed[i - 1].size \in Nat
      BY <3>3, EndType DEF PlacedSegment
    <3>5. End(placed[i - 1]) = placed[i - 1].base + placed[i - 1].size
      BY DEF End
    <3> QED BY SMTT(30), <2>1, <3>2, <3>4, <3>5
  <2> QED BY <2>2, <2>3
<1>7. ASSUME NEW n \in 1..i
      PROVE  /\ placed'[n].at = LoadAddress + segs[n].vaddr
             /\ placed'[n].memsz = segs[n].memsz
             /\ placed'[n].base = IF n = 1 THEN LoadAddress ELSE End(placed'[n - 1])
             /\ End(placed'[n]) = LoadAddress + AlignUp(segs[n].vaddr + segs[n].memsz)
             /\ \A m \in 1..n - 1 : End(placed'[m]) =< placed'[n].base
  <2>1. CASE n = i
    <3>1. i # 1 => End(placed'[i - 1]) = End(placed[i - 1])
      BY <1>2, <1>3
    <3>2. \A m \in 1..i - 1 : End(placed'[m]) = End(placed[m])
      BY <1>3
    <3> QED BY <1>4, <1>6, <2>1, <3>1, <3>2
  <2>2. CASE n # i
    <3>1. n \in 1..i - 1 /\ n \in 1..Len(placed)
      BY <1>2, <2>2
    <3>2. n # 1 => n - 1 \in 1..i - 1
      BY <1>2, <3>1
    <3>3. \A m \in 1..n - 1 : m \in 1..i - 1
      BY <1>2, <3>1
    <3> QED BY <1>3, <1>5, <3>1, <3>2, <3>3
  <2> QED BY <2>1, <2>2
<1>8. AlignUp(0)' = AlignUp(0) /\ Regular' = Regular
  BY DEF AlignUp, Regular
<1>9. \A n \in 1..Len(placed') :
        /\ placed'[n].at = LoadAddress + segs'[n].vaddr
        /\ placed'[n].memsz = segs'[n].memsz
        /\ placed'[n].base = IF n = 1 THEN LoadAddress ELSE End(placed'[n - 1])
        /\ End(placed'[n]) = LoadAddress + AlignUp(segs'[n].vaddr + segs'[n].memsz)
        /\ \A m \in 1..n - 1 : End(placed'[m]) =< placed'[n].base
  BY <1>1, <1>7
<1> QED BY <1>9 DEF Layout, AlignUp

LEMMA LayoutKept ==
    ASSUME LiveInv, Layout, [Next]_vars
    PROVE  Layout'
<1> USE DEF LiveInv
<1>1. UNCHANGED segs
  BY DEF Next, CheckInstalled, Open, Allocate, LoadText, LoadData, LoadSegment, ReadSections,
         ErrFreeData, ErrFreeText, ErrFreeSo, Free, Loaded, Relocate, Resolve, Patch, Flush,
         Initialize, Ended, vars, image
<1>2. CASE UNCHANGED placed
  BY <1>1, <1>2 DEF Layout, Regular, PagesApart, End, AlignUp
<1>3. CASE ~UNCHANGED placed
  <2>1. \/ LoadText /\ Placed(LoadAddress, AlignUp(segs[i].memsz), LoadAddress + segs[i].vaddr)
               /\ {Arena, Text} \cap live = {}
        \/ /\ LoadData /\ Placed(DataAddr, DataSize(segs[i]), TextBase + segs[i].vaddr)
           /\ DataAddr # 0 /\ DataSize(segs[i]) > 0
    BY <1>3 DEF Next, CheckInstalled, Open, Allocate, LoadText, LoadData, ReadSections,
         ErrFreeData, ErrFreeText, ErrFreeSo, Free, Loaded, Relocate, Resolve, Patch, Flush,
         Initialize, Ended, vars, module
  <2>2. pc = "segments" /\ i =< Len(segs)
    BY <2>1 DEF LoadText, LoadData, LoadSegment
  <2>3. live = {So} \cup Allocated /\ i = Len(placed) + 1
    BY <2>2 DEF LiveWhere
  <2>4. i \in 1..Len(segs) /\ segs[i] \in Segment
    BY <2>2 DEF TypeOK
  <2>5. segs[i].vaddr \in Nat /\ segs[i].memsz \in Nat /\ LoadAddress \in Nat
    BY <2>4, SizesAssumption DEF Segment
  <2>6. Regular' = Regular /\ PagesApart' = PagesApart
    BY <1>1 DEF Regular, PagesApart, AlignUp
  <2>7. SUFFICES ASSUME Regular, PagesApart PROVE Layout'
    BY <2>6 DEF Layout
  <2>8. CASE LoadText /\ Placed(LoadAddress, AlignUp(segs[i].memsz), LoadAddress + segs[i].vaddr)
               /\ {Arena, Text} \cap live = {}
    <3>1. i = 1
      BY <2>3, <2>8 DEF Allocated
    <3>2. segs[i].vaddr = 0 /\ segs[i].vaddr + segs[i].memsz = segs[i].memsz
      BY <2>5, <2>7, <3>1 DEF PagesApart
    <3> DEFINE size == AlignUp(segs[i].memsz)
               at == LoadAddress + segs[i].vaddr
    <3>3. size \in Nat /\ at \in Nat /\ Placed(LoadAddress, size, at) /\ at = LoadAddress + segs[i].vaddr
          /\ LoadAddress + size = LoadAddress + AlignUp(segs[i].vaddr + segs[i].memsz)
      <4>1. AlignUp(segs[i].memsz) \in Nat
        BY <2>5, AlignUpType
      <4> QED BY <2>5, <2>8, <3>2, <4>1
    <3> HIDE DEF size, at
    <3> QED BY <1>1, <2>2, <2>3, <2>5, <2>7, <3>1, <3>3, LayoutAppended
  <2>9. CASE /\ Placed(DataAddr, DataSize(segs[i]), TextBase + segs[i].vaddr)
             /\ DataAddr # 0 /\ DataSize(segs[i]) > 0
    <3>1. placed # <<>> /\ DataAddr = End(placed[Len(placed)])
      BY <2>9, Placement
    <3>2. DataSize(segs[i]) \in Nat
      BY <2>4, <3>1, DataSizeType
    <3>3. /\ TextBase = LoadAddress
          /\ DataAddr + DataSize(segs[i]) = LoadAddress + AlignUp(segs[i].vaddr + segs[i].memsz)
      BY <2>2, <2>3, <2>7, <2>9, <3>1, DataEnds
    <3>4. placed \in Seq(PlacedSegment) /\ Len(placed) \in Nat /\ Len(placed) >= 1
      BY <3>1 DEF TypeOK, PlacedSegment
    <3>5. DataAddr \in Nat /\ i # 1 /\ DataAddr = End(placed[i - 1])
      <4>1. placed[Len(placed)] \in PlacedSegment
        BY <3>4
      <4>2. placed[Len(placed)].base \in Nat /\ placed[Len(placed)].size \in Nat
        BY <4>1 DEF PlacedSegment
      <4> QED BY <2>3, <3>1, <3>4, <4>2 DEF End
    <3> DEFINE base == DataAddr
               size == DataSize(segs[i])
               at == TextBase + segs[i].vaddr
    <3>6. /\ size \in Nat /\ at \in Nat /\ base \in Nat /\ Placed(base, size, at)
          /\ at = LoadAddress + segs[i].vaddr
          /\ base = End(placed[i - 1])
          /\ base + size = LoadAddress + AlignUp(segs[i].vaddr + segs[i].memsz)
      BY SMTT(30), <2>5, <2>9, <3>2, <3>3, <3>5
    <3> HIDE DEF size, at, base
    <3> QED BY <1>1, <2>2, <2>3, <2>7, <3>5, <3>6, LayoutAppended
  <2> QED BY <2>1, <2>8, <2>9
<1> QED BY <1>2, <1>3

-----------------------------------------------------------------------------
(* The theorems about the loader.                                          *)

LEMMA LoadStarts == Init => LoadInv
<1> SUFFICES ASSUME Init PROVE LoadInv
  OBVIOUS
<1>1. Layout
  BY DEF Init, Layout
<1>2. WordsWhere
  BY DEF Init, WordsWhere, Loading
<1> QED BY <1>1, <1>2, LiveStarts DEF LoadInv

\* The blocks, the layout and the words at every step of the loader, for any
\* images, page size, load address and bound on the data segments.
THEOREM LoadHolds == Spec => []LoadInv
<1>1. Init => LoadInv
  BY LoadStarts
<1>2. LoadInv /\ [Next]_vars => LoadInv'
  BY LiveKept, WordsKept, LayoutKept DEF LoadInv
<1> QED BY <1>1, <1>2, PTL DEF Spec

\* The segments fit when each ends on the page where the next may begin.
LEMMA LayoutFits ==
    ASSUME LiveInv, Layout
    PROVE  SegmentsFit
<1> SUFFICES ASSUME Regular, PagesApart, NEW n \in 1..Len(placed)
             PROVE  /\ placed[n].at = LoadAddress + segs[n].vaddr
                    /\ placed[n].base =< placed[n].at
                    /\ placed[n].at + placed[n].memsz =< placed[n].base + placed[n].size
                    /\ \A m \in 1..n - 1 : placed[m].base + placed[m].size =< placed[n].base
  BY DEF SegmentsFit
<1>1. /\ placed[n].at = LoadAddress + segs[n].vaddr
      /\ placed[n].memsz = segs[n].memsz
      /\ placed[n].base = IF n = 1 THEN LoadAddress ELSE End(placed[n - 1])
      /\ End(placed[n]) = LoadAddress + AlignUp(segs[n].vaddr + segs[n].memsz)
      /\ \A m \in 1..n - 1 : End(placed[m]) =< placed[n].base
  BY DEF Layout
<1>2. Len(placed) \in Nat /\ Len(placed) =< Len(segs) /\ Len(segs) \in Nat
  BY SMTT(30) DEF LiveInv, TypeOK
<1>3. n \in Nat /\ n >= 1 /\ n \in 1..Len(segs)
  BY <1>2
<1>4. segs[n] \in Segment
  BY <1>3 DEF LiveInv, TypeOK
<1> DEFINE end == segs[n].vaddr + segs[n].memsz
<1>5. segs[n].vaddr \in Nat /\ segs[n].memsz \in Nat /\ end \in Nat /\ LoadAddress \in Nat
  BY <1>4, SizesAssumption DEF Segment
<1>6. AlignUp(end) \in Nat /\ AlignUp(end) >= end
  BY <1>5, AlignUpType
<1>7. placed[n].base =< placed[n].at
  <2>1. CASE n = 1
    <3>1. segs[n].vaddr = 0
      BY <2>1 DEF PagesApart
    <3> QED BY <1>1, <1>5, <2>1, <3>1
  <2>2. CASE n # 1
    <3>1. n \in 2..Len(segs) /\ n - 1 \in 1..Len(placed) /\ n - 1 \in 1..Len(segs)
      BY <1>2, <1>3, <2>2
    <3> DEFINE last == segs[n - 1].vaddr + segs[n - 1].memsz
    <3>2. segs[n - 1] \in Segment
      BY <3>1 DEF LiveInv, TypeOK
    <3>3. last \in Nat
      BY <3>2 DEF Segment
    <3>4. segs[n].vaddr >= AlignUp(last)
      BY <3>1 DEF PagesApart
    <3>5. placed[n].base = LoadAddress + AlignUp(last)
      BY <1>1, <2>2, <3>1 DEF Layout
    <3> HIDE DEF last
    <3>6. AlignUp(last) \in Nat
      BY <3>3, AlignUpType
    <3> QED BY <1>1, <1>5, <3>4, <3>5, <3>6
  <2> QED BY <2>1, <2>2
<1>8. placed[n].at + placed[n].memsz =< placed[n].base + placed[n].size
  <2>1. placed[n].at + placed[n].memsz = LoadAddress + end
    BY <1>1, <1>5
  <2>2. placed[n].base + placed[n].size = LoadAddress + AlignUp(end)
    BY <1>1 DEF End
  <2> HIDE DEF end
  <2> QED BY <1>5, <1>6, <2>1, <2>2
<1>9. \A m \in 1..n - 1 : placed[m].base + placed[m].size =< placed[n].base
  BY <1>1 DEF End
<1> QED BY <1>1, <1>7, <1>8, <1>9

\* Each block is freed as often as it was allocated, or is one the loader keeps.
THEOREM LoaderFreesBlocks == Spec => []BlocksFreed
<1>1. LoadInv => BlocksFreed
  BY DEF LoadInv, LiveInv, LiveWhere, BlocksFreed, FreesOnlyLive, CopyReleased, GoingOn, Loading
<1> QED BY <1>1, LoadHolds, PTL

\* A regular image the program goes on with is in memory, all of it and nothing
\* beside it, and every segment is at its place.
THEOREM LoaderPlacesImage == Spec => []ImageInPlace
<1>1. LoadInv => ImageInPlace
  <2> SUFFICES ASSUME LoadInv PROVE ImageInPlace
    OBVIOUS
  <2>1. SegmentsFit
    BY LayoutFits DEF LoadInv
  <2>2. ASSUME GoingOn, Regular
        PROVE  /\ parsed /\ res = "zero"
               /\ live = {Arena, Text} \cup {Data(n) : n \in 0..Len(segs) - 2}
    <3>1. Whole
      BY <2>2 DEF LoadInv, LiveInv, WholeOrNegative
    <3>2. 0..(Len(segs) - 1) - 1 = 0..Len(segs) - 2
      BY DEF LoadInv, LiveInv, TypeOK
    <3> QED BY <3>1, <3>2 DEF Whole, DataBlocks
  <2> QED BY <2>1, <2>2 DEF ImageInPlace, GoesOnLoaded
<1> QED BY <1>1, LoadHolds, PTL

\* The image's constructors run on words that have their values, each once, and
\* on code that has been flushed.
THEOREM LoaderReadiesWords == Spec => []ConstructorsReady
<1>1. LoadInv => ConstructorsReady
  <2> SUFFICES ASSUME LoadInv, pc \in {"constructors", "started"}, parsed
               PROVE  /\ ~stale
                      /\ \A s \in Slots :
                           ~(rel[s].type = "ABS32" /\ rel[s].symbol = "imported" /\ rel[s].addend)
                               => value[s] = Expected(rel[s])
    BY DEF ConstructorsReady
  <2>1. ~stale
    BY DEF LoadInv, WordsWhere
  <2>2. ASSUME NEW s \in Slots,
               ~(rel[s].type = "ABS32" /\ rel[s].symbol = "imported" /\ rel[s].addend)
        PROVE  value[s] = Expected(rel[s])
    <3>1. rel[s] \in Entry
      BY DEF LoadInv, LiveInv, TypeOK
    <3>2. /\ rel[s].type # "other"
          /\ value[s] = Resolved(rel[s], Relocated(rel[s], AsInFile(rel[s])))
      BY DEF LoadInv, WordsWhere
    <3> QED BY <2>2, <3>1, <3>2, BothPasses
  <2> QED BY <2>1, <2>2
<1> QED BY <1>1, LoadHolds, PTL

-----------------------------------------------------------------------------
(* main.                                                                   *)

\* Nothing main does until the frame loop changes what the loader left: its
\* steps are none of the loader's.
THEOREM StartKeepsImage == StartSpec => Spec
<1>1. StartInit => Init
  BY DEF StartInit
<1>2. [StartNext]_startVars => [Next]_vars
  <2>1. MainNext => UNCHANGED vars
    BY DEF MainNext, MainBegins, PatchChecks, FmodInit, SaveFile, SavesDone, RegisterDigest,
           HookDigestByName, InitSsl, StartGame
  <2> QED BY <2>1 DEF StartNext, LoadNext, startVars
<1> QED BY <1>1, <1>2, PTL DEF StartSpec, Spec

\* The digests and the checks, and that a check is a NOP once main has patched it.
LEMMA StartKept ==
    ASSUME StartInv, [StartNext]_startVars
    PROVE  StartInv'
<1> USE DEF StartInv, TlsStarts
<1>1. CASE MainBegins
  <2> USE <1>1 DEF MainBegins
  <2>1. MainTypeOK'
    BY DEF MainTypeOK, Places
  <2> QED BY <2>1 DEF DigestsPaired, DiesOnlyOfStaleCode
<1>2. CASE PatchChecks
  <2> USE <1>2 DEF PatchChecks, game, saves
  <2>1. check' = [d \in CheckedNames |-> "nop"] /\ mpc' = "net"
    OBVIOUS
  <2>2. MainTypeOK'
    BY DEF MainTypeOK, Places
  <2> QED BY <2>1, <2>2 DEF DigestsPaired, DiesOnlyOfStaleCode
<1>3. CASE FmodInit \/ StartGame
  <2> USE <1>3 DEF FmodInit, StartGame, game, saves, tls
  <2>1. MainTypeOK'
    BY DEF MainTypeOK, Places
  <2> QED BY <2>1 DEF DigestsPaired, DiesOnlyOfStaleCode
<1>4. CASE SaveFile
  <2> USE <1>4 DEF SaveFile, game, saves, tls
  <2>1. turn' = turn + 1 /\ turn \in Nat /\ turn >= 1 /\ turn =< Len(SaveFiles)
    BY DEF MainTypeOK
  <2>2. Len(SaveFiles) \in Nat /\ Len(Digests) \in Nat
    BY DigestsAssumption
  <2>3. turn' \in 1..Len(SaveFiles) + Len(Digests) + 1
    BY <2>1, <2>2
  <2>4. card' \in [ToSet(SaveFiles) -> {"absent", "empty", "saved"}]
    <3>1. card' = card \/ card' = [card EXCEPT ![SaveFiles[turn]] = "empty"]
      OBVIOUS
    <3> QED BY <3>1 DEF MainTypeOK
  <2>5. unread' \subseteq ToSet(SaveFiles) /\ unmade' \subseteq ToSet(SaveFiles)
    <3>1. SaveFiles[turn] \in ToSet(SaveFiles)
      BY <2>1, DigestsAssumption
    <3> QED BY <3>1 DEF MainTypeOK
  <2>6. MainTypeOK'
    BY <2>3, <2>4, <2>5 DEF MainTypeOK
  <2> QED BY <2>6 DEF DigestsPaired, DiesOnlyOfStaleCode
<1>5. CASE SavesDone
  <2> USE <1>5 DEF SavesDone, game, saves, tls
  <2>1. Len(SaveFiles) \in Nat /\ Len(Digests) \in Nat
    BY DigestsAssumption
  <2>2. turn' \in 1..Len(SaveFiles) + Len(Digests) + 1
    BY <2>1
  <2>3. MainTypeOK'
    BY <2>2 DEF MainTypeOK, Places
  <2> QED BY <2>3 DEF DigestsPaired, DiesOnlyOfStaleCode
<1>6. CASE RegisterDigest
  <2> USE <1>6 DEF RegisterDigest, game, saves
  <2>1. turn' = turn + 1 /\ turn \in Nat /\ turn >= 1 /\ turn =< Len(Digests)
    BY DEF MainTypeOK
  <2>2. Len(SaveFiles) \in Nat /\ Len(Digests) \in Nat /\ MaxDigests \in Nat
    BY DigestsAssumption
  <2>3. turn' \in 1..Len(SaveFiles) + Len(Digests) + 1
    BY <2>1, <2>2
  <2>4. Digests[turn] \in ToSet(Digests)
    BY <2>1, <2>2, DigestsAssumption
  <2> DEFINE d == [name |-> Digests[turn], md |-> Digests[turn]]
  <2>5. d \in [name : ToSet(Digests), md : ToSet(Digests)] /\ d.name = d.md
    BY <2>4
  <2>6. known' = known \/ (Len(known) < MaxDigests /\ known' = Append(known, d))
    OBVIOUS
  <2> HIDE DEF d
  <2>7. known \in Seq([name : ToSet(Digests), md : ToSet(Digests)])
    BY DEF MainTypeOK
  <2>8. known' \in Seq([name : ToSet(Digests), md : ToSet(Digests)])
    <3> DEFINE S == [name : ToSet(Digests), md : ToSet(Digests)]
    <3>1. d \in S /\ known \in Seq(S)
      BY <2>5, <2>7
    <3> HIDE DEF S
    <3>2. known' \in Seq(S)
      BY <2>6, <3>1
    <3> QED BY <3>2 DEF S
  <2>9. DigestsPaired'
    <3>1. CASE known' = known
      BY <3>1 DEF DigestsPaired
    <3>2. CASE Len(known) < MaxDigests /\ known' = Append(known, d)
      <4>1. Len(known') = Len(known) + 1 /\ Len(known) \in Nat
        BY <2>5, <2>7, <3>2
      <4>2. \A k \in 1..Len(known) + 1 :
               known'[k] = IF k = Len(known) + 1 THEN d ELSE known[k]
        BY <2>5, <2>7, <3>2
      <4>3. \A k \in 1..Len(known) + 1 : k \in 1..Len(known) \/ k = Len(known) + 1
        BY <4>1
      <4>4. Len(known') =< MaxDigests
        BY <2>2, <3>2, <4>1
      <4>5. \A k \in 1..Len(known') : known'[k].name = known'[k].md
        BY <2>5, <4>1, <4>2, <4>3 DEF DigestsPaired
      <4> QED BY <4>4, <4>5 DEF DigestsPaired
    <3> QED BY <2>6, <3>1, <3>2
  <2>10. MainTypeOK'
    BY <2>3, <2>8 DEF MainTypeOK
  <2> QED BY <2>9, <2>10 DEF DiesOnlyOfStaleCode
<1>7. CASE HookDigestByName
  <2> USE <1>7 DEF HookDigestByName, game, saves
  <2>1. Len(SaveFiles) \in Nat /\ Len(Digests) \in Nat
    BY DigestsAssumption
  <2>2. turn' \in 1..Len(SaveFiles) + Len(Digests) + 1
    BY <2>1
  <2>3. MainTypeOK'
    BY <2>2 DEF MainTypeOK, Places
  <2> QED BY <2>3 DEF DigestsPaired, DiesOnlyOfStaleCode
<1>8. CASE InitSsl
  <2> USE <1>8 DEF InitSsl, game, saves, tls
  <2>1. MainTypeOK'
    BY DEF MainTypeOK, Places
  <2>2. check = [d \in CheckedNames |-> "nop"]
    OBVIOUS
  <2>3. ASSUME NEW d \in CheckedNames, Executed(d) = "branch" PROVE cached[d] = "branch"
    BY <2>2, <2>3 DEF Executed
  <2>4. DiesOnlyOfStaleCode'
    BY <2>3 DEF DiesOnlyOfStaleCode
  <2> QED BY <2>1, <2>2, <2>4 DEF DigestsPaired
<1>9. CASE LoadNext \/ UNCHANGED startVars
  <2>1. UNCHANGED mainVars
    BY <1>9 DEF LoadNext, startVars
  <2> QED BY <2>1 DEF mainVars, game, saves, tls, MainTypeOK, DigestsPaired, DiesOnlyOfStaleCode
<1> QED BY <1>1, <1>2, <1>3, <1>4, <1>5, <1>6, <1>7, <1>8, <1>9 DEF StartNext, MainNext

LEMMA StartStarts == StartInit => StartInv
<1> SUFFICES ASSUME MainInit PROVE StartInv
  BY DEF StartInit
<1>1. Len(SaveFiles) \in Nat /\ Len(Digests) \in Nat /\ MaxDigests \in Nat
  BY DigestsAssumption
<1>2. turn \in 1..Len(SaveFiles) + Len(Digests) + 1
  BY <1>1 DEF MainInit
<1>3. known \in Seq([name : ToSet(Digests), md : ToSet(Digests)]) /\ Len(known) = 0
  BY DEF MainInit
<1>4. MainTypeOK
  BY <1>2, <1>3 DEF MainInit, MainTypeOK, Places
<1>5. DigestsPaired
  BY <1>1, <1>3 DEF DigestsPaired
<1> QED BY <1>4, <1>5 DEF StartInv, TlsStarts, MainInit, DiesOnlyOfStaleCode

\* OpenSSL starts, whatever digests the image exports and whichever two it checks.
THEOREM TlsAlwaysStarts == StartSpec => []TlsStarts
<1>1. StartInit => StartInv
  BY StartStarts
<1>2. StartInv /\ [StartNext]_startVars => StartInv'
  BY StartKept
<1>3. StartInv => TlsStarts
  BY DEF StartInv
<1> QED BY <1>1, <1>2, <1>3, PTL DEF StartSpec

\* Where the loop over the saves is, and what it has left behind it.
SavesWhere ==
    /\ \A f \in ToSet(SaveFiles) : card[f] # heldFirst[f] =>
         card[f] = "empty" /\ (heldFirst[f] = "saved" => f \in unread \ unmade)
    /\ mpc \in {"loading", "patch", "net"} => turn = 1
    /\ mpc \in {"loading", "patch", "net", "saves"} => \A k \in 1..Len(SaveFiles) : k >= turn =>
         /\ card[SaveFiles[k]] = heldFirst[SaveFiles[k]]
         /\ SaveFiles[k] \notin unread /\ SaveFiles[k] \notin unmade
    /\ mpc = "saves" => \A k \in 1..Len(SaveFiles) :
         k < turn /\ card[SaveFiles[k]] = "absent" => SaveFiles[k] \in unmade
    /\ mpc \notin {"loading", "patch", "net", "saves"} =>
         \A f \in ToSet(SaveFiles) : card[f] = "absent" => f \in unmade

\* Each name of the list stands at one place in it.
LEMMA SavePlaces ==
    /\ Len(SaveFiles) \in Nat
    /\ \A k \in 1..Len(SaveFiles) : SaveFiles[k] \in ToSet(SaveFiles)
    /\ \A f \in ToSet(SaveFiles) : \E k \in 1..Len(SaveFiles) : SaveFiles[k] = f
    /\ \A k, l \in 1..Len(SaveFiles) : SaveFiles[k] = SaveFiles[l] => k = l
<1>1. SaveFiles \in Seq(ToSet(SaveFiles))
  BY DigestsAssumption
<1>2. Len(SaveFiles) \in Nat /\ DOMAIN SaveFiles = 1..Len(SaveFiles)
  BY <1>1
<1>3. ToSet(SaveFiles) = {SaveFiles[k] : k \in DOMAIN SaveFiles}
  BY DEF ToSet
<1>4. /\ \A k \in 1..Len(SaveFiles) : SaveFiles[k] \in ToSet(SaveFiles)
      /\ \A f \in ToSet(SaveFiles) : \E k \in 1..Len(SaveFiles) : SaveFiles[k] = f
  BY ONLY <1>2, <1>3
<1> QED BY <1>2, <1>4, DigestsAssumption

LEMMA SavesTurn ==
    ASSUME MainTypeOK, SavesWhere, SaveFile
    PROVE  SavesWhere'
<1> DEFINE f == SaveFiles[turn]
<1>1. /\ mpc = "saves" /\ mpc' = mpc /\ turn \in 1..Len(SaveFiles) /\ turn' = turn + 1
      /\ heldFirst' = heldFirst /\ f \in ToSet(SaveFiles)
  BY SavePlaces DEF SaveFile, MainTypeOK
<1>2. /\ card \in [ToSet(SaveFiles) -> {"absent", "empty", "saved"}]
      /\ card[f] = heldFirst[f] /\ f \notin unread /\ f \notin unmade
  BY <1>1 DEF MainTypeOK, SavesWhere
<1>3. \/ card[f] # "absent" /\ UNCHANGED <<card, unread, unmade>>
      \/ /\ unread' = IF card[f] = "absent" THEN unread ELSE unread \cup {f}
         /\ \/ card' = [card EXCEPT ![f] = "empty"] /\ UNCHANGED unmade
            \/ unmade' = unmade \cup {f} /\ UNCHANGED card
  BY DEF SaveFile
<1> HIDE DEF f
<1>4. \A g \in ToSet(SaveFiles) : g # f =>
          card'[g] = card[g] /\ (g \in unread' <=> g \in unread) /\ (g \in unmade' <=> g \in unmade)
  BY <1>1, <1>2, <1>3
<1>5. /\ card'[f] # heldFirst[f] => card'[f] = "empty" /\ (heldFirst[f] = "saved" => f \in unread' \ unmade')
      /\ card'[f] = "absent" => f \in unmade'
  BY <1>1, <1>2, <1>3
<1>6. \A k \in 1..Len(SaveFiles) : k # turn => SaveFiles[k] # f /\ SaveFiles[k] \in ToSet(SaveFiles)
  BY <1>1, SavePlaces DEF f
<1>7. \A g \in ToSet(SaveFiles) : card'[g] # heldFirst'[g] =>
          card'[g] = "empty" /\ (heldFirst'[g] = "saved" => g \in unread' \ unmade')
  BY <1>1, <1>4, <1>5 DEF SavesWhere
<1>8. ASSUME NEW k \in 1..Len(SaveFiles), k >= turn'
      PROVE  /\ card'[SaveFiles[k]] = heldFirst'[SaveFiles[k]]
             /\ SaveFiles[k] \notin unread' /\ SaveFiles[k] \notin unmade'
  <2>1. k # turn /\ k >= turn
    BY <1>1, <1>8
  <2> QED BY <1>1, <1>4, <1>6, <2>1 DEF SavesWhere
<1>9. ASSUME NEW k \in 1..Len(SaveFiles), k < turn', card'[SaveFiles[k]] = "absent"
      PROVE  SaveFiles[k] \in unmade'
  <2>1. CASE k = turn
    BY <1>5, <1>9, <2>1 DEF f
  <2>2. CASE k # turn
    <3>1. k < turn
      BY <1>1, <1>9, <2>2
    <3> QED BY <1>1, <1>4, <1>6, <1>9, <2>2, <3>1 DEF SavesWhere
  <2> QED BY <2>1, <2>2
<1> QED BY <1>1, <1>7, <1>8, <1>9 DEF SavesWhere

LEMMA SavesWhereKept ==
    ASSUME StartInv, SavesWhere, [StartNext]_startVars
    PROVE  SavesWhere'
<1>1. MainTypeOK
  BY DEF StartInv, TlsStarts
<1>2. CASE MainBegins
  <2>1. /\ mpc' = "patch" /\ turn' = 1 /\ heldFirst' = card'
        /\ UNCHANGED <<unread, unmade>> /\ mpc = "loading" /\ turn = 1
    BY <1>2 DEF MainBegins, SavesWhere
  <2> QED BY <2>1 DEF SavesWhere
<1>3. CASE PatchChecks \/ FmodInit
  <2>1. /\ mpc \in {"patch", "net"} /\ mpc' \in {"net", "saves"} /\ turn' = turn /\ turn = 1
        /\ UNCHANGED saves
    BY <1>3 DEF PatchChecks, FmodInit, SavesWhere
  <2> QED BY <2>1, SavePlaces DEF SavesWhere, saves
<1>4. CASE SaveFile
  BY <1>1, <1>4, SavesTurn
<1>5. CASE SavesDone
  <2>1. mpc = "saves" /\ mpc' = "digests" /\ turn > Len(SaveFiles) /\ UNCHANGED saves
    BY <1>5 DEF SavesDone
  <2>2. \A f \in ToSet(SaveFiles) : card[f] = "absent" => f \in unmade
    <3>1. \A k \in 1..Len(SaveFiles) : k < turn
      BY <1>1, <2>1, SavePlaces DEF MainTypeOK
    <3> QED BY <2>1, <3>1, SavePlaces DEF SavesWhere
  <2> QED BY <2>1, <2>2 DEF SavesWhere, saves
<1>6. CASE RegisterDigest \/ HookDigestByName \/ InitSsl \/ StartGame
  <2>1. /\ mpc \in {"digests", "ssl", "onload"} /\ mpc' \in {"digests", "ssl", "onload", "loop", "died"}
        /\ UNCHANGED saves
    BY <1>6 DEF RegisterDigest, HookDigestByName, InitSsl, StartGame
  <2> QED BY <2>1 DEF SavesWhere, saves
<1>7. CASE LoadNext \/ UNCHANGED startVars
  <2>1. UNCHANGED <<mpc, turn, saves>>
    BY <1>7 DEF LoadNext, startVars, mainVars
  <2> QED BY <2>1 DEF SavesWhere, saves
<1> QED BY <1>2, <1>3, <1>4, <1>5, <1>6, <1>7 DEF StartNext, MainNext

\* For any list of saves, any card and any of its refusals: a save is lost only where
\* the card refuses to open that save for reading and opens it for writing, and a file
\* that the game will open is missing only where the card would not make it.
THEOREM StartKeepsSaves == StartSpec => []SavesKept
<1>1. StartInit => SavesWhere
  BY DigestsAssumption DEF StartInit, MainInit, SavesWhere
<1>2. StartInv /\ SavesWhere /\ [StartNext]_startVars => StartInv' /\ SavesWhere'
  BY StartKept, SavesWhereKept
<1>3. SavesWhere => SavesKept
  BY DEF SavesWhere, SavesKept
<1> QED BY <1>1, <1>2, <1>3, StartStarts, PTL DEF StartSpec

-----------------------------------------------------------------------------
(* The two hashes.                                                         *)

\* What holds at the beginning and is kept holds to the end.
LEMMA FromTheStart ==
    ASSUME NEW N \in Nat, NEW S, 0 \in S, \A j \in 0..N - 1 : j \in S => j + 1 \in S
    PROVE  \A j \in 0..N : j \in S
<1> DEFINE R == OpToRel(<, Nat)
           Bad == {k \in 0..N : k \notin S}
<1>1. \A x, y \in Nat : <<x, y>> \in R <=> x < y
  BY DEF OpToRel
<1>2. IsWellFoundedOn(R, Nat)
  BY NatLessThanWellFounded
<1>3. Bad \subseteq Nat
  OBVIOUS
<1> HIDE DEF R
<1>4. ASSUME Bad # {} PROVE FALSE
  <2>1. PICK k \in Bad : \A y \in Bad : ~ (<<y, k>> \in R)
    <3> HIDE DEF Bad
    <3> QED BY <1>2, <1>3, <1>4, WFMin, Zenon
  <2>2. k \in 0..N /\ k \notin S /\ k # 0
    BY <2>1
  <2>3. k - 1 \in 0..N - 1 /\ k - 1 < k /\ (k - 1) + 1 = k
    BY <2>2
  <2>4. k - 1 \notin Bad
    BY <1>1, <1>3, <2>1, <2>3
  <2> QED BY <2>2, <2>3, <2>4
<1> QED BY <1>4

\* What a loop of L turns computes.
Recurses(f, L, base, step) ==
    f = [n \in 0..L |-> IF n = 0 THEN base ELSE step[n][f[n - 1]]]

\* There is such a function.
LEMMA Recursion ==
    ASSUME NEW L \in Nat, NEW T, NEW base \in T, NEW step \in [1..L -> [T -> T]]
    PROVE  \E f \in [0..L -> T] : Recurses(f, L, base, step)
<1> DEFINE Upto(f, m) == f[0] = base /\ \A n \in 1..m : f[n] = step[n][f[n - 1]]
           S == {m \in 0..L : \E f \in [0..L -> T] : Upto(f, m)}
<1>1. 0 \in S
  <2> DEFINE f == [n \in 0..L |-> base]
  <2>1. f \in [0..L -> T] /\ f[0] = base /\ 0 \in 0..L
    OBVIOUS
  <2>2. \A n \in 1..0 : FALSE
    OBVIOUS
  <2> HIDE DEF f
  <2>3. Upto(f, 0)
    BY <2>1, <2>2
  <2> QED BY <2>1, <2>3
<1>2. ASSUME NEW m \in 0..L - 1, m \in S PROVE m + 1 \in S
  <2>1. PICK f \in [0..L -> T] : Upto(f, m)
    BY <1>2
  <2> DEFINE v == step[m + 1][f[m]]
             g == [f EXCEPT ![m + 1] = v]
  <2>2. m + 1 \in 1..L /\ m \in 0..L /\ v \in T
    BY <2>1
  <2>3. g \in [0..L -> T] /\ g[m + 1] = v /\ \A n \in 0..m : g[n] = f[n]
    BY <2>2
  <2> HIDE DEF g
  <2>4. ASSUME NEW n \in 1..m + 1 PROVE g[n] = step[n][g[n - 1]]
    <3>1. CASE n = m + 1
      BY <2>2, <2>3, <3>1
    <3>2. CASE n # m + 1
      <4>1. n \in 1..m /\ n \in 0..m /\ n - 1 \in 0..m
        BY <3>2
      <4> QED BY <2>1, <2>3, <4>1
    <3> QED BY <3>1, <3>2
  <2>5. g[0] = base
    BY <2>1, <2>3
  <2>6. Upto(g, m + 1) /\ m + 1 \in 0..L
    BY <2>2, <2>4, <2>5
  <2> QED BY <2>3, <2>6
<1>3. L \in S
  <2> HIDE DEF S
  <2>1. \A j \in 0..L : j \in S
    BY <1>1, <1>2, FromTheStart
  <2> QED BY <2>1
<1>4. PICK f \in [0..L -> T] : Upto(f, L)
  BY <1>3
<1>5. ASSUME NEW n \in 0..L PROVE f[n] = IF n = 0 THEN base ELSE step[n][f[n - 1]]
  BY <1>4
<1>6. f = [n \in 0..L |-> IF n = 0 THEN base ELSE step[n][f[n - 1]]]
  BY <1>5
<1> QED BY <1>6 DEF Recurses

LEMMA NibbleXorType ==
    ASSUME NEW a \in Int, NEW b \in Int
    PROVE  NibbleXor(a, b) \in 0..15
BY DEF NibbleXor

\* The bits above and below the nibble stay.
FoldedIn(k, g, a) == Fold(k, g) >= 256 * a /\ Fold(k, g) =< 256 * a + 255 /\ Fold(k, g) \in Int

LEMMA FoldIn ==
    ASSUME NEW k \in Nat, NEW g \in Int, NEW a, a = k \div 256
    PROVE  FoldedIn(k, g, a)
<1> DEFINE q == k \div 16
           x == NibbleXor(q % 16, g)
<1>1. q \in Nat /\ k - 16 * q \in 0..15
  OBVIOUS
<1>2. k \div 256 = q \div 16
  OBVIOUS
<1>3. q \div 16 \in Nat /\ (q % 16) = q - 16 * (q \div 16)
  BY <1>1
<1>4. x \in 0..15
  BY <1>3, NibbleXorType
<1>5. Fold(k, g) = k + 16 * (x - (q % 16))
  BY DEF Fold
<1> HIDE DEF q, x
<1>6. Fold(k, g) = 256 * (q \div 16) + 16 * x + (k - 16 * q)
  BY <1>1, <1>3, <1>4, <1>5
<1>7. 16 * x + (k - 16 * q) \in 0..255
  BY <1>1, <1>4
<1>8. Fold(k, g) = 256 * (k \div 256) + (16 * x + (k - 16 * q))
  BY <1>1, <1>2, <1>3, <1>4, <1>6
<1>9. a \in Int /\ Fold(k, g) = 256 * a + (16 * x + (k - 16 * q))
  BY <1>8
<1> QED BY <1>7, <1>9 DEF FoldedIn

LEMMA FoldAbove ==
    ASSUME NEW z \in Nat, NEW r \in Nat, NEW g \in Int
    PROVE  Fold(256 * z + r, g) = 256 * z + Fold(r, g)
<1>1. ((256 * z + r) \div 16) % 16 = (r \div 16) % 16
  OBVIOUS
<1> DEFINE nib == (r \div 16) % 16
           x == NibbleXor(nib, g)
<1>2. nib \in Int /\ x \in Int
  BY NibbleXorType
<1>3. /\ Fold(256 * z + r, g) = (256 * z + r) + 16 * (x - nib)
      /\ Fold(r, g) = r + 16 * (x - nib)
  BY <1>1 DEF Fold
<1> HIDE DEF nib, x
<1> QED BY <1>2, <1>3

LEMMA FoldBelow ==
    ASSUME NEW n \in Nat, NEW r \in 0..256 * n - 1, NEW g \in Int
    PROVE  Fold(r, g) \in 0..256 * n - 1
<1>1. PICK a \in Int : a = r \div 256
  OBVIOUS
<1>2. r \in Nat /\ a =< n - 1 /\ a >= 0
  BY <1>1
<1>3. FoldedIn(r, g, a)
  BY <1>1, <1>2, FoldIn
<1> QED BY <1>1, <1>2, <1>3 DEF FoldedIn

LEMMA Remainder ==
    ASSUME NEW p \in Nat \ {0}, NEW q \in Int, NEW r \in 0..p - 1
    PROVE  (q * p + r) \div p = q /\ (q * p + r) % p = r
<1> DEFINE y == q * p + r
<1>1. q * p \in Int /\ y \in Int /\ q * p =< y /\ y < q * p + p
  OBVIOUS
<1>2. y % p = y - p * (y \div p)
  BY <1>1
<1> HIDE DEF y
<1>3. q = y \div p
  BY <1>1, OneQuotient
<1>4. y % p = y - p * q
  BY <1>2, <1>3
<1>5. p * q = q * p
  OBVIOUS
<1>6. y - q * p = r
  BY DEF y
<1> QED BY <1>3, <1>4, <1>5, <1>6 DEF y

Hashes == 0..HashSize - 1

\* The loader's step is the linker's, whatever the word carries, and stays in 28
\* bits.
LEMMA StepsAgree ==
    ASSUME NEW h \in Hashes, NEW c \in 1..255
    PROVE  SoHashStep(h, c) \in Hashes /\ SysvStep(h, c) = SoHashStep(h, c)
<1> DEFINE M == HashSize
           n == M \div 256
           K == h * 16 + c
           t == K \div M
           g == t % 16
           r == K - t * M
<1>1. n \in Nat \ {0} /\ M = 256 * n /\ M \in Nat \ {0}
  BY SymbolAssumption
<1>2. h \in 0..M - 1 /\ K \in Nat /\ K < 17 * M
  BY <1>1 DEF Hashes, M, K
<1> HIDE DEF M, n, K
<1>3. t \in Int /\ t * M =< K /\ K < t * M + M
  <2>1. K \in Int
    BY <1>2
  <2>2. M \in Nat \ {0}
    BY <1>1
  <2> QED BY ONLY <2>1, <2>2, Quotient
<1>4. t \in 0..16
  <2>1. t * M >= 0 - M + 1
    BY <1>1, <1>2, <1>3
  <2>2. t >= 0
    <3>1. SUFFICES ASSUME t =< -1 PROVE FALSE
      BY <1>3
    <3>2. t * M =< -1 * M
      BY <1>1, <1>3, <3>1, Monotone
    <3> QED BY <1>1, <1>3, <2>1, <3>2
  <2>3. t =< 16
    <3>1. SUFFICES ASSUME t >= 17 PROVE FALSE
      BY <1>3
    <3>2. 17 * M =< t * M
      BY <1>1, <1>3, <3>1, Monotone
    <3> QED BY <1>1, <1>2, <1>3, <3>2
  <2> QED BY <1>3, <2>2, <2>3
<1>5. r \in 0..M - 1 /\ K = t * M + r
  BY <1>1, <1>2, <1>3
<1>6. g \in 0..15 /\ (t < 16 => g = t) /\ (t = 16 => g = 0)
  BY <1>4
<1> HIDE DEF t, g, r
<1> DEFINE F == Fold(r, g)
<1>7. F \in 0..M - 1
  BY <1>1, <1>5, <1>6, FoldBelow
\* The loader's.
<1>8. SoHashStep(h, c) = F
  <2>1. SoHashStep(h, c) = Fold(K, g) % M
    BY DEF SoHashStep, K, g, t, M
  <2>2. t * M = 256 * (t * n) /\ t * n \in Nat
    BY <1>1, <1>4
  <2>3. Fold(K, g) = t * M + F
    BY <1>5, <1>6, <2>2, FoldAbove
  <2> HIDE DEF F
  <2>4. t \in Int
    BY <1>4
  <2>5. (t * M + F) % M = F
    <3>1. M \in Nat \ {0} /\ t \in Int /\ F \in 0..M - 1
      BY <1>1, <1>7, <2>4
    <3> QED BY ONLY <3>1, Remainder
  <2> QED BY <2>1, <2>3, <2>5
\* The linker's.
<1>9. SysvStep(h, c) = F
  <2> DEFINE k == K % (16 * M)
  <2>1. k = g * M + r
    <3>1. CASE t < 16
      <4>1. t * M =< 15 * M
        BY <1>1, <1>4, <3>1, Monotone
      <4>2. K < 16 * M
        <5>1. t * M \in Int
          BY <1>1, <1>4
        <5> QED BY <1>1, <1>5, <4>1, <5>1
      <4>3. K \in 0..16 * M - 1 /\ 16 * M \in Nat \ {0} /\ 0 * (16 * M) + K = K
        BY <1>1, <1>2, <4>2
      <4>4. k = K
        BY <4>3, Remainder
      <4> QED BY <1>5, <1>6, <3>1, <4>4
    <3>2. CASE t = 16
      <4>1. r \in 0..16 * M - 1 /\ 16 * M \in Nat \ {0} /\ K = 1 * (16 * M) + r
        BY <1>1, <1>5, <3>2
      <4>2. k = r
        BY <4>1, Remainder
      <4>3. 0 * M + r = r
        BY <1>1, <1>5
      <4> QED BY <1>6, <3>2, <4>2, <4>3
    <3> QED BY <1>4, <3>1, <3>2
  <2>2. (g * M + r) \div M = g
    <3>1. M \in Nat \ {0} /\ g \in Int /\ r \in 0..M - 1
      BY <1>1, <1>5, <1>6
    <3> QED BY ONLY <3>1, Remainder
  <2>3. SysvStep(h, c) = Fold(k, k \div M) - (k \div M) * M
    BY DEF SysvStep, K, M
  <2>4. g * M = 256 * (g * n) /\ g * n \in Nat
    BY <1>1, <1>6
  <2>5. Fold(g * M + r, g) = g * M + F
    BY <1>5, <2>4, <1>6, FoldAbove
  <2> HIDE DEF F, k
  <2>6. SysvStep(h, c) = (g * M + F) - g * M
    BY <2>1, <2>2, <2>3, <2>5
  <2>7. g * M \in Int /\ F \in Int
    BY <1>1, <1>6, <1>7
  <2> QED BY <2>6, <2>7
<1> QED BY <1>7, <1>8, <1>9 DEF Hashes, M

\* ... and so are its hashes: the linker's and the loader's are one function.
LEMMA HashesAgree ==
    ASSUME NEW name \in Seq(1..255)
    PROVE  so_hash(name) \in Hashes /\ HashWith(SysvStep, name) = so_hash(name)
<1>1. PICK L \in Nat : L = Len(name)
  OBVIOUS
<1>2. \A p \in 1..L : name[p] \in 1..255
  BY <1>1
<1> DEFINE step == [p \in 1..L |-> [h \in Hashes |-> SoHashStep(h, name[p])]]
<1>3. step \in [1..L -> [Hashes -> Hashes]] /\ 0 \in Hashes
  <2>1. \A p \in 1..L, h \in Hashes : SoHashStep(h, name[p]) \in Hashes
    BY <1>2, StepsAgree
  <2>2. 0 \in Hashes
    BY SymbolAssumption DEF Hashes
  <2> QED BY <2>1, <2>2
<1>4. \A p \in 1..L, h \in Hashes :
         step[p][h] = SoHashStep(h, name[p]) /\ step[p][h] = SysvStep(h, name[p])
  BY <1>2, StepsAgree
<1> HIDE DEF step
<1>5. PICK f \in [0..L -> Hashes] : Recurses(f, L, 0, step)
  BY <1>3, Recursion
<1>6. f[0] = 0 /\ \A p \in 1..L : /\ p - 1 \in 0..L /\ p \in 0..L /\ f[p - 1] \in Hashes
                                  /\ f[p] = SoHashStep(f[p - 1], name[p])
                                  /\ f[p] = SysvStep(f[p - 1], name[p])
  <2>1. \A n \in 0..L : f[n] = IF n = 0 THEN 0 ELSE step[n][f[n - 1]]
    BY <1>5 DEF Recurses
  <2> QED BY <1>4, <2>1
<1>7. so_hash(name) = f[L]
  <2> DEFINE F(g) == [p \in 0..L |-> IF p = 0 THEN 0 ELSE SoHashStep(g[p - 1], name[p])]
             g == CHOOSE g : g = F(g)
  <2>1. f = F(f)
    BY <1>6
  <2>2. g = F(g)
    <3> HIDE DEF F
    <3> QED BY <2>1
  <2>3. so_hash(name) = g[L]
    BY <1>1 DEF so_hash, HashWith
  <2> HIDE DEF g
  <2>4. \A p \in 0..L : g[p] = IF p = 0 THEN 0 ELSE SoHashStep(g[p - 1], name[p])
    BY <2>2
  <2> DEFINE S == {p \in 0..L : g[p] = f[p]}
  <2>5. 0 \in S /\ \A p \in 0..L - 1 : p \in S => p + 1 \in S
    <3>1. 0 \in S
      BY <1>6, <2>4
    <3>2. ASSUME NEW p \in 0..L - 1, p \in S PROVE p + 1 \in S
      <4>1. p + 1 \in 1..L /\ p + 1 \in 0..L /\ p + 1 # 0 /\ (p + 1) - 1 = p
        OBVIOUS
      <4> QED BY <1>6, <2>4, <3>2, <4>1
    <3> QED BY <3>1, <3>2
  <2> HIDE DEF S
  <2>6. \A p \in 0..L : p \in S
    BY <2>5, FromTheStart
  <2> QED BY <2>3, <2>6 DEF S
<1>8. HashWith(SysvStep, name) = f[L]
  <2> DEFINE F(g) == [p \in 0..L |-> IF p = 0 THEN 0 ELSE SysvStep(g[p - 1], name[p])]
             g == CHOOSE g : g = F(g)
  <2>1. f = F(f)
    BY <1>6
  <2>2. g = F(g)
    <3> HIDE DEF F
    <3> QED BY <2>1
  <2>3. HashWith(SysvStep, name) = g[L]
    BY <1>1 DEF HashWith
  <2> HIDE DEF g
  <2>4. \A p \in 0..L : g[p] = IF p = 0 THEN 0 ELSE SysvStep(g[p - 1], name[p])
    BY <2>2
  <2> DEFINE S == {p \in 0..L : g[p] = f[p]}
  <2>5. 0 \in S /\ \A p \in 0..L - 1 : p \in S => p + 1 \in S
    <3>1. 0 \in S
      BY <1>6, <2>4
    <3>2. ASSUME NEW p \in 0..L - 1, p \in S PROVE p + 1 \in S
      <4>1. p + 1 \in 1..L /\ p + 1 \in 0..L /\ p + 1 # 0 /\ (p + 1) - 1 = p
        OBVIOUS
      <4> QED BY <1>6, <2>4, <3>2, <4>1
    <3> QED BY <3>1, <3>2
  <2> HIDE DEF S
  <2>6. \A p \in 0..L : p \in S
    BY <2>5, FromTheStart
  <2> QED BY <2>3, <2>6 DEF S
<1> QED BY <1>5, <1>7, <1>8

-----------------------------------------------------------------------------
(* The chains.                                                             *)

Least(S) == IF S = {} THEN 0 ELSE CHOOSE p \in S : \A q \in S : p <= q
Most(S) == IF S = {} THEN 0 ELSE CHOOSE p \in S : \A q \in S : p >= q

\* A set of positions has a least and a greatest member.
LEMMA Extremes ==
    ASSUME NEW N \in Nat, NEW S \in SUBSET (1..N), S # {}
    PROVE  /\ Least(S) \in S /\ \A q \in S : Least(S) =< q
           /\ Most(S) \in S /\ \A q \in S : Most(S) >= q
<1>1. ASSUME \A p \in S : \E q \in S : ~ (p =< q) PROVE FALSE
  <2> DEFINE U == {j \in 0..N : \A q \in S : q > j}
  <2>1. 0 \in U
    OBVIOUS
  <2>2. ASSUME NEW j \in 0..N - 1, j \in U PROVE j + 1 \in U
    <3>1. j + 1 \notin S
      BY <1>1, <2>2
    <3> QED BY <2>2, <3>1
  <2> HIDE DEF U
  <2>3. \A j \in 0..N : j \in U
    BY <2>1, <2>2, FromTheStart
  <2>4. N \in U
    BY <2>3
  <2>5. PICK s \in S : TRUE
    OBVIOUS
  <2>6. s \in 1..N
    OBVIOUS
  <2> QED BY <2>4, <2>5, <2>6 DEF U
<1>2. ASSUME \A p \in S : \E q \in S : ~ (p >= q) PROVE FALSE
  <2> DEFINE U == {j \in 0..N : \A q \in S : q =< N - j}
  <2>1. 0 \in U
    OBVIOUS
  <2>2. ASSUME NEW j \in 0..N - 1, j \in U PROVE j + 1 \in U
    <3>1. N - j \notin S
      BY <1>2, <2>2
    <3> QED BY <2>2, <3>1
  <2> HIDE DEF U
  <2>3. \A j \in 0..N : j \in U
    BY <2>1, <2>2, FromTheStart
  <2>4. N \in U
    BY <2>3
  <2>5. PICK s \in S : TRUE
    OBVIOUS
  <2>6. s \in 1..N
    OBVIOUS
  <2> QED BY <2>4, <2>5, <2>6 DEF U
<1> QED BY <1>1, <1>2 DEF Least, Most

First(B, order) == IF order THEN Most(B) ELSE Least(B)
After(B, order, p) == IF order THEN Most({q \in B : q < p}) ELSE Least({q \in B : q > p})
Rank(N, order, p) == IF order THEN N + 1 - p ELSE p

LEMMA ChainStays ==
    ASSUME NEW N \in Nat, NEW B \in SUBSET (1..N), NEW order \in BOOLEAN
    PROVE  First(B, order) \in 0..N /\ \A p \in 1..N : After(B, order, p) \in 0..N
<1>1. \A S \in SUBSET (1..N) : Least(S) \in 0..N /\ Most(S) \in 0..N
  <2> SUFFICES ASSUME NEW S \in SUBSET (1..N) PROVE Least(S) \in 0..N /\ Most(S) \in 0..N
    OBVIOUS
  <2>1. CASE S = {}
    BY <2>1 DEF Least, Most
  <2>2. CASE S # {}
    <3>1. Least(S) \in S /\ Most(S) \in S
      BY <2>2, Extremes
    <3>2. \A q \in S : q \in 0..N
      OBVIOUS
    <3> HIDE DEF Least, Most
    <3> QED BY <3>1, <3>2
  <2> QED BY <2>1, <2>2
<1>2. \A p \in 1..N : {q \in B : q < p} \in SUBSET (1..N) /\ {q \in B : q > p} \in SUBSET (1..N)
  OBVIOUS
<1> QED BY <1>1, <1>2 DEF First, After

\* In either order, a chain comes closer to each of its symbols until it is there.
LEMMA ChainReaches ==
    ASSUME NEW N \in Nat, NEW B \in SUBSET (1..N), NEW order \in BOOLEAN, NEW d \in B
    PROVE  /\ First(B, order) \in B
           /\ Rank(N, order, First(B, order)) =< Rank(N, order, d)
           /\ \A p \in B : p # d /\ Rank(N, order, p) =< Rank(N, order, d) =>
                 /\ After(B, order, p) \in B
                 /\ Rank(N, order, p) < Rank(N, order, After(B, order, p))
                 /\ Rank(N, order, After(B, order, p)) =< Rank(N, order, d)
<1>1. First(B, order) \in B /\ Rank(N, order, First(B, order)) =< Rank(N, order, d)
  <2>1. B # {} /\ d \in 1..N
    OBVIOUS
  <2>2. /\ Least(B) \in 1..N /\ Most(B) \in 1..N /\ Least(B) =< d /\ Most(B) >= d
        /\ Least(B) \in B /\ Most(B) \in B
    BY <2>1, Extremes
  <2> QED BY <2>1, <2>2 DEF First, Rank
<1>2. ASSUME NEW p \in B, p # d, Rank(N, order, p) =< Rank(N, order, d)
      PROVE  /\ After(B, order, p) \in B
             /\ Rank(N, order, p) < Rank(N, order, After(B, order, p))
             /\ Rank(N, order, After(B, order, p)) =< Rank(N, order, d)
  <2>1. p \in 1..N /\ d \in 1..N
    OBVIOUS
  <2>2. CASE order
    <3> DEFINE S == {q \in B : q < p}
    <3>1. d \in S
      BY <1>2, <2>1, <2>2 DEF Rank
    <3>2. S \in SUBSET (1..N) /\ S # {}
      BY <3>1
    <3>3. Most(S) \in S /\ Most(S) >= d
      <4> HIDE DEF S
      <4> QED BY <3>1, <3>2, Extremes
    <3>4. Most(S) \in B /\ Most(S) < p /\ Most(S) \in 1..N
      BY <3>3
    <3>5. After(B, order, p) = Most(S)
      BY <2>2 DEF After
    <3> DEFINE m == Most(S)
    <3>6. m \in 1..N /\ m \in B /\ m < p /\ m >= d /\ After(B, order, p) = m
      BY <3>3, <3>4, <3>5
    <3>7. \A q : Rank(N, order, q) = N + 1 - q
      BY <2>2 DEF Rank
    <3> HIDE DEF m
    <3> QED BY <2>1, <3>6, <3>7
  <2>3. CASE ~order
    <3> DEFINE S == {q \in B : q > p}
    <3>1. d \in S
      BY <1>2, <2>1, <2>3 DEF Rank
    <3>2. S \in SUBSET (1..N) /\ S # {}
      BY <3>1
    <3>3. Least(S) \in S /\ Least(S) =< d
      <4> HIDE DEF S
      <4> QED BY <3>1, <3>2, Extremes
    <3>4. Least(S) \in B /\ Least(S) > p /\ Least(S) \in 1..N
      BY <3>3
    <3>5. After(B, order, p) = Least(S)
      BY <2>3 DEF After
    <3> HIDE DEF S
    <3> QED BY <2>1, <2>3, <3>3, <3>4, <3>5 DEF Rank
  <2> QED BY <2>2, <2>3
<1> QED BY <1>1, <1>2

LEMMA Words ==
    ASSUME NEW a \in Int, NEW c \in Int, NEW s \in Seq(Int), NEW t \in Seq(Int)
    PROVE  LET w == <<a, c>> \o s \o t
           IN  /\ w[1] = a
               /\ \A b \in 0..Len(s) - 1 : w[3 + b] = s[b + 1]
               /\ \A p \in 0..Len(t) - 1 : w[3 + Len(s) + p] = t[p + 1]
<1> DEFINE u == <<a, c>> \o s
           w == u \o t
<1>1. /\ u \in Seq(Int) /\ Len(u) = 2 + Len(s) /\ Len(s) \in Nat /\ Len(t) \in Nat
      /\ u[1] = a /\ \A b \in 0..Len(s) - 1 : u[3 + b] = s[b + 1]
  OBVIOUS
<1> HIDE DEF u
<1>2. w \in Seq(Int) /\ \A j \in 1..Len(u) : w[j] = u[j]
  BY <1>1
<1>3. ASSUME NEW p \in 0..Len(t) - 1 PROVE w[3 + Len(s) + p] = t[p + 1]
  <2>1. p + 1 \in 1..Len(t) /\ 3 + Len(s) + p = Len(u) + (p + 1)
    BY <1>1
  <2>2. u \in Seq(Int)
    BY <1>1
  <2>3. \A j \in 1..Len(t) : w[Len(u) + j] = t[j]
    BY ONLY <2>2, t \in Seq(Int)
  <2> QED BY <2>1, <2>3
<1>4. 1 \in 1..Len(u) /\ \A b \in 0..Len(s) - 1 : 3 + b \in 1..Len(u)
  BY <1>1
<1> QED BY <1>1, <1>2, <1>3, <1>4 DEF u

SymbolRecord == [name : Seq(1..255), state : {"undefined", "untyped", "defined"}]

IsImage(symbols) == symbols \in Seq(SymbolRecord) /\ Len(symbols) >= 1 /\ symbols[1] = Undefined

\* The symbols whose chain begins in a bucket, by the loader's hash.
InBucket(symbols, nbucket, b) ==
    {p \in 1..Len(symbols) - 1 : so_hash(symbols[p + 1].name) % nbucket = b}

\* Where the loader reads them, the words of a table are its buckets and chains.
Reads(words, symbols, nbucket, order) ==
    /\ words[1] = nbucket
    /\ \A b \in 0..nbucket - 1 :
         /\ words[3 + b] = First(InBucket(symbols, nbucket, b), order)
         /\ \A p \in InBucket(symbols, nbucket, b) :
              words[3 + nbucket + p] = After(InBucket(symbols, nbucket, b), order, p)
    /\ \A p \in 1..Len(symbols) - 1 : words[3 + nbucket + p] \in 0..Len(symbols) - 1

LEMMA TableWords ==
    ASSUME NEW symbols, IsImage(symbols), NEW nbucket \in Nat \ {0}, NEW order \in BOOLEAN
    PROVE  Reads(HashTable(symbols, nbucket, order), symbols, nbucket, order)
<1>1. PICK N \in Nat : N = Len(symbols) - 1
  BY DEF IsImage
<1>2. \A p \in 1..N : /\ symbols[p + 1].name \in Seq(1..255)
                      /\ HashWith(SysvStep, symbols[p + 1].name) = so_hash(symbols[p + 1].name)
                      /\ so_hash(symbols[p + 1].name) \in Nat
  <2> SUFFICES ASSUME NEW p \in 1..N
               PROVE  /\ symbols[p + 1].name \in Seq(1..255)
                      /\ HashWith(SysvStep, symbols[p + 1].name) = so_hash(symbols[p + 1].name)
                      /\ so_hash(symbols[p + 1].name) \in Nat
    OBVIOUS
  <2>1. symbols[p + 1] \in SymbolRecord
    BY <1>1 DEF IsImage
  <2>2. symbols[p + 1].name \in Seq(1..255)
    BY <2>1 DEF SymbolRecord
  <2>3. Hashes \subseteq Nat
    BY SymbolAssumption DEF Hashes
  <2> QED BY <2>2, <2>3, HashesAgree
<1> DEFINE Of(p) == HashWith(SysvStep, symbols[p + 1].name) % nbucket
           Bucket(b) == {p \in 1..N : Of(p) = b}
           s == [b \in 1..nbucket |-> First(Bucket(b - 1), order)]
           t == [p \in 1..N + 1 |-> IF p = 1 THEN 0 ELSE After(Bucket(Of(p - 1)), order, p - 1)]
           w == <<nbucket, N + 1>> \o s \o t
<1>3. HashTable(symbols, nbucket, order) = w
  BY <1>1 DEF HashTable, First, After, Least, Most
<1>4. \A p \in 1..N : Of(p) = so_hash(symbols[p + 1].name) % nbucket /\ Of(p) \in 0..nbucket - 1
  <2> SUFFICES ASSUME NEW p \in 1..N
               PROVE  Of(p) = so_hash(symbols[p + 1].name) % nbucket /\ Of(p) \in 0..nbucket - 1
    OBVIOUS
  <2>1. Of(p) = so_hash(symbols[p + 1].name) % nbucket
    BY <1>2
  <2>2. so_hash(symbols[p + 1].name) \in Nat
    BY <1>2
  <2> QED BY <2>1, <2>2
<1> HIDE DEF Of
<1>5. \A b : Bucket(b) = InBucket(symbols, nbucket, b) /\ Bucket(b) \in SUBSET (1..N)
  BY <1>1, <1>4 DEF InBucket
<1>6. \A p \in 1..N : p \in Bucket(Of(p)) /\ \A b : p \in Bucket(b) => Of(p) = b
  OBVIOUS
<1> HIDE DEF Bucket
<1>7. \A b : /\ First(Bucket(b), order) \in 0..N
              /\ \A p \in 1..N : After(Bucket(b), order, p) \in 0..N
  BY <1>5, ChainStays
<1>8. s \in Seq(Int) /\ Len(s) = nbucket
  <2>1. \A b \in 1..nbucket : First(Bucket(b - 1), order) \in Int
    BY <1>7
  <2> QED BY <2>1
<1>9. t \in Seq(Int) /\ Len(t) = N + 1
  <2>1. \A p \in 1..N + 1 :
          (IF p = 1 THEN 0 ELSE After(Bucket(Of(p - 1)), order, p - 1)) \in Int
    <3> SUFFICES ASSUME NEW p \in 1..N + 1, p # 1
                 PROVE  After(Bucket(Of(p - 1)), order, p - 1) \in Int
      OBVIOUS
    <3>1. p - 1 \in 1..N
      OBVIOUS
    <3> QED BY <1>7, <3>1
  <2> QED BY <2>1
<1>10. \A b \in 0..nbucket - 1 : s[b + 1] = First(Bucket(b), order)
  OBVIOUS
<1>11. \A p \in 1..N : p \in 0..N /\ t[p + 1] = After(Bucket(Of(p)), order, p)
  OBVIOUS
<1> HIDE DEF s, t
<1>12. /\ w[1] = nbucket
       /\ \A b \in 0..nbucket - 1 : w[3 + b] = s[b + 1]
       /\ \A p \in 0..N : w[3 + nbucket + p] = t[p + 1]
  <2>1. nbucket \in Int /\ N + 1 \in Int /\ (N + 1) - 1 = N
    OBVIOUS
  <2> QED BY <1>8, <1>9, <2>1, Words
<1> HIDE DEF w
<1>13. w[1] = nbucket
  BY <1>12
<1>14. ASSUME NEW b \in 0..nbucket - 1
       PROVE  /\ w[3 + b] = First(Bucket(b), order)
              /\ \A p \in Bucket(b) : w[3 + nbucket + p] = After(Bucket(b), order, p)
  <2>1. w[3 + b] = First(Bucket(b), order)
    BY <1>10, <1>12
  <2>2. ASSUME NEW p \in Bucket(b) PROVE w[3 + nbucket + p] = After(Bucket(b), order, p)
    <3>1. p \in 1..N
      BY <1>5
    <3>2. Of(p) = b
      BY <1>6, <3>1
    <3> QED BY <1>11, <1>12, <3>1, <3>2
  <2> QED BY <2>1, <2>2
<1>15. ASSUME NEW p \in 1..N PROVE w[3 + nbucket + p] \in 0..N
  <2>1. w[3 + nbucket + p] = After(Bucket(Of(p)), order, p)
    BY <1>11, <1>12
  <2> QED BY <1>7, <2>1
<1> QED BY <1>1, <1>3, <1>5, <1>13, <1>14, <1>15 DEF Reads

-----------------------------------------------------------------------------
(* The search.                                                             *)

\* What the walk is in: where it is, and what it has found.
Walks(N) == [at : 0..N, index : 0..N \cup {NotFound}]

\* The walk of a bucket answers with a symbol that matches, and with none only
\* if none of its symbols does.
LEMMA WalkFinds ==
    ASSUME NEW symbol \in Seq(1..255), IsImage(dynsym),
           NEW nbucket \in Nat \ {0}, NEW order \in BOOLEAN,
           hash = HashTable(dynsym, nbucket, order)
    PROVE  LET index == Walk(hash[3 + (so_hash(symbol) % hash[1])], symbol)
           IN  /\ index \in 0..Len(dynsym) - 1 \cup {NotFound}
               /\ index # NotFound => Matches(index, symbol)
               /\ index = NotFound => \A d \in 0..Len(dynsym) - 1 : ~Matches(d, symbol)
<1>1. PICK N \in Nat : N = Len(dynsym) - 1
  BY DEF IsImage
<1> DEFINE b == so_hash(symbol) % nbucket
           B == InBucket(dynsym, nbucket, b)
           head == hash[3 + b]
           chain(q) == hash[3 + nbucket + q]
<1>2. so_hash(symbol) \in Nat /\ b \in 0..nbucket - 1
  <2>1. so_hash(symbol) \in Hashes
    BY HashesAgree
  <2>2. so_hash(symbol) \in Nat
    BY <2>1, SymbolAssumption DEF Hashes
  <2> QED BY <2>2
<1>3. /\ hash[1] = nbucket /\ head = First(B, order)
      /\ \A p \in B : chain(p) = After(B, order, p)
      /\ \A p \in 1..N : chain(p) \in 0..N
  <2>1. Reads(hash, dynsym, nbucket, order)
    BY TableWords
  <2>2. \A p \in 1..N : hash[3 + nbucket + p] \in 0..N
    BY <1>1, <2>1 DEF Reads
  <2> QED BY <1>2, <2>1, <2>2 DEF Reads
<1>4. B \in SUBSET (1..N)
  BY <1>1 DEF InBucket
<1>5. head \in 0..N
  BY <1>3, <1>4, ChainStays
<1>6. \A d \in 0..N : Matches(d, symbol) => d \in B
  <2> SUFFICES ASSUME NEW d \in 0..N, Matches(d, symbol) PROVE d \in B
    OBVIOUS
  <2>1. d # 0
    BY DEF Matches, IsImage, Undefined
  <2>2. dynsym[d + 1].name = symbol
    BY DEF Matches
  <2> QED BY <1>1, <2>1, <2>2 DEF InBucket
<1> HIDE DEF b, B, head, chain
<1> DEFINE Turn(was) ==
             IF was.at = 0 \/ was.index # NotFound THEN was
             ELSE IF Matches(was.at, symbol) THEN [was EXCEPT !.index = was.at]
             ELSE [was EXCEPT !.at = chain(was.at)]
           start == [at |-> head, index |-> NotFound]
           L == N + 1
           F(g) == [n \in 0..L |-> IF n = 0 THEN start ELSE Turn(g[n - 1])]
           found == CHOOSE g : g = F(g)
<1> HIDE DEF L
<1>17. L \in Nat /\ L = N + 1
  BY DEF L
<1>18. \A q \in 1..N : Rank(N, order, q) \in Int /\ Rank(N, order, q) \in 1..N
  BY DEF Rank
<1>7. start \in Walks(N) /\ \A was \in Walks(N) : Turn(was) \in Walks(N)
  BY <1>3, <1>5 DEF Walks
<1>8. Walk(head, symbol) = found[L].index
  BY <1>1, <1>3 DEF Walk, chain, L
<1> HIDE DEF Turn, start
<1>9. found = F(found)
  <2> DEFINE step == [n \in 1..L |-> [was \in Walks(N) |-> Turn(was)]]
  <2>1. step \in [1..L -> [Walks(N) -> Walks(N)]]
    BY <1>7
  <2>2. \A n \in 1..L, was \in Walks(N) : step[n][was] = Turn(was)
    OBVIOUS
  <2> HIDE DEF step
  <2>3. PICK f \in [0..L -> Walks(N)] : Recurses(f, L, start, step)
    BY <1>7, <1>17, <2>1, Recursion
  <2>4. \A n \in 0..L : f[n] = IF n = 0 THEN start ELSE Turn(f[n - 1])
    <3> SUFFICES ASSUME NEW n \in 0..L PROVE f[n] = IF n = 0 THEN start ELSE Turn(f[n - 1])
      OBVIOUS
    <3>1. f[n] = IF n = 0 THEN start ELSE step[n][f[n - 1]]
      BY <2>3 DEF Recurses
    <3>2. CASE n # 0
      <4>1. n \in 1..L /\ n - 1 \in 0..L
        BY <1>17, <3>2
      <4> QED BY <2>2, <3>1, <4>1
    <3> QED BY <3>1, <3>2
  <2>5. f = F(f)
    BY <2>4
  <2> HIDE DEF F
  <2> QED BY <2>5
<1> HIDE DEF found
<1>10. \A n \in 0..L : found[n] = IF n = 0 THEN start ELSE Turn(found[n - 1])
  BY <1>9
\* After n turns: what is found matches, and a symbol that matches is found or
\* still ahead, n turns closer.
<1> DEFINE Ahead(was, n) ==
             \A d \in 0..N : Matches(d, symbol) =>
                \/ was.index # NotFound
                \/ /\ was.at \in B /\ Rank(N, order, was.at) >= n + 1
                   /\ Rank(N, order, was.at) =< Rank(N, order, d)
           Fine(was, n) == /\ was \in Walks(N) /\ Ahead(was, n)
                           /\ was.index # NotFound => Matches(was.index, symbol)
           S == {n \in 0..L : Fine(found[n], n)}
<1>11. 0 \in S
  <2>1. found[0] = start /\ start.at = head /\ start.index = NotFound /\ 0 \in 0..L
    BY <1>10, <1>17 DEF start
  <2>2. Ahead(start, 0)
    <3> SUFFICES ASSUME NEW d \in 0..N, Matches(d, symbol)
                 PROVE  /\ head \in B /\ Rank(N, order, head) >= 1
                        /\ Rank(N, order, head) =< Rank(N, order, d)
      BY <2>1
    <3>1. d \in B
      BY <1>6
    <3>2. head \in B /\ Rank(N, order, head) =< Rank(N, order, d)
      BY <1>3, <1>4, <3>1, ChainReaches
    <3> QED BY <1>4, <3>2 DEF Rank
  <2> QED BY <1>7, <2>1, <2>2
<1>12. ASSUME NEW n \in 0..L - 1, n \in S PROVE n + 1 \in S
  <2> DEFINE was == found[n]
             is == found[n + 1]
  <2>1. was \in Walks(N) /\ Ahead(was, n) /\ (was.index # NotFound => Matches(was.index, symbol))
    BY <1>12
  <2>2. is = Turn(was)
    <3>1. n + 1 \in 0..L /\ n + 1 # 0 /\ (n + 1) - 1 = n
      BY <1>17
    <3> QED BY <1>10, <3>1
  <2>3. is \in Walks(N)
    BY <1>7, <2>1, <2>2
  <2> HIDE DEF was, is
  <2>4. was.at \in 0..N /\ was = [at |-> was.at, index |-> was.index]
    BY <2>1 DEF Walks
  <2>5. is.index # NotFound => Matches(is.index, symbol)
    BY <2>1, <2>2, <2>4 DEF Turn
  <2>6. Ahead(is, n + 1)
    <3> SUFFICES ASSUME NEW d \in 0..N, Matches(d, symbol), is.index = NotFound
                 PROVE  /\ is.at \in B /\ Rank(N, order, is.at) >= n + 2
                        /\ Rank(N, order, is.at) =< Rank(N, order, d)
      OBVIOUS
    <3>1. was.index = NotFound
      BY <2>2 DEF Turn
    <3>2. was.at \in B /\ Rank(N, order, was.at) >= n + 1 /\ Rank(N, order, was.at) =< Rank(N, order, d)
      BY <2>1, <3>1
    <3>3. was.at \in 1..N
      BY <1>4, <3>2
    <3>4. ~Matches(was.at, symbol)
      BY <2>2, <2>4, <3>1, <3>3 DEF Turn, NotFound
    <3>5. is.at = chain(was.at)
      BY <2>2, <2>4, <3>1, <3>3, <3>4 DEF Turn
    <3>6. was.at # d /\ d \in B
      BY <1>6, <3>4
    <3>7. /\ is.at \in B /\ Rank(N, order, was.at) < Rank(N, order, is.at)
          /\ Rank(N, order, is.at) =< Rank(N, order, d)
      <4>1. is.at = After(B, order, was.at)
        BY <1>3, <3>2, <3>5
      <4>2. N \in Nat /\ B \in SUBSET (1..N) /\ order \in BOOLEAN /\ d \in B
        BY <1>4, <3>6
      <4>3. /\ After(B, order, was.at) \in B
            /\ Rank(N, order, was.at) < Rank(N, order, After(B, order, was.at))
            /\ Rank(N, order, After(B, order, was.at)) =< Rank(N, order, d)
        BY ONLY <3>2, <3>6, <4>2, ChainReaches
      <4> QED BY <4>1, <4>3
    <3>8. Rank(N, order, is.at) \in Int /\ Rank(N, order, was.at) \in Int
      BY <1>4, <1>18, <3>2, <3>7
    <3> QED BY <3>2, <3>7, <3>8
  <2> HIDE DEF Ahead
  <2>7. Fine(is, n + 1) /\ n + 1 \in 0..L
    BY <1>17, <2>3, <2>5, <2>6
  <2> QED BY <2>7 DEF is
<1>13. Fine(found[L], L)
  <2> HIDE DEF S
  <2>1. \A n \in 0..L : n \in S
    BY <1>11, <1>12, <1>17, FromTheStart
  <2>2. L \in S
    BY <1>17, <2>1
  <2> QED BY <2>2 DEF S
<1>14. ASSUME NEW d \in 0..N, Matches(d, symbol) PROVE found[L].index # NotFound
  <2> SUFFICES ASSUME found[L].at \in B, Rank(N, order, found[L].at) >= N + 2 PROVE FALSE
    BY <1>13, <1>14, <1>17
  <2>1. found[L].at \in 1..N
    BY <1>4
  <2> QED BY <1>18, <2>1
<1>15. found[L].index \in 0..N \cup {NotFound}
  BY <1>13 DEF Walks
<1>16. Walk(hash[3 + (so_hash(symbol) % hash[1])], symbol) = found[L].index
  BY <1>3, <1>8 DEF head, b
<1> QED BY <1>1, <1>13, <1>14, <1>15, <1>16

LEMMA ScanFinds ==
    ASSUME NEW symbol, IsImage(dynsym)
    PROVE  /\ Scan(symbol) \in 0..Len(dynsym) - 1 \cup {NotFound}
           /\ Scan(symbol) # NotFound => Matches(Scan(symbol), symbol)
           /\ Scan(symbol) = NotFound => \A d \in 0..Len(dynsym) - 1 : ~Matches(d, symbol)
<1>1. PICK N \in Nat : N = Len(dynsym) - 1
  BY DEF IsImage
<1> DEFINE S == {p \in 0..N : Matches(p, symbol)}
           T == {p \in 1..N : Matches(p, symbol)}
<1>2. ~Matches(0, symbol)
  BY DEF Matches, IsImage, Undefined
<1>3. S = T
  BY <1>2
<1>4. Scan(symbol) = IF T = {} THEN NotFound ELSE CHOOSE p \in T : \A q \in T : p <= q
  <2>1. Scan(symbol) = IF S = {} THEN NotFound ELSE CHOOSE p \in S : \A q \in S : p <= q
    BY <1>1 DEF Scan
  <2> HIDE DEF S, T
  <2> QED BY <1>3, <2>1
<1>5. CASE T = {}
  BY <1>1, <1>3, <1>4, <1>5
<1>6. CASE T # {}
  <2>1. T \in SUBSET (1..N)
    OBVIOUS
  <2>2. Scan(symbol) = Least(T)
    BY <1>4, <1>6 DEF Least
  <2> HIDE DEF T
  <2>3. Scan(symbol) \in T
    BY <1>6, <2>1, <2>2, Extremes
  <2> QED BY <1>1, <2>3 DEF T, NotFound
<1> QED BY <1>5, <1>6

SymbolInv ==
    \/ dynsym = <<>> /\ hash = <<>> /\ sought = <<>>
    \/ /\ IsImage(dynsym)
       /\ \/ hash = <<>>
          \/ \E nbucket \in 1..MaxBuckets, order \in BOOLEAN :
                hash = HashTable(dynsym, nbucket, order)
       /\ SymbolFound

LEMMA SymbolStep == SymbolInv /\ [SymbolNext]_symbolVars => SymbolInv'
<1> SUFFICES ASSUME SymbolInv, [SymbolNext]_symbolVars PROVE SymbolInv'
  OBVIOUS
<1>1. CASE Sections
  <2>1. PICK n \in 0..MaxSymbols :
          \E s \in [1..n -> [name : SymbolNames, state : {"undefined", "untyped", "defined"}]] :
             dynsym' = <<Undefined>> \o s
    BY <1>1 DEF Sections
  <2>2. PICK s \in [1..n -> [name : SymbolNames, state : {"undefined", "untyped", "defined"}]] :
             dynsym' = <<Undefined>> \o s
    BY <2>1
  <2>3. n \in Nat
    BY SymbolAssumption
  <2>4. s \in Seq(SymbolRecord)
    <3>1. \A j \in 1..n : s[j] \in SymbolRecord
      BY <2>2, SymbolAssumption DEF SymbolRecord
    <3> QED BY <2>2, <2>3, <3>1
  <2>5. Undefined \in SymbolRecord
    BY DEF Undefined, SymbolRecord
  <2>6. IsImage(dynsym')
    <3>1. <<Undefined>> \in Seq(SymbolRecord)
      BY <2>5
    <3> HIDE DEF Undefined, SymbolRecord
    <3>2. dynsym' \in Seq(SymbolRecord)
      BY <2>2, <2>4, <3>1
    <3>3. Len(dynsym') >= 1 /\ dynsym'[1] = Undefined
      BY <2>2, <2>4, <3>1
    <3> QED BY <3>2, <3>3 DEF IsImage
  <2>7. sought = <<>> /\ UNCHANGED <<sought, answer, walked>>
    <3>1. dynsym = <<>> /\ UNCHANGED <<sought, answer, walked>>
      BY <1>1 DEF Sections
    <3>2. ~IsImage(dynsym)
      BY <3>1 DEF IsImage
    <3> QED BY <3>1, <3>2 DEF SymbolInv
  <2>8. SymbolFound'
    BY <2>7 DEF SymbolFound
  <2>9. \/ hash' = <<>>
        \/ \E nbucket \in 1..MaxBuckets, order \in BOOLEAN :
              hash' = HashTable(dynsym', nbucket, order)
    BY <1>1 DEF Sections
  <2> QED BY <2>6, <2>8, <2>9 DEF SymbolInv, IsImage
<1>2. CASE so_symbol_index
  <2>1. IsImage(dynsym) /\ UNCHANGED <<dynsym, hash>>
    BY <1>2 DEF so_symbol_index, SymbolInv
  <2>2. PICK symbol \in SymbolNames :
          LET index == IF hash = <<>> THEN NotFound
                       ELSE Walk(hash[3 + (so_hash(symbol) % hash[1])], symbol)
          IN  /\ sought' = symbol
              /\ answer' = IF index # NotFound THEN index ELSE Scan(symbol)
              /\ walked' = (index # NotFound)
    BY <1>2 DEF so_symbol_index
  <2> DEFINE index == IF hash = <<>> THEN NotFound
                      ELSE Walk(hash[3 + (so_hash(symbol) % hash[1])], symbol)
             Defined(d) == Matches(d, symbol)
  <2>3. symbol \in Seq(1..255)
    BY SymbolAssumption
  <2>4. PICK N \in Nat : N = Len(dynsym) - 1
    BY <2>1 DEF IsImage
  <2>5. hash # <<>> => /\ index \in 0..N \cup {NotFound}
                       /\ index # NotFound => Matches(index, symbol)
                       /\ index = NotFound => \A d \in 0..N : ~Matches(d, symbol)
    <3> SUFFICES ASSUME hash # <<>>
                 PROVE  /\ index \in 0..N \cup {NotFound}
                        /\ index # NotFound => Matches(index, symbol)
                        /\ index = NotFound => \A d \in 0..N : ~Matches(d, symbol)
      OBVIOUS
    <3>1. PICK nbucket \in 1..MaxBuckets, order \in BOOLEAN :
             hash = HashTable(dynsym, nbucket, order)
      BY <2>1 DEF SymbolInv, IsImage
    <3>2. nbucket \in Nat \ {0}
      BY SymbolAssumption
    <3>3. index = Walk(hash[3 + (so_hash(symbol) % hash[1])], symbol)
      OBVIOUS
    <3> HIDE DEF index
    <3> QED BY <2>1, <2>3, <2>4, <3>1, <3>2, <3>3, WalkFinds
  <2>6. /\ Scan(symbol) \in 0..N \cup {NotFound}
        /\ Scan(symbol) # NotFound => Matches(Scan(symbol), symbol)
        /\ Scan(symbol) = NotFound => \A d \in 0..N : ~Matches(d, symbol)
    BY <2>1, <2>4, ScanFinds
  <2>7. /\ sought' = symbol /\ walked' = (index # NotFound)
        /\ answer' = IF index # NotFound THEN index ELSE Scan(symbol)
    BY <2>2
  <2>8. hash = <<>> => index = NotFound
    OBVIOUS
  <2> HIDE DEF index
  <2>9. /\ answer' \in 0..N \cup {NotFound}
        /\ answer' # NotFound => Matches(answer', symbol) /\ (hash # <<>> => walked')
        /\ answer' = NotFound => \A d \in 0..N : ~Matches(d, symbol)
    BY <2>5, <2>6, <2>7, <2>8
  <2>10. SymbolFound'
    <3> DEFINE defines(p) == dynsym[p].state = "defined" /\ dynsym[p].name = symbol
    <3>1. \A d \in 0..N : Matches(d, symbol) <=> defines(d + 1)
      BY DEF Matches
    <3>2. answer' # NotFound => answer' \in 0..N /\ defines(answer' + 1) /\ (hash # <<>> => walked')
      BY <2>9, <3>1
    <3>3. answer' = NotFound => \A p \in 1..Len(dynsym) : ~defines(p)
      <4> SUFFICES ASSUME answer' = NotFound, NEW p \in 1..Len(dynsym) PROVE ~defines(p)
        OBVIOUS
      <4>1. p - 1 \in 0..N /\ (p - 1) + 1 = p
        BY <2>4
      <4> QED BY <2>9, <3>1, <4>1
    <3>4. answer' # NotFound => answer' + 1 \in 1..Len(dynsym)
      BY <2>4, <3>2
    <3> HIDE DEF defines
    <3>5. /\ answer' = NotFound <=> \A p \in 1..Len(dynsym) : ~defines(p)
          /\ answer' # NotFound => defines(answer' + 1) /\ (hash # <<>> => walked')
      BY <3>2, <3>3, <3>4
    <3> QED BY <2>1, <2>7, <3>5 DEF SymbolFound, defines
  <2> QED BY <2>1, <2>10 DEF SymbolInv
<1>3. CASE UNCHANGED symbolVars
  BY <1>3 DEF symbolVars, SymbolInv, SymbolFound
<1> QED BY <1>1, <1>2, <1>3 DEF SymbolNext

\* Every lookup is right, in any image, with any names, and at the width of the
\* code's hash as at any other: no name that the image defines is missed, none that
\* it imports is taken, and a hash table is never searched in vain.
THEOREM SymbolsAreFound == SymbolSpec => []SymbolFound
<1>1. SymbolInit => SymbolInv
  BY DEF SymbolInit, SymbolInv
<1>2. SymbolInv => SymbolFound
  BY DEF SymbolInv, SymbolFound
<1> QED BY <1>1, <1>2, SymbolStep, PTL DEF SymbolSpec

=============================================================================
