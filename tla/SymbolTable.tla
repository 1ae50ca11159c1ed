----------------------------- MODULE SymbolTable -----------------------------
(***************************************************************************)
(* How lib/so_util/so_util.c finds a symbol of the loaded image by name:   *)
(* main() looks up every function it hooks or calls this way.  A hash is a *)
(* word of 32 bits whose top nibble is folded back onto bits 4 to 7, which *)
(* leaves 28: HashSize is 2^28 there.                                      *)
(*                                                                         *)
(* External: the linker, which writes the symbols (the first is empty) and *)
(* the hash table with its own 32-bit hash, a chain in either order.       *)
(***************************************************************************)
EXTENDS Integers, Sequences

CONSTANTS SymbolNames,  \* names, as sequences of characters
          HashSize,     \* the hashes are 0..HashSize - 1
          MaxSymbols,   \* bound: symbols of an image, without the empty one
          MaxBuckets    \* bound: buckets of its hash table

ASSUME SymbolAssumption ==
    /\ SymbolNames \subseteq Seq(1..255)
    /\ HashSize \in Nat \ {0} /\ HashSize % 256 = 0
    /\ MaxSymbols \in Nat /\ MaxBuckets \in Nat \ {0}

VARIABLES dynsym,  \* the symbols, with their names: entry p is symbol p - 1
          hash,    \* the words of .hash, or <<>> when the image has none
          sought,  \* the name that was looked up last
          answer,  \* what so_symbol_index answered
          walked   \* history: the answer came from the hash table

symbolVars == <<dynsym, hash, sought, answer, walked>>

NotFound == -1
Undefined == [name |-> <<>>, state |-> "undefined"]

SymbolInit == dynsym = <<>> /\ hash = <<>> /\ sought = <<>> /\ answer = NotFound /\ walked = FALSE

-----------------------------------------------------------------------------
(* The linker.                                                             *)

HashWith(Step(_, _), name) ==
    LET h[p \in 0..Len(name)] == IF p = 0 THEN 0 ELSE Step(h[p - 1], name[p])
    IN  h[Len(name)]

NibbleXor(a, b) ==
    LET Bit(w) == w * ((a \div w + b \div w) % 2) IN Bit(1) + Bit(2) + Bit(4) + Bit(8)

\* k ^ (g << 4), for a nibble g.
Fold(k, g) == LET nibble == (k \div 16) % 16 IN k + 16 * (NibbleXor(nibble, g) - nibble)

\* The ABI's: in a word, the top nibble cleared with & ~g.
SysvStep(h, c) == LET k == (h * 16 + c) % (16 * HashSize)
                      g == k \div HashSize
                  IN  Fold(k, g) - g * HashSize

\* nbucket, nchain, the buckets, the chains.  `order' is TRUE if a later symbol
\* goes to the head of its chain.
HashTable(symbols, nbucket, order) ==
    LET N == Len(symbols) - 1
        Of(p) == HashWith(SysvStep, symbols[p + 1].name) % nbucket
        Bucket(b) == {p \in 1..N : Of(p) = b}
        Least(S) == IF S = {} THEN 0 ELSE CHOOSE p \in S : \A q \in S : p <= q
        Most(S) == IF S = {} THEN 0 ELSE CHOOSE p \in S : \A q \in S : p >= q
        Next(p) == IF order THEN Most({q \in Bucket(Of(p)) : q < p})
                   ELSE Least({q \in Bucket(Of(p)) : q > p})
    IN  <<nbucket, N + 1>>
        \o [b \in 1..nbucket |-> IF order THEN Most(Bucket(b - 1)) ELSE Least(Bucket(b - 1))]
        \o [p \in 1..N + 1 |-> IF p = 1 THEN 0 ELSE Next(p - 1)]

\* so_load finds .dynsym, and .hash if there is one.  A name is defined once.
Sections ==
    /\ dynsym = <<>>
    /\ \E n \in 0..MaxSymbols :
        \E s \in [1..n -> [name : SymbolNames, state : {"undefined", "untyped", "defined"}]] :
            /\ \A p, q \in 1..n : s[p].name = s[q].name /\ p # q =>
                                     "defined" \notin {s[p].state} \cap {s[q].state}
            /\ dynsym' = <<Undefined>> \o s
    /\ \/ hash' = <<>>
       \/ \E b \in 1..MaxBuckets, order \in BOOLEAN : hash' = HashTable(dynsym', b, order)
    /\ UNCHANGED <<sought, answer, walked>>

-----------------------------------------------------------------------------

\* A step of so_hash, in 64 bits: the carry is cut off by the mask.
SoHashStep(h, c) ==
    LET k == h * 16 + c
        g == (k \div HashSize) % 16
    IN  Fold(k, g) % HashSize

\* Mutant: an import of that name is taken for it.
Matches_Imports(p, symbol) ==
    dynsym[p + 1].state # "untyped" /\ dynsym[p + 1].name = symbol

Matches(p, symbol) == dynsym[p + 1].state = "defined" /\ dynsym[p + 1].name = symbol

\* Mutant: the nibble is not folded back.
so_hash_NoFold(name) ==
    LET Step(h, c) == (h * 16 + c) % HashSize IN HashWith(Step, name)

so_hash(name) == HashWith(SoHashStep, name)

\* The chain from p on: `chain' begins after the buckets.
Walk(p, symbol) ==
    LET chain(q) == hash[3 + hash[1] + q]
        Found[n \in 0..Len(dynsym)] ==
            \* the answer, and where the loop is, after n turns
            IF n = 0 THEN [at |-> p, index |-> NotFound]
            ELSE LET was == Found[n - 1]
                 IN  IF was.at = 0 \/ was.index # NotFound THEN was
                     ELSE IF Matches(was.at, symbol) THEN [was EXCEPT !.index = was.at]
                     ELSE [was EXCEPT !.at = chain(was.at)]
    IN  Found[Len(dynsym)].index

Scan(symbol) ==
    LET S == {p \in 0..Len(dynsym) - 1 : Matches(p, symbol)}
    IN  IF S = {} THEN NotFound ELSE CHOOSE p \in S : \A q \in S : p <= q

\* The hash table where there is one, and then all of them.
so_symbol_index ==
    /\ dynsym # <<>>
    /\ \E symbol \in SymbolNames :
        LET index == IF hash = <<>> THEN NotFound
                     ELSE Walk(hash[3 + (so_hash(symbol) % hash[1])], symbol)
        IN  /\ sought' = symbol
            /\ answer' = IF index # NotFound THEN index ELSE Scan(symbol)
            /\ walked' = (index # NotFound)
    /\ UNCHANGED <<dynsym, hash>>

SymbolNext == Sections \/ so_symbol_index

SymbolSpec == SymbolInit /\ [][SymbolNext]_symbolVars

-----------------------------------------------------------------------------
(* Property.                                                               *)

\* What main is given to hook or to call is the function of that name which the
\* image defines, never its import of another's; there is no answer only where
\* the image defines none; and the loader's hash, of a word that carries and is
\* folded, is the linker's, so that an image with a hash table is never searched
\* in vain.
SymbolFound ==
    sought # <<>> =>
        LET defines(p) == dynsym[p].state = "defined" /\ dynsym[p].name = sought
        IN  /\ answer = NotFound <=> \A p \in 1..Len(dynsym) : ~defines(p)
            /\ answer # NotFound => defines(answer + 1) /\ (hash # <<>> => walked)
=============================================================================
