----------------------------- MODULE MCStartup -----------------------------
(* Images of a text and up to three data segments over nine units of       *)
(* address, with pages of two units and room for two data segments, and    *)
(* images that begin with data or have two texts; one relocated word, since *)
(* words are independent.  Beside them, the lookup of names in images of    *)
(* three symbols with up to three buckets.                                  *)
EXTENDS MainStartup, SymbolTable

MCSeg(kinds) == [kind : kinds, vaddr : 0..6, memsz : 1..3]
MCText == [kind : {"text"}, vaddr : 0..1, memsz : 1..3]
MCAt(address, length) == [kind |-> "data", vaddr |-> address, memsz |-> length]

MCImages == {<<t>> : t \in MCText}
       \cup {<<d>> : d \in MCSeg({"data"})}
       \cup {<<t, d>> : t \in MCText, d \in MCSeg({"text", "data"})}
       \cup {<<t, d, e>> : t \in MCText, d \in MCSeg({"data"}), e \in MCSeg({"data"})}
       \cup {<<t, MCAt(2, d), MCAt(4, d), MCAt(6, d)>> : t \in MCText, d \in 1..2}

\* Two of the six save files, three of the eight digests; the table of known
\* digests is as long as the list, as in the code.
MCSaveFiles == <<"CCGameManager.dat", "CCLocalLevels.dat">>
MCDigests == <<"MD4", "MD5", "SHA1">>
MCFollowed == {<<[kind |-> "text", vaddr |-> 0, memsz |-> 1]>>}
MCChecked == {"MD5", "SHA1"}

\* The last is folded, carries out of the word, and shares a bucket or not.
MCSymbolNames == {<<65, 65>>, <<65, 66>>, <<255, 255, 255>>}

\* The lookup shares no variable with the rest, and reads nothing of it: it is
\* followed where the loader has not begun, with one image.
LookupStep == /\ pc = "check" /\ segs \in Followed /\ isElf /\ hasTables
              /\ SymbolNext /\ UNCHANGED startVars
StartupInit == StartInit /\ SymbolInit
StartupSpec ==
    /\ StartupInit
    /\ [][ \/ SymbolInit /\ StartNext /\ UNCHANGED symbolVars
           \/ LookupStep ]_<<startVars, symbolVars>>
UnwindStartup ==
    /\ StartupInit
    /\ [][SymbolInit /\ (LoadNext \/ FindExidx) /\ UNCHANGED symbolVars]_<<startVars, symbolVars>>

=============================================================================
