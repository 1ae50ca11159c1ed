-------------------------- MODULE FileBridgeProofs --------------------------
(***************************************************************************)
(* ErrnoBridge, for any table and any number of threads: each reads its own *)
(* error.  FileBridge, for any directories, files, seeds and numbers of     *)
(* calls: a seed is drawn once, and a name is one file by every call.       *)
(* ImportTable, for any number of objects: who makes one, serves and ends   *)
(* it.                                                                      *)
(***************************************************************************)
EXTENDS ErrnoBridge, FileBridge, ImportTable, SequenceTheorems, TLAPS

-----------------------------------------------------------------------------
(* ErrnoBridge.                                                            *)

\* An entry nobody stored into is as the table was made.
EntriesKept == \A c \in Listed \ stored : table[c] = Bionic[c]

ErrnoInv == ErrnoServes /\ EntriesKept

LEMMA CodesType ==
    /\ 0 \in Codes /\ ENOENT \in Codes /\ ENOENT \in Listed
    /\ Bionic \in [Listed -> Values] /\ 0 \in Values /\ -1 \notin Values
    /\ \A c \in Codes : Entry(c) \in Listed
    /\ Entry(ENOENT) = ENOENT
    /\ \A c \in Codes : Bionic[Entry(c)] = IF c \in Listed THEN Bionic[c] ELSE 0
<1>1. 0 \in Listed /\ ENOENT \in Listed /\ Bionic \in [Listed -> Nat] /\ Bionic[0] = 0
  BY CodesAssumption
<1>2. Bionic \in [Listed -> Values] /\ 0 \in Values /\ -1 \notin Values
  BY <1>1 DEF Values
<1> QED BY <1>1, <1>2 DEF Codes, Entry

LEMMA ErrnoInitially == Init => ErrnoInv
BY CodesType DEF Init, ErrnoInv, ErrnoServes, EntriesKept, TypeOK, ReadsOwnError,
                 FailedOpenHasError, CleanOpenIsENOENT, NoOpen

LEMMA ErrnoStep == ErrnoInv /\ [Next]_vars => ErrnoInv'
<1> SUFFICES ASSUME ErrnoInv, [Next]_vars PROVE ErrnoInv'
  OBVIOUS
<1> USE DEF ErrnoInv, ErrnoServes
<1>1. ASSUME NEW t \in Threads, Fail(t) PROVE ErrnoInv'
  <2>1. PICK c \in Codes \ {0} : errno' = [errno EXCEPT ![t] = c]
    BY <1>1 DEF Fail, SetErrno
  <2>2. /\ setter' = [setter EXCEPT ![t] = "library"] /\ seen' = [seen EXCEPT ![t] = -1]
        /\ open' = [open EXCEPT ![t] = NoOpen] /\ UNCHANGED <<table, stored>>
    BY <1>1 DEF Fail, SetBy
  <2>3. TypeOK'
    BY <2>1, <2>2, CodesType DEF TypeOK, NoOpen
  <2>4. ReadsOwnError' /\ EntriesKept'
    BY <2>1, <2>2 DEF TypeOK, ReadsOwnError, EntriesKept, __errno
  <2>5. FailedOpenHasError' /\ CleanOpenIsENOENT'
    BY <2>1, <2>2 DEF TypeOK, FailedOpenHasError, CleanOpenIsENOENT, NoOpen
  <2> QED BY <2>3, <2>4, <2>5
<1>2. ASSUME NEW t \in Threads, Read(t) PROVE ErrnoInv'
  <2>1. /\ seen' = [seen EXCEPT ![t] = table[__errno(t)]]
        /\ UNCHANGED <<errno, table, stored, setter, open>>
    BY <1>2 DEF Read
  <2>2. __errno(t) \in Listed /\ errno[t] \in Codes
    BY CodesType DEF __errno, TypeOK
  <2>3. TypeOK' /\ EntriesKept' /\ FailedOpenHasError'
    BY <2>1, <2>2 DEF TypeOK, EntriesKept, FailedOpenHasError
  <2>4. ReadsOwnError'
    BY <2>1, <2>2, CodesType DEF TypeOK, ReadsOwnError, EntriesKept, __errno
  <2>5. CleanOpenIsENOENT'
    BY <2>1, <2>3, <2>4, CodesType
       DEF TypeOK, CleanOpenIsENOENT, ReadsOwnError, __errno
  <2> QED BY <2>3, <2>4, <2>5
<1>3. ASSUME NEW t \in Threads, Store(t) PROVE ErrnoInv'
  <2>1. PICK v \in Values : table' = [table EXCEPT ![__errno(t)] = v]
    BY <1>3 DEF Store
  <2>2. /\ stored' = stored \cup {__errno(t)}
        /\ setter' = [setter EXCEPT ![t] = "game"] /\ seen' = [seen EXCEPT ![t] = -1]
        /\ open' = [open EXCEPT ![t] = NoOpen] /\ UNCHANGED errno
    BY <1>3 DEF Store, SetBy
  <2>3. __errno(t) \in Listed
    BY CodesType DEF __errno, TypeOK
  <2>4. TypeOK'
    BY <2>1, <2>2, <2>3, CodesType DEF TypeOK, NoOpen
  <2>5. EntriesKept'
    BY <2>1, <2>2, <2>3 DEF EntriesKept, TypeOK
  <2>6. ReadsOwnError'
    BY <2>2 DEF ReadsOwnError, TypeOK, __errno
  <2>7. FailedOpenHasError' /\ CleanOpenIsENOENT'
    BY <2>2 DEF TypeOK, FailedOpenHasError, CleanOpenIsENOENT, NoOpen
  <2> QED BY <2>4, <2>5, <2>6, <2>7
<1>4. ASSUME NEW t \in Threads, FopenFails(t) PROVE ErrnoInv'
  <2>1. PICK c \in Codes \ {0} :
          /\ errno' = [errno EXCEPT ![t] = c]
          /\ errno[t] = 0 => c = ENOENT
    BY <1>4, CodesType, CodesAssumption DEF FopenFails, SetErrno, TypeOK
  <2>2. /\ setter' = [setter EXCEPT ![t] = "library"] /\ seen' = [seen EXCEPT ![t] = -1]
        /\ open' = [open EXCEPT ![t] = [failed |-> TRUE, before |-> errno[t]]]
        /\ UNCHANGED <<table, stored>>
    BY <1>4 DEF FopenFails, SetBy
  <2>3. TypeOK'
    BY <2>1, <2>2 DEF TypeOK
  <2>4. ReadsOwnError' /\ EntriesKept'
    BY <2>1, <2>2 DEF TypeOK, ReadsOwnError, EntriesKept, __errno
  <2>5. FailedOpenHasError' /\ CleanOpenIsENOENT'
    BY <2>1, <2>2 DEF TypeOK, FailedOpenHasError, CleanOpenIsENOENT
  <2> QED BY <2>3, <2>4, <2>5
<1>5. CASE UNCHANGED vars
  BY <1>5 DEF vars, TypeOK, ReadsOwnError, EntriesKept, FailedOpenHasError,
              CleanOpenIsENOENT, __errno
<1> QED BY <1>1, <1>2, <1>3, <1>4, <1>5 DEF Next

\* However many threads fail, read and assign errno, each reads its own error
\* unless that entry was assigned, and a failed fopen_soloader left one to read.
THEOREM ErrnoHolds == Spec => []ErrnoServes
<1>1. ErrnoInv => ErrnoServes
  BY DEF ErrnoInv
<1> QED BY <1>1, ErrnoInitially, ErrnoStep, PTL DEF Spec

-----------------------------------------------------------------------------
(* Files.                                                                  *)

FileSpec == FileInit /\ [][FileNext]_fileVars

\* Where the card keeps the file of a name, and a song of the game.
Real(n) == Path(Data, 0, n)
Song(b) == Path(Assets, 0, b)

\* Every translation of every path of a name meets at one path of the card.
LEMMA PathsMeet ==
    /\ \A p \in Kept : /\ p.name \in Names
                       /\ ByName[p] = Real(p.name)
                       /\ ByFopen[p] = Real(p.name)
                       /\ ByFmod[p] = Real(p.name)
    /\ \A p \in Songs : p.name \in BuiltIn /\ ByFmod[p] = Song(p.name)
    /\ \A m, n : Real(m) = Real(n) => m = n
    /\ \A n, b : Real(n) # Song(b)
<1>0. ASSUME NEW d, NEW e, NEW k, NEW n
      PROVE  Collapse(Path(d, k, n)) = Path(d, 0, n) /\ In(e, Path(d, k, n)) = Path(e, k, n)
             /\ Path(d, k, n).dir = d /\ Path(d, k, n).name = n
  BY DEF Collapse, In, Path
<1>1. ASSUME NEW p \in Kept
      PROVE  /\ p.name \in Names /\ translate_path(p) = Real(p.name)
             /\ fopen_path(p) = Real(p.name) /\ fmod_translate_path(p) = Real(p.name)
  <2>1. PICK slashes \in 0..1, n \in Names : p = Path(Private, slashes, n)
    BY DEF Kept
  <2> QED BY <1>0, <2>1 DEF Real, translate_path, fopen_path, fmod_translate_path, Private,
                           Data, Assets
<1>2. ASSUME NEW p \in Songs PROVE p.name \in BuiltIn /\ fmod_translate_path(p) = Song(p.name)
  <2>1. PICK b \in BuiltIn : p = Path(PackageAssets, 0, b)
    BY DEF Songs
  <2> QED BY <1>0, <2>1 DEF Song, fmod_translate_path, PackageAssets, Private, Data, Assets
<1>3. /\ \A m, n : Real(m) = Real(n) => m = n
      /\ \A n, b : Real(n) # Song(b)
  BY DEF Real, Song, Path, Data, Assets
<1> QED BY <1>1, <1>2, <1>3 DEF ByName, ByFopen, ByFmod

\* The conversion of the flags loses none that an open for writing goes by.
LEMMA FlagsConverted ==
    ASSUME NEW f \in SUBSET {"CREAT", "TRUNC", "EXCL"}, NEW v
    PROVE  /\ Fails(v, oflags(f \cup {"WRONLY", "CLOEXEC"})) = Fails(v, f \cup {"WRONLY", "CLOEXEC"})
           /\ Opened(v, oflags(f \cup {"WRONLY", "CLOEXEC"})) = Opened(v, f \cup {"WRONLY", "CLOEXEC"})
<1> DEFINE flags == f \cup {"WRONLY", "CLOEXEC"}
<1>1. /\ "RDWR" \notin flags /\ "WRONLY" \in flags
      /\ "WRONLY" \in oflags(flags)
      /\ \A x \in {"CREAT", "TRUNC", "EXCL"} : x \in oflags(flags) <=> x \in flags
  BY DEF oflags, Passed
<1> HIDE DEF flags
<1>2. Fails(v, oflags(flags)) = Fails(v, flags) /\ Opened(v, oflags(flags)) = Opened(v, flags)
  BY <1>1 DEF Fails, Opened
<1> QED BY <1>2 DEF flags

\* What a content put at a path leaves at the others.
LEMMA PutHolds ==
    ASSUME NEW real, NEW v, card' = Put(real, v)
    PROVE  /\ \A q : Holds(q)' = IF q = real THEN v ELSE Holds(q)
           /\ DOMAIN card' = DOMAIN card \cup {real}
BY DEF Holds, Put

\* What a name holds on the card is what it would hold on Android, and the songs
\* of the game are there.
CardAsMeant ==
    /\ \A n \in Names : Holds(Real(n)) = meant[n]
    /\ \A b \in BuiltIn : Holds(Song(b)) # Missing

\* The files' part of the types.
FilesTyped ==
    /\ writes \in 0..MaxWrites
    /\ \A p \in DOMAIN card : card[p] \in Int
    /\ meant \in [Names -> Int]
    /\ refusal \in [got : BOOLEAN, due : BOOLEAN]

FilesInv == FilesTyped /\ CardAsMeant /\ RefusedAsOnAndroid

LEMMA FilesStart == FileInit => FilesInv
<1> SUFFICES ASSUME FileInit PROVE FilesInv
  OBVIOUS
<1>1. card = [p \in {Song(b) : b \in BuiltIn} |-> 1] /\ meant = [n \in Names |-> Missing]
      /\ writes = 1 /\ refusal = Agreed
  BY DEF FileInit, Song
<1>2. \A n \in Names : Real(n) \notin DOMAIN card
  BY <1>1, PathsMeet
<1>3. \A b \in BuiltIn : Song(b) \in DOMAIN card /\ card[Song(b)] = 1
  BY <1>1
<1>4. CardAsMeant
  BY <1>1, <1>2, <1>3 DEF CardAsMeant, Holds, Missing
<1>5. FilesTyped
  <2>1. meant \in [Names -> Int] /\ writes \in 0..MaxWrites /\ \A p \in DOMAIN card : card[p] \in Int
    BY <1>1, BoundsAssumption DEF Missing
  <2>2. refusal \in [got : BOOLEAN, due : BOOLEAN]
    BY <1>1 DEF Agreed
  <2> QED BY <2>1, <2>2 DEF FilesTyped
<1> QED BY <1>1, <1>4, <1>5 DEF FilesInv, RefusedAsOnAndroid, Agreed

\* A call that puts one content under a name, here and on Android.
LEMMA PutKeeps ==
    ASSUME FilesInv, NEW n \in Names, NEW v \in Int, card' = Put(Real(n), v),
           meant' = [meant EXCEPT ![n] = v]
    PROVE  CardAsMeant' /\ meant' \in [Names -> Int] /\ \A p \in DOMAIN card' : card'[p] \in Int
<1> USE DEF FilesInv, FilesTyped
<1>1. /\ \A q : Holds(q)' = IF q = Real(n) THEN v ELSE Holds(q)
      /\ DOMAIN card' = DOMAIN card \cup {Real(n)}
  BY PutHolds
<1>2. \A m \in Names : Holds(Real(m))' = meant'[m]
  BY <1>1, PathsMeet DEF CardAsMeant
<1>3. \A b \in BuiltIn : Holds(Song(b))' # Missing
  BY <1>1, PathsMeet DEF CardAsMeant
<1>4. \A p \in DOMAIN card' : card'[p] \in Int
  BY <1>1 DEF Holds
<1> QED BY <1>2, <1>3, <1>4 DEF CardAsMeant

LEMMA AnswerAgrees ==
    ASSUME NEW b \in BOOLEAN, Answer(b, b)
    PROVE  refusal' \in [got : BOOLEAN, due : BOOLEAN] /\ RefusedAsOnAndroid'
BY DEF Answer, RefusedAsOnAndroid

LEMMA OpenKeeps ==
    ASSUME FilesInv, NEW p \in Kept, Open(p)
    PROVE  FilesInv'
<1> USE DEF FilesInv, FilesTyped
<1>0. PICK flags0 \in {f \cup {"WRONLY", "CLOEXEC"} : f \in SUBSET {"CREAT", "TRUNC", "EXCL"}},
           fill \in BOOLEAN :
        LET real == ByName[p]
            here == Holds(real)  there == meant[NameOf(p)]
            got == ~Fails(here, oflags(flags0))  due == ~Fails(there, flags0)
            new == writes + 1
        IN /\ fill => new <= MaxWrites
           /\ writes' = IF fill THEN new ELSE writes
           /\ card' = IF got
                      THEN Put(real, IF fill THEN new ELSE Opened(here, oflags(flags0)))
                      ELSE card
           /\ meant' = IF due
                       THEN [meant EXCEPT ![NameOf(p)] = IF fill THEN new ELSE Opened(@, flags0)]
                       ELSE meant
           /\ Answer(got, due)
  BY DEF Open
<1>1. PICK f \in SUBSET {"CREAT", "TRUNC", "EXCL"} : flags0 = f \cup {"WRONLY", "CLOEXEC"}
  OBVIOUS
<1> DEFINE flags == f \cup {"WRONLY", "CLOEXEC"}
<1> DEFINE there == meant[p.name]
<1> DEFINE due == ~Fails(there, flags)
<1> DEFINE v == IF fill THEN writes + 1 ELSE Opened(there, flags)
<1>2. p.name \in Names /\ Holds(Real(p.name)) = there /\ there \in Int
  BY PathsMeet DEF CardAsMeant
<1>3. /\ Fails(there, oflags(flags)) = Fails(there, flags)
      /\ Opened(there, oflags(flags)) = Opened(there, flags)
  BY FlagsConverted
<1>4. due \in BOOLEAN /\ v \in Int
  BY <1>2, BoundsAssumption DEF Fails, Opened, Empty, Missing
<1> HIDE DEF flags
<1>5. /\ fill => writes + 1 <= MaxWrites
      /\ writes' = IF fill THEN writes + 1 ELSE writes
      /\ card' = IF due THEN Put(Real(p.name), v) ELSE card
      /\ meant' = IF due THEN [meant EXCEPT ![p.name] = v] ELSE meant
      /\ Answer(due, due)
  <2>1. flags0 = flags /\ ByName[p] = Real(p.name) /\ NameOf(p) = p.name
    BY <1>1, PathsMeet DEF flags, NameOf
  <2> QED BY <1>0, <1>2, <1>3, <2>1
<1> HIDE DEF there, due, v
<1>6. writes' \in 0..MaxWrites
  BY <1>5, BoundsAssumption
<1>7. CardAsMeant' /\ meant' \in [Names -> Int] /\ \A q \in DOMAIN card' : card'[q] \in Int
  <2>1. CASE due
    <3>1. card' = Put(Real(p.name), v) /\ meant' = [meant EXCEPT ![p.name] = v]
      BY <1>5, <2>1
    <3> QED BY <1>2, <1>4, <3>1, PutKeeps
  <2>2. CASE ~due
    BY <1>5, <2>2 DEF CardAsMeant, Holds
  <2> QED BY <2>1, <2>2
<1> QED BY <1>4, <1>5, <1>6, <1>7, AnswerAgrees

LEMMA SaveKeeps ==
    ASSUME FilesInv, NEW p \in Kept, Save(p)
    PROVE  FilesInv'
<1> USE DEF FilesInv, FilesTyped
<1>1. /\ writes < MaxWrites /\ writes' = writes + 1
      /\ card' = Put(Real(p.name), writes + 1)
      /\ meant' = [meant EXCEPT ![p.name] = writes + 1] /\ Answer(TRUE, TRUE)
  BY PathsMeet DEF Save, NameOf
<1>2. p.name \in Names /\ writes + 1 \in Int /\ writes' \in 0..MaxWrites
  BY <1>1, PathsMeet, BoundsAssumption
<1> QED BY <1>1, <1>2, PutKeeps, AnswerAgrees

LEMMA RemoveKeeps ==
    ASSUME FilesInv, NEW p \in Kept, RemoveFile(p)
    PROVE  FilesInv'
<1> USE DEF FilesInv, FilesTyped
<1>1. /\ card' = [q \in DOMAIN card \ {Real(p.name)} |-> card[q]]
      /\ meant' = [meant EXCEPT ![p.name] = Missing]
      /\ Answer(Holds(Real(p.name)) # Missing, meant[p.name] # Missing)
      /\ UNCHANGED writes
  BY PathsMeet DEF RemoveFile, NameOf
<1>2. p.name \in Names /\ Holds(Real(p.name)) = meant[p.name]
  BY PathsMeet DEF CardAsMeant
<1>3. \A q : Holds(q)' = IF q = Real(p.name) THEN Missing ELSE Holds(q)
  BY <1>1 DEF Holds
<1>4. \A n \in Names : Holds(Real(n))' = meant'[n]
  BY <1>1, <1>2, <1>3, PathsMeet DEF CardAsMeant
<1>5. \A b \in BuiltIn : Holds(Song(b))' # Missing
  BY <1>3, PathsMeet DEF CardAsMeant
<1>6. meant' \in [Names -> Int] /\ \A q \in DOMAIN card' : card'[q] \in Int
  <2>1. meant' \in [Names -> Int]
    BY <1>1, <1>2 DEF Missing
  <2>2. \A q \in DOMAIN card' : q \in DOMAIN card /\ card'[q] = card[q]
    BY <1>1
  <2> QED BY <2>1, <2>2
<1>7. (meant[p.name] # Missing) \in BOOLEAN
  OBVIOUS
<1>8. refusal' \in [got : BOOLEAN, due : BOOLEAN] /\ RefusedAsOnAndroid'
  BY <1>1, <1>2, <1>7, AnswerAgrees
<1> QED BY <1>1, <1>4, <1>5, <1>6, <1>8 DEF CardAsMeant

LEMMA RenameKeeps ==
    ASSUME FilesInv, NEW p \in Kept, NEW q \in Kept, RenameFile(p, q)
    PROVE  FilesInv'
<1> USE DEF FilesInv, FilesTyped
<1> DEFINE old == Real(p.name)
<1> DEFINE new == Real(q.name)
<1>1. /\ p.name # q.name
      /\ IF Holds(old) = Missing THEN card' = card
         ELSE card' = [r \in (DOMAIN card \cup {new}) \ {old} |->
                         IF r = new THEN card[old] ELSE card[r]]
      /\ IF meant[p.name] = Missing THEN meant' = meant
         ELSE meant' = [meant EXCEPT ![q.name] = meant[p.name], ![p.name] = Missing]
      /\ Answer(Holds(old) # Missing, meant[p.name] # Missing)
      /\ UNCHANGED writes
  BY SMTT(30), PathsMeet DEF RenameFile, NameOf
<1>2. p.name \in Names /\ q.name \in Names /\ Holds(old) = meant[p.name] /\ old # new
  BY <1>1, PathsMeet DEF CardAsMeant
<1>3. (meant[p.name] # Missing) \in BOOLEAN
  OBVIOUS
<1>4. refusal' \in [got : BOOLEAN, due : BOOLEAN] /\ RefusedAsOnAndroid'
  BY <1>1, <1>2, <1>3, AnswerAgrees
<1>5. CASE Holds(old) = Missing
  BY <1>1, <1>2, <1>4, <1>5 DEF CardAsMeant, Holds
<1>6. CASE Holds(old) # Missing
  <2>1. /\ card' = [r \in (DOMAIN card \cup {new}) \ {old} |->
                      IF r = new THEN card[old] ELSE card[r]]
        /\ meant' = [meant EXCEPT ![q.name] = meant[p.name], ![p.name] = Missing]
        /\ old \in DOMAIN card
    BY <1>1, <1>2, <1>6 DEF Holds
  <2>2. \A r : Holds(r)' = IF r = old THEN Missing
                           ELSE IF r = new THEN Holds(old) ELSE Holds(r)
    BY <1>2, <2>1 DEF Holds
  <2>3. \A n \in Names : meant'[n] = IF n = p.name THEN Missing
                                     ELSE IF n = q.name THEN meant[p.name] ELSE meant[n]
    BY <1>1, <1>2, <2>1
  <2>4. \A n \in Names : Holds(Real(n))' = meant'[n]
    BY <1>2, <2>2, <2>3, PathsMeet DEF CardAsMeant
  <2>5. \A b \in BuiltIn : Holds(Song(b))' # Missing
    BY <2>2, PathsMeet DEF CardAsMeant
  <2>6. meant' \in [Names -> Int] /\ \A r \in DOMAIN card' : card'[r] \in Int
    BY <1>2, <2>1 DEF Missing
  <2> QED BY <1>1, <1>4, <2>4, <2>5, <2>6 DEF CardAsMeant
<1> QED BY <1>5, <1>6

LEMMA FilesKept == FilesInv /\ [FileNext]_fileVars => FilesInv'
<1> SUFFICES ASSUME FilesInv, [FileNext]_fileVars PROVE FilesInv'
  OBVIOUS
<1>1. CASE FileCalls
  BY <1>1, OpenKeeps, SaveKeeps, RemoveKeeps, RenameKeeps DEF FileCalls
<1>2. CASE UNCHANGED files
  BY <1>2 DEF files, FilesInv, FilesTyped, CardAsMeant, RefusedAsOnAndroid, Holds
<1> QED BY <1>1, <1>2 DEF FileNext, fileVars

-----------------------------------------------------------------------------
(* /dev/urandom.                                                           *)

\* The device's part of the types.
RandomTyped ==
    /\ stage \in [Readers -> Stages]
    /\ pool \in [Readers -> 0..MaxOpens]
    /\ \A t \in Readers : stage[t] \in {"made", "cleared"} => pool[t] # 0
    /\ seed \in {Missing, Empty} \cup 1..MaxOpens
    /\ rolls \in 0..MaxOpens
    /\ excused \in [Readers -> BOOLEAN]
    /\ drawn \in Seq({Missing, Empty} \cup 1..MaxOpens)

\* An open that is not excused is the only one.
Alone == \A t, u \in Readers : stage[t] # "idle" /\ ~excused[t] /\ stage[u] # "idle" => u = t

\* A pool that was made, and was drawn by nobody yet.
Fresh(v) == v \in 1..rolls /\ \A i \in 1..Len(drawn) : drawn[i] # v

\* It holds such a pool from the moment it is made, and from the write on the
\* seed file does.
PoolFresh ==
    \A t \in Readers : ~excused[t] =>
        /\ stage[t] \in {"made", "cleared"} => Fresh(pool[t])
        /\ stage[t] \in {"ready", "reading"} => Fresh(seed)

\* What was drawn are pools that were made, each once.
DrawnOnce == /\ \A i \in 1..Len(drawn) : drawn[i] \in 1..rolls
             /\ \A i, j \in 1..Len(drawn) : drawn[i] = drawn[j] => i = j

SeedInv == RandomTyped /\ Alone /\ PoolFresh /\ DrawnOnce

LEMMA SeedStarts == FileInit => SeedInv
<1> SUFFICES ASSUME FileInit PROVE SeedInv
  OBVIOUS
<1>1. /\ \A t \in Readers : stage[t] = "idle"
      /\ stage \in [Readers -> Stages] /\ excused \in [Readers -> BOOLEAN]
  BY DEF FileInit, Stages
<1>2. pool \in [Readers -> 0..MaxOpens] /\ rolls \in 0..MaxOpens
  BY BoundsAssumption DEF FileInit
<1>3. seed \in {Missing, Empty} \cup 1..MaxOpens
  BY DEF FileInit
<1>4. drawn \in Seq({Missing, Empty} \cup 1..MaxOpens) /\ Len(drawn) = 0
  BY DEF FileInit
<1> QED BY <1>1, <1>2, <1>3, <1>4 DEF SeedInv, RandomTyped, Alone, PoolFresh, DrawnOnce

LEMMA OpenDeviceKeeps ==
    ASSUME SeedInv, NEW t \in Readers, OpenDevice(t)
    PROVE  SeedInv'
<1> USE DEF SeedInv, RandomTyped
<1>1. /\ stage[t] = "idle" /\ stage' = [stage EXCEPT ![t] = "opening"]
      /\ \A u \in Readers : excused'[u] = IF u \in Overlap(t) THEN TRUE ELSE u # t /\ excused[u]
      /\ excused' \in [Readers -> BOOLEAN]
      /\ UNCHANGED <<pool, seed, rolls, drawn>>
  BY DEF OpenDevice, To
<1>2. stage' \in [Readers -> Stages] /\ stage'[t] = "opening"
      /\ \A u \in Readers : u # t => stage'[u] = stage[u]
  BY <1>1 DEF Stages
<1>3. \A u \in Readers : u # t /\ stage[u] # "idle" => excused'[u] /\ excused'[t]
  BY <1>1 DEF Overlap, Busy
<1>4. Alone'
  BY <1>1, <1>2, <1>3 DEF Alone
<1>5. PoolFresh'
  <2>1. \A u \in Readers : ~excused'[u] => u = t \/ stage'[u] = "idle"
    BY <1>2, <1>3
  <2> QED BY <1>2, <2>1 DEF PoolFresh
<1>6. RandomTyped' /\ DrawnOnce'
  BY <1>1, <1>2 DEF DrawnOnce
<1> QED BY <1>4, <1>5, <1>6

LEMMA MakePoolKeeps ==
    ASSUME SeedInv, NEW t \in Readers, MakePool(t)
    PROVE  SeedInv'
<1> USE DEF SeedInv, RandomTyped
<1>1. /\ stage[t] = "opening" /\ rolls < MaxOpens /\ rolls' = rolls + 1
      /\ pool' = [pool EXCEPT ![t] = rolls + 1] /\ stage' = [stage EXCEPT ![t] = "made"]
      /\ UNCHANGED <<seed, excused, drawn>>
  BY DEF MakePool, To
<1>2. /\ stage' \in [Readers -> Stages] /\ stage'[t] = "made" /\ pool'[t] = rolls + 1
      /\ \A u \in Readers : u # t => stage'[u] = stage[u] /\ pool'[u] = pool[u]
  BY <1>1 DEF Stages
<1>3. rolls' \in 0..MaxOpens /\ rolls + 1 \in 1..rolls' /\ \A v \in 1..rolls : v \in 1..rolls' /\ v # rolls + 1
  BY <1>1, BoundsAssumption
<1>4. Alone'
  BY <1>1, <1>2 DEF Alone
<1>5. DrawnOnce'
  BY <1>1, <1>3 DEF DrawnOnce
<1>6. PoolFresh'
  <2>1. \A u \in Readers : ~excused'[u] /\ u # t => stage'[u] = "idle"
    BY <1>1, <1>2 DEF Alone
  <2>2. pool'[t] \in 1..rolls' /\ \A i \in 1..Len(drawn') : drawn'[i] # pool'[t]
    BY <1>1, <1>2, <1>3 DEF DrawnOnce
  <2> QED BY <1>2, <2>1, <2>2 DEF PoolFresh, Fresh
<1>7. RandomTyped'
  <2>1. pool' \in [Readers -> 0..MaxOpens] /\ \A u \in Readers : stage'[u] \in {"made", "cleared"} => pool'[u] # 0
    BY <1>1, <1>2, <1>3
  <2> QED BY <1>1, <1>2, <1>3, <2>1
<1> QED BY <1>4, <1>5, <1>6, <1>7

\* What moves one open along, without a pool or a seed.
LEMMA MovesOn ==
    ASSUME SeedInv, NEW t \in Readers, NEW s \in Stages, stage[t] # "idle",
           stage' = [stage EXCEPT ![t] = s], UNCHANGED <<pool, rolls, drawn>>,
           excused' \in [Readers -> BOOLEAN],
           \A u \in Readers : ~excused'[u] => ~excused[u],
           seed' \in {Missing, Empty} \cup 1..MaxOpens,
           s \in {"made", "cleared"} => stage[t] \in {"made", "cleared"},
           s \in {"ready", "reading"} /\ ~excused'[t] => Fresh(seed')
    PROVE  SeedInv'
<1> USE DEF SeedInv, RandomTyped
<1>1. /\ stage' \in [Readers -> Stages] /\ stage'[t] = s
      /\ \A u \in Readers : u # t => stage'[u] = stage[u]
  OBVIOUS
<1>2. Alone'
  BY <1>1 DEF Alone
<1>3. PoolFresh'
  <2>1. \A u \in Readers : ~excused'[u] /\ u # t => stage'[u] = "idle"
    BY <1>1 DEF Alone
  <2>2. ~excused'[t] => /\ stage'[t] \in {"made", "cleared"} => Fresh(pool[t])
                        /\ stage'[t] \in {"ready", "reading"} => Fresh(seed')
    BY <1>1 DEF PoolFresh
  <2>3. \A v : Fresh(v) => v \in 1..rolls' /\ \A i \in 1..Len(drawn') : drawn'[i] # v
    BY DEF Fresh
  <2> QED BY <1>1, <2>1, <2>2, <2>3 DEF PoolFresh, Fresh
<1>4. RandomTyped' /\ DrawnOnce'
  BY <1>1 DEF DrawnOnce
<1> QED BY <1>2, <1>3, <1>4

LEMMA SeedWritten ==
    ASSUME SeedInv, NEW t \in Readers,
           ClearSeed(t) \/ ClearRefused(t) \/ FillSeed(t) \/ OpenSeed(t)
    PROVE  SeedInv'
<1> USE DEF SeedInv, RandomTyped
<1>1. CASE ClearSeed(t)
  <2>1. "cleared" \in Stages /\ seed' \in {Missing, Empty} \cup 1..MaxOpens
    BY <1>1 DEF ClearSeed, Stages
  <2> QED BY <1>1, <2>1, MovesOn DEF ClearSeed, To
<1>2. CASE ClearRefused(t)
  <2>1. "ready" \in Stages /\ excused'[t] /\ excused' \in [Readers -> BOOLEAN]
        /\ \A u \in Readers : ~excused'[u] => ~excused[u]
    BY <1>2 DEF ClearRefused, Stages
  <2> QED BY <1>2, <2>1, MovesOn DEF ClearRefused, To
<1>3. CASE FillSeed(t)
  <2>1. "ready" \in Stages /\ seed' \in {Missing, Empty} \cup 1..MaxOpens
    <3>1. pool[t] \in 1..MaxOpens
      BY <1>3, BoundsAssumption DEF FillSeed
    <3> QED BY <1>3, <3>1 DEF FillSeed, Stages
  <2>2. /\ ~excused'[t] => Fresh(seed')
        /\ excused' \in [Readers -> BOOLEAN] /\ \A u \in Readers : ~excused'[u] => ~excused[u]
    BY <1>3 DEF FillSeed, PoolFresh
  <2> QED BY <1>3, <2>1, <2>2, MovesOn DEF FillSeed, To
<1>4. CASE OpenSeed(t)
  <2>1. PICK s \in {"idle", "reading"} : stage' = [stage EXCEPT ![t] = s]
    BY <1>4 DEF OpenSeed, To
  <2>2. s \in Stages /\ (~excused'[t] => Fresh(seed'))
    BY <1>4 DEF OpenSeed, PoolFresh, Stages
  <2> QED BY <1>4, <2>1, <2>2, MovesOn DEF OpenSeed
<1> QED BY <1>1, <1>2, <1>3, <1>4

LEMMA ReadSeedKeeps ==
    ASSUME SeedInv, NEW t \in Readers, ReadSeed(t)
    PROVE  SeedInv'
<1> USE DEF SeedInv, RandomTyped
<1>1. /\ stage[t] = "reading" /\ stage' = [stage EXCEPT ![t] = "idle"]
      /\ drawn' = IF excused[t] THEN drawn ELSE Append(drawn, seed)
      /\ UNCHANGED <<pool, seed, rolls, excused>>
  BY DEF ReadSeed, To
<1>2. CASE excused[t]
  BY <1>1, <1>2, MovesOn DEF Stages
<1>3. CASE ~excused[t]
  <2>1. Fresh(seed) /\ \A u \in Readers : ~excused[u] => u = t \/ stage[u] = "idle"
    BY <1>1, <1>3 DEF PoolFresh, Alone
  <2>2. /\ stage' \in [Readers -> Stages] /\ stage'[t] = "idle"
        /\ \A u \in Readers : u # t => stage'[u] = stage[u]
    BY <1>1 DEF Stages
  <2>3. /\ drawn' \in Seq({Missing, Empty} \cup 1..MaxOpens) /\ Len(drawn') = Len(drawn) + 1
        /\ drawn'[Len(drawn) + 1] = seed
        /\ \A i \in 1..Len(drawn) : drawn'[i] = drawn[i]
        /\ Len(drawn) \in Nat
    <3> DEFINE S == {Missing, Empty} \cup 1..MaxOpens
    <3>1. drawn \in Seq(S) /\ seed \in S /\ drawn' = Append(drawn, seed)
      BY <1>1, <1>3
    <3> HIDE DEF S
    <3>2. /\ drawn' \in Seq(S) /\ Len(drawn') = Len(drawn) + 1
          /\ drawn'[Len(drawn) + 1] = seed
          /\ \A i \in 1..Len(drawn) : drawn'[i] = drawn[i]
          /\ Len(drawn) \in Nat
      BY <3>1
    <3> QED BY <3>2 DEF S
  <2>4. \A i \in 1..Len(drawn') : i \in 1..Len(drawn) \/ i = Len(drawn) + 1
    BY <2>3
  <2>5. DrawnOnce'
    BY <1>1, <2>1, <2>3, <2>4 DEF DrawnOnce, Fresh
  <2>6. PoolFresh'
    BY <1>1, <2>1, <2>2 DEF PoolFresh
  <2>7. Alone'
    BY <1>1, <2>2 DEF Alone
  <2>8. RandomTyped'
    BY <1>1, <2>2, <2>3
  <2> QED BY <2>5, <2>6, <2>7, <2>8
<1> QED BY <1>2, <1>3

LEMMA SeedKept == SeedInv /\ [FileNext]_fileVars => SeedInv'
<1> SUFFICES ASSUME SeedInv, [FileNext]_fileVars PROVE SeedInv'
  OBVIOUS
<1>1. CASE Restart
  <2>1. /\ stage' \in [Readers -> Stages] /\ pool' \in [Readers -> 0..MaxOpens]
        /\ \A t \in Readers : stage'[t] = "idle"
        /\ UNCHANGED <<seed, rolls, excused, drawn>>
    BY <1>1, BoundsAssumption DEF Restart, Stages
  <2> QED BY <2>1 DEF SeedInv, RandomTyped, Alone, PoolFresh, DrawnOnce
<1>2. CASE UNCHANGED random
  BY <1>2 DEF random, SeedInv, RandomTyped, Alone, PoolFresh, DrawnOnce, Fresh
<1> QED BY <1>1, <1>2, OpenDeviceKeeps, MakePoolKeeps, SeedWritten, ReadSeedKeeps
        DEF FileNext, DeviceCalls, fileVars

\* However many threads open /dev/urandom, and wherever the process ends: opens that
\* overlapped no other, and whose writing the card did not fail, read bytes nobody
\* read before.
THEOREM SeedsAlwaysFresh == FileSpec => []SeedsFresh
<1>1. SeedInv => SeedsFresh
  <2> SUFFICES ASSUME SeedInv PROVE SeedsFresh
    OBVIOUS
  <2>1. DOMAIN drawn = 1..Len(drawn) /\ rolls \in Nat
    BY DEF SeedInv, RandomTyped
  <2>2. \A i \in DOMAIN drawn : drawn[i] # Empty /\ drawn[i] # Missing
    BY <2>1 DEF SeedInv, DrawnOnce, Empty, Missing
  <2>3. Empty \notin ToSet(drawn) /\ Missing \notin ToSet(drawn)
    BY <2>2 DEF ToSet
  <2>4. IsInjective(drawn)
    BY <2>1 DEF IsInjective, SeedInv, DrawnOnce
  <2> QED BY <2>3, <2>4 DEF SeedsFresh
<1> QED BY <1>1, SeedStarts, SeedKept, PTL DEF FileSpec

\* For any names, songs and writes: a name is one file by every call and every path
\* of the game, and an open, a remove or a rename is refused when Android would.
THEOREM FilesHold == FileSpec => []FilesAsOnAndroid
<1>1. FilesInv /\ SeedInv => FilesAsOnAndroid
  <2> SUFFICES ASSUME FilesInv, SeedInv PROVE FilesAsOnAndroid
    OBVIOUS
  <2>1. FileTypeOK
    BY DEF FilesInv, FilesTyped, SeedInv, RandomTyped, FileTypeOK
  <2>2. OneFileByEveryPath
    BY PathsMeet DEF FilesInv, CardAsMeant, OneFileByEveryPath, NameOf
  <2> QED BY <2>1, <2>2 DEF FilesAsOnAndroid, FilesInv
<1> QED BY <1>1, FilesStart, FilesKept, SeedStarts, SeedKept, PTL DEF FileSpec

-----------------------------------------------------------------------------
(* The import table.                                                       *)

\* The library that makes and takes the objects of a kind, streams aside.
Owned(by, kind) ==
    \/ by = "newlib" /\ kind \in {"memory", "descriptor", "directory", "addresses", "pthread",
                                 "rwlock", "semaphore", "key"}
    \/ by = "libstdc++" /\ kind = "exception"
    \/ by = "zlib" /\ kind \in {"deflation", "gzfile"}
    \/ by = "stub" /\ kind = "library"
    \/ by = "vitaGL" /\ kind \in {"shader", "program", "GL buffer", "context"}
    \/ by = "FMOD" /\ kind \in {"sound", "DSP"}

\* A row keeps to the owners: of the streams too, as far as they have one.
KeepsOwner(sce, r) ==
    /\ r.takes = None \/ Owned(r.by, r.takes) \/ (sce = TRUE /\ r.call = "fdopen")
       \/ (r.takes = "stream" /\ (r.by = Std(sce) \/ (r.by = "newlib" /\ r.call \in StillNewlib)))
    /\ r.gives = None \/ Owned(r.by, r.gives) \/ (r.gives = "stream" /\ r.by \in {Std(sce), "newlib"})

\* For each kind an import that ends its objects, and the section it is in.
Enders == {"__cxa_end_catch", "_ZdlPv", "freeaddrinfo", "fclose", "close", "closedir",
           "eglDestroyContext", "glDeleteBuffers", "glDeleteProgram", "glDeleteShader",
           "pthread_join", "sem_destroy", "pthread_key_delete", "dlclose", "deflateEnd",
           "gzclose", "pthread_rwlock_destroy", "Sound::release", "DSP::release"}
Home(call) ==
    IF call \in {"__cxa_end_catch", "_ZdlPv"} THEN 1
    ELSE IF call = "freeaddrinfo" THEN 5
    ELSE IF call \in {"fclose", "close", "closedir"} THEN 7
    ELSE IF call = "eglDestroyContext" THEN 11
    ELSE IF call \in {"glDeleteBuffers", "glDeleteProgram", "glDeleteShader"} THEN 12
    ELSE IF call \in {"pthread_join", "sem_destroy", "pthread_key_delete"} THEN 14
    ELSE IF call = "dlclose" THEN 16
    ELSE IF call \in {"deflateEnd", "gzclose"} THEN 23
    ELSE IF call = "pthread_rwlock_destroy" THEN 24
    ELSE 25

\* What is said of the rows of a sort.
LEMMA Rows ==
    /\ \A calls, by : \A r \in Plain(calls, by) :
          r.call \in calls /\ r.by = by /\ r.takes = None /\ r.gives = None
    /\ \A calls, by, kind : \A r \in Make(calls, by, kind) :
          r.call \in calls /\ r.by = by /\ r.takes = None /\ r.gives = kind
    /\ \A calls, by, kind : \A r \in Use(calls, by, kind) :
          r.call \in calls /\ r.by = by /\ r.takes = kind /\ r.gives = None
    /\ \A calls, by, kind : \A r \in End(calls, by, kind) :
          r.call \in calls /\ r.by = by /\ r.takes = kind /\ r.gives = None
    /\ \A calls, by, kind, to : \A r \in Turn(calls, by, kind, to) :
          r.call \in calls /\ r.by = by /\ r.takes = kind /\ r.gives = to
BY DEF Plain, Make, Use, End, Turn, Row

LEMMA RowNames ==
    /\ \A calls, by, r : r \in Plain(calls, by) => r.call \in calls
    /\ \A calls, by, kind, r : r \in Make(calls, by, kind) => r.call \in calls
    /\ \A calls, by, kind, r : r \in Use(calls, by, kind) => r.call \in calls
    /\ \A calls, by, kind, r : r \in End(calls, by, kind) => r.call \in calls
BY Rows

LEMMA Owners ==
    /\ Owned("newlib", "memory") /\ Owned("newlib", "descriptor") /\ Owned("newlib", "directory")
    /\ Owned("newlib", "addresses") /\ Owned("newlib", "pthread") /\ Owned("newlib", "rwlock")
    /\ Owned("newlib", "semaphore") /\ Owned("newlib", "key")
    /\ Owned("libstdc++", "exception")
    /\ Owned("zlib", "deflation") /\ Owned("zlib", "gzfile") /\ Owned("stub", "library")
    /\ Owned("vitaGL", "shader") /\ Owned("vitaGL", "program")
    /\ Owned("vitaGL", "GL buffer") /\ Owned("vitaGL", "context")
    /\ Owned("FMOD", "sound") /\ Owned("FMOD", "DSP")
BY DEF Owned

LEMMA Keepers ==
    ASSUME NEW sce
    PROVE  /\ \A calls, by : \A r \in Plain(calls, by) : KeepsOwner(sce, r)
           /\ \A calls, by, kind : Owned(by, kind) =>
                 /\ \A r \in Make(calls, by, kind) : KeepsOwner(sce, r)
                 /\ \A r \in Use(calls, by, kind) : KeepsOwner(sce, r)
                 /\ \A r \in End(calls, by, kind) : KeepsOwner(sce, r)
           /\ \A calls : /\ \A r \in Make(calls, Std(sce), "stream") : KeepsOwner(sce, r)
                         /\ \A r \in Make(calls, "newlib", "stream") : KeepsOwner(sce, r)
                         /\ \A r \in Use(calls, Std(sce), "stream") : KeepsOwner(sce, r)
                         /\ \A r \in End(calls, Std(sce), "stream") : KeepsOwner(sce, r)
           /\ \A calls \in SUBSET StillNewlib :
                 \A r \in Use(calls, "newlib", "stream") : KeepsOwner(sce, r)
           /\ {"__srget", "__swbuf"} \in SUBSET StillNewlib /\ {"setbuf"} \in SUBSET StillNewlib
           /\ {"fseeko", "ftello", "rewind"} \in SUBSET StillNewlib
           /\ \A r \in Turn({"fileno"}, "newlib", "stream", "descriptor") : KeepsOwner(sce, r)
           /\ \A r \in Turn({"dup"}, "newlib", "descriptor", "descriptor") : KeepsOwner(sce, r)
           /\ sce \in BOOLEAN =>
                \A r \in Turn({"fdopen"}, Std(sce), "descriptor", "stream") : KeepsOwner(sce, r)
<1>1. /\ \A calls, by : \A r \in Plain(calls, by) : KeepsOwner(sce, r)
      /\ \A calls, by, kind : Owned(by, kind) =>
            /\ \A r \in Make(calls, by, kind) : KeepsOwner(sce, r)
            /\ \A r \in Use(calls, by, kind) : KeepsOwner(sce, r)
            /\ \A r \in End(calls, by, kind) : KeepsOwner(sce, r)
  BY Rows DEF KeepsOwner
<1>2. /\ \A calls : /\ \A r \in Make(calls, Std(sce), "stream") : KeepsOwner(sce, r)
                    /\ \A r \in Make(calls, "newlib", "stream") : KeepsOwner(sce, r)
                    /\ \A r \in Use(calls, Std(sce), "stream") : KeepsOwner(sce, r)
                    /\ \A r \in End(calls, Std(sce), "stream") : KeepsOwner(sce, r)
      /\ \A calls \in SUBSET StillNewlib :
            \A r \in Use(calls, "newlib", "stream") : KeepsOwner(sce, r)
  BY Rows DEF KeepsOwner
<1>3. /\ {"__srget", "__swbuf"} \in SUBSET StillNewlib /\ {"setbuf"} \in SUBSET StillNewlib
      /\ {"fseeko", "ftello", "rewind"} \in SUBSET StillNewlib
  BY DEF StillNewlib
<1>4. ASSUME NEW r \in Turn({"fileno"}, "newlib", "stream", "descriptor") PROVE KeepsOwner(sce, r)
  <2>1. r.call = "fileno" /\ r.by = "newlib" /\ r.takes = "stream" /\ r.gives = "descriptor"
    BY ONLY <1>4, Rows
  <2>2. r.call \in StillNewlib
    BY ONLY <2>1 DEF StillNewlib
  <2>3. Owned(r.by, r.gives)
    BY ONLY <2>1, Owners
  <2> QED BY ONLY <2>1, <2>2, <2>3 DEF KeepsOwner
<1>5. ASSUME NEW r \in Turn({"dup"}, "newlib", "descriptor", "descriptor") PROVE KeepsOwner(sce, r)
  <2>1. r.by = "newlib" /\ r.takes = "descriptor" /\ r.gives = "descriptor"
    BY ONLY <1>5, Rows
  <2>2. Owned(r.by, r.takes) /\ Owned(r.by, r.gives)
    BY ONLY <2>1, Owners
  <2> QED BY ONLY <2>2 DEF KeepsOwner
<1>6. ASSUME sce \in BOOLEAN, NEW r \in Turn({"fdopen"}, Std(sce), "descriptor", "stream")
      PROVE  KeepsOwner(sce, r)
  <2>1. r.call = "fdopen" /\ r.by = Std(sce) /\ r.takes = "descriptor" /\ r.gives = "stream"
    BY ONLY <1>6, Rows
  <2>2. Owned(r.by, r.takes) \/ (sce = TRUE /\ r.call = "fdopen")
    <3>1. CASE sce = TRUE
      BY ONLY <3>1, <2>1
    <3>2. CASE sce = FALSE
      <4>1. Std(sce) = "newlib"
        BY ONLY <3>2 DEF Std
      <4> QED BY ONLY <4>1, <2>1, Owners
    <3> QED BY ONLY <1>6, <3>1, <3>2
  <2> QED BY ONLY <2>1, <2>2 DEF KeepsOwner
<1> QED BY <1>1, <1>2, <1>3, <1>4, <1>5, <1>6

LEMMA SectionsKeepOwners ==
    ASSUME NEW sce \in BOOLEAN, NEW n \in 1..25, NEW r \in default_dynlib(sce)[n]
    PROVE  KeepsOwner(sce, r)
<1>1. ASSUME r \in InternalRows PROVE KeepsOwner(sce, r)
  BY <1>1, Keepers, Owners DEF InternalRows
<1>2. ASSUME r \in CtypeAndLogRows PROVE KeepsOwner(sce, r)
  BY <1>2, Keepers, Owners DEF CtypeAndLogRows
<1>3. ASSUME r \in MathRows PROVE KeepsOwner(sce, r)
  BY <1>3, Keepers, Owners DEF MathRows
<1>4. ASSUME r \in ProcessRows PROVE KeepsOwner(sce, r)
  BY <1>4, Keepers, Owners DEF ProcessRows
<1>5. ASSUME r \in SocketRows PROVE KeepsOwner(sce, r)
  BY <1>5, Keepers, Owners DEF SocketRows
<1>6. ASSUME r \in MemoryRows PROVE KeepsOwner(sce, r)
  BY <1>6, Keepers, Owners DEF MemoryRows
<1>7. ASSUME r \in WrappedIORows(sce) PROVE KeepsOwner(sce, r)
  BY <1>7, Keepers, Owners DEF WrappedIORows
<1>8. ASSUME r \in StreamRows(sce) PROVE KeepsOwner(sce, r)
  BY <1>8, Keepers, Owners DEF StreamRows
<1>9. ASSUME r \in FileRows PROVE KeepsOwner(sce, r)
  BY <1>9, Keepers, Owners DEF FileRows
<1>10. ASSUME r \in PrintRows(sce) PROVE KeepsOwner(sce, r)
  BY <1>10, Keepers, Owners DEF PrintRows
<1>11. ASSUME r \in EglRows PROVE KeepsOwner(sce, r)
  BY <1>11, Keepers, Owners DEF EglRows
<1>12. ASSUME r \in GLObjectRows PROVE KeepsOwner(sce, r)
  BY <1>12, Keepers, Owners DEF GLObjectRows
<1>13. ASSUME r \in GLStateRows PROVE KeepsOwner(sce, r)
  BY <1>13, Keepers, Owners DEF GLStateRows
<1>14. ASSUME r \in ThreadRows PROVE KeepsOwner(sce, r)
  BY <1>14, Keepers, Owners DEF ThreadRows
<1>15. ASSUME r \in WideRows PROVE KeepsOwner(sce, r)
  BY <1>15, Keepers, Owners DEF WideRows
<1>16. ASSUME r \in DlRows PROVE KeepsOwner(sce, r)
  BY <1>16, Keepers, Owners DEF DlRows
<1>17. ASSUME r \in ErrnoRows PROVE KeepsOwner(sce, r)
  BY <1>17, Keepers, Owners DEF ErrnoRows
<1>18. ASSUME r \in StringRows PROVE KeepsOwner(sce, r)
  BY <1>18, Keepers, Owners DEF StringRows
<1>19. ASSUME r \in SystemAndTimeRows PROVE KeepsOwner(sce, r)
  BY <1>19, Keepers, Owners DEF SystemAndTimeRows
<1>20. ASSUME r \in TempRows PROVE KeepsOwner(sce, r)
  BY <1>20, Keepers, Owners DEF TempRows
<1>21. ASSUME r \in StdlibRows(sce) PROVE KeepsOwner(sce, r)
  BY <1>21, Keepers, Owners DEF StdlibRows
<1>22. ASSUME r \in RestRows PROVE KeepsOwner(sce, r)
  BY <1>22, Keepers, Owners DEF RestRows
<1>23. ASSUME r \in ZlibRows PROVE KeepsOwner(sce, r)
  BY <1>23, Keepers, Owners DEF ZlibRows
<1>24. ASSUME r \in ThreadRowsAgain PROVE KeepsOwner(sce, r)
  BY <1>24, Keepers, Owners DEF ThreadRowsAgain, ThreadRows
<1>25. ASSUME r \in FmodRows PROVE KeepsOwner(sce, r)
  BY <1>25, Keepers, Owners DEF FmodRows
<1> QED BY <1>1, <1>2, <1>3, <1>4, <1>5, <1>6, <1>7, <1>8, <1>9, <1>10, <1>11, <1>12, <1>13,
           <1>14, <1>15, <1>16, <1>17, <1>18, <1>19, <1>20, <1>21, <1>22, <1>23, <1>24, <1>25 DEF
           default_dynlib

LEMMA EndersAtHome ==
    ASSUME NEW sce \in BOOLEAN, NEW n \in 1..25, NEW r \in default_dynlib(sce)[n], r.call \in Enders
    PROVE  n >= Home(r.call)
<1> USE DEF Enders, Home
<1>1. ASSUME r \in InternalRows PROVE 1 >= Home(r.call)
  BY <1>1, Rows DEF InternalRows
<1>2. ASSUME r \in CtypeAndLogRows PROVE 2 >= Home(r.call)
  BY <1>2, Rows DEF CtypeAndLogRows
<1>3. ASSUME r \in MathRows PROVE 3 >= Home(r.call)
  BY <1>3, Rows DEF MathRows
<1>4. ASSUME r \in ProcessRows PROVE 4 >= Home(r.call)
  BY <1>4, Rows DEF ProcessRows
<1>5. ASSUME r \in SocketRows PROVE 5 >= Home(r.call)
  BY <1>5, Rows DEF SocketRows
<1>6. ASSUME r \in MemoryRows PROVE 6 >= Home(r.call)
  BY <1>6, Rows DEF MemoryRows
<1>7. ASSUME r \in WrappedIORows(sce) PROVE 7 >= Home(r.call)
  BY <1>7, Rows DEF WrappedIORows
<1>8. ASSUME r \in StreamRows(sce) PROVE 8 >= Home(r.call)
  BY <1>8, Rows DEF StreamRows
<1>9. ASSUME r \in FileRows PROVE 9 >= Home(r.call)
  BY <1>9, Rows DEF FileRows
<1>10. ASSUME r \in PrintRows(sce) PROVE 10 >= Home(r.call)
  BY <1>10, Rows DEF PrintRows
<1>11. ASSUME r \in EglRows PROVE 11 >= Home(r.call)
  BY <1>11, Rows DEF EglRows
<1>12. ASSUME r \in GLObjectRows PROVE 12 >= Home(r.call)
  <2> HIDE DEF Enders, Home
  <2>1. \/ r.call \in {"glGenBuffers", "glGenTextures", "glGenFramebuffersOES"}
        \/ r.call \in {"glBindBuffer", "glBindTexture", "glBindFramebufferOES", "glBufferData"}
        \/ r.call \in {"glDeleteBuffers", "glDeleteTextures", "glDeleteFramebuffersOES"}
        \/ r.call \in {"glCreateProgram"} \/ r.call \in {"glDeleteProgram"}
        \/ r.call \in {"glCreateShader"} \/ r.call \in {"glCompileShader"}
        \/ r.call \in {"glDeleteShader"}
        \/ r.call \in {"glAttachShader", "glBindAttribLocation"}
        \/ r.call \in {"glClear", "glDrawArrays", "glEnable"}
        \/ r.call \in {"glDetachShader", "glCompressedTexSubImage2D"}
    BY ONLY <1>12, RowNames, ZenonT(60) DEF GLObjectRows
  <2> QED BY ONLY <2>1, r.call \in Enders DEF Enders, Home
<1>13. ASSUME r \in GLStateRows PROVE 13 >= Home(r.call)
  <2> HIDE DEF Enders, Home
  <2>1. \/ r.call \in {"glGenerateMipmap", "glTexImage2D", "glTexSubImage2D"}
        \/ r.call \in {"glGetAttribLocation", "glGetProgramiv", "glLinkProgram", "glUseProgram",
                       "glUniform4fv"}
        \/ r.call \in {"glGetShaderiv", "glShaderSource"}
        \/ r.call \in {"glGetError", "glVertexAttribPointer", "glViewport"}
        \/ r.call \in {"glLightx", "glMaterialx", "glPixelStorei", "glValidateProgram"}
    BY ONLY <1>13, RowNames, ZenonT(60) DEF GLStateRows
  <2> QED BY ONLY <2>1, r.call \in Enders DEF Enders, Home
<1>14. ASSUME r \in ThreadRows PROVE 14 >= Home(r.call)
  BY <1>14, Rows DEF ThreadRows
<1>15. ASSUME r \in WideRows PROVE 15 >= Home(r.call)
  BY <1>15, Rows DEF WideRows
<1>16. ASSUME r \in DlRows PROVE 16 >= Home(r.call)
  BY <1>16, Rows DEF DlRows
<1>17. ASSUME r \in ErrnoRows PROVE 17 >= Home(r.call)
  BY <1>17, Rows DEF ErrnoRows
<1>18. ASSUME r \in StringRows PROVE 18 >= Home(r.call)
  BY <1>18, Rows DEF StringRows
<1>19. ASSUME r \in SystemAndTimeRows PROVE 19 >= Home(r.call)
  BY <1>19, Rows DEF SystemAndTimeRows
<1>20. ASSUME r \in TempRows PROVE 20 >= Home(r.call)
  BY <1>20, Rows DEF TempRows
<1>21. ASSUME r \in StdlibRows(sce) PROVE 21 >= Home(r.call)
  BY <1>21, Rows DEF StdlibRows
<1>22. ASSUME r \in RestRows PROVE 22 >= Home(r.call)
  BY <1>22, Rows DEF RestRows
<1>23. ASSUME r \in ZlibRows PROVE 23 >= Home(r.call)
  BY <1>23, Rows DEF ZlibRows
<1>24. ASSUME r \in ThreadRowsAgain PROVE 24 >= Home(r.call)
  BY <1>24, Rows DEF ThreadRowsAgain, ThreadRows
<1>25. ASSUME r \in FmodRows PROVE 25 >= Home(r.call)
  BY <1>25, Rows DEF FmodRows
<1> HIDE DEF Enders, Home
<1> QED BY <1>1, <1>2, <1>3, <1>4, <1>5, <1>6, <1>7, <1>8, <1>9, <1>10, <1>11, <1>12, <1>13,
           <1>14, <1>15, <1>16, <1>17, <1>18, <1>19, <1>20, <1>21, <1>22, <1>23, <1>24, <1>25 DEF
           default_dynlib

\* What can end an object of a kind, made by a library.
Ending(sce, by, kind) ==
    \E row \in FirstRows(default_dynlib(sce)) : row.ends /\ row.takes = kind /\ row.by = by

\* What an object can be.
Thing(sce, x) ==
    /\ x = [kind |-> x.kind, by |-> x.by]
    /\ Owned(x.by, x.kind) \/ (x.kind = "stream" /\ x.by \in {Std(sce), "newlib"})
Things(sce) == {x \in {[kind |-> k, by |-> b] : k \in Kinds, b \in Libraries} : Thing(sce, x)}

\* An ender is bound to its row at home.
LEMMA Firsts ==
    ASSUME NEW sce \in BOOLEAN, NEW n \in 1..25, NEW r \in default_dynlib(sce)[n],
           r.call \in Enders, Home(r.call) = n
    PROVE  r \in FirstRows(default_dynlib(sce))
<1>1. DOMAIN default_dynlib(sce) = 1..25
  BY DEF default_dynlib
<1>2. ASSUME NEW j \in 1..n - 1 PROVE r.call \notin CallsOf(default_dynlib(sce)[j])
  <2>1. SUFFICES ASSUME NEW q \in default_dynlib(sce)[j], q.call = r.call PROVE FALSE
    BY DEF CallsOf
  <2>2. j \in 1..25 /\ j < n
    OBVIOUS
  <2>3. j >= Home(q.call)
    BY <2>1, <2>2, EndersAtHome
  <2> QED BY <2>1, <2>2, <2>3
<1> QED BY <1>1, <1>2 DEF FirstRows

LEMMA RowsOfTable ==
    ASSUME NEW sce \in BOOLEAN, NEW r \in FirstRows(default_dynlib(sce))
    PROVE  KeepsOwner(sce, r)
<1>1. DOMAIN default_dynlib(sce) = 1..25
  BY DEF default_dynlib
<1>2. PICK n \in 1..25 : r \in default_dynlib(sce)[n]
  BY <1>1 DEF FirstRows
<1> QED BY <1>2, SectionsKeepOwners

LEMMA EndingAtHome ==
    ASSUME NEW sce \in BOOLEAN, NEW n \in 1..25, NEW calls, NEW by, NEW kind, NEW call \in calls,
           End(calls, by, kind) \subseteq default_dynlib(sce)[n],
           call \in Enders, Home(call) = n
    PROVE  Ending(sce, by, kind)
<1> DEFINE r == Row(call, by, kind, None, TRUE)
<1>1. r \in End(calls, by, kind)
  BY DEF End
<1>2. r.call = call /\ r.by = by /\ r.takes = kind /\ r.ends = TRUE
  BY DEF Row
<1>3. r \in default_dynlib(sce)[n]
  BY ONLY <1>1, End(calls, by, kind) \subseteq default_dynlib(sce)[n]
<1> HIDE DEF r
<1>4. r \in FirstRows(default_dynlib(sce))
  BY <1>2, <1>3, Firsts
<1> QED BY <1>2, <1>4 DEF Ending

LEMMA Homes ==
    /\ Home("__cxa_end_catch") = 1 /\ Home("_ZdlPv") = 1 /\ Home("freeaddrinfo") = 5
    /\ Home("fclose") = 7 /\ Home("close") = 7 /\ Home("closedir") = 7
    /\ Home("eglDestroyContext") = 11 /\ Home("glDeleteBuffers") = 12
    /\ Home("glDeleteProgram") = 12 /\ Home("glDeleteShader") = 12
    /\ Home("pthread_join") = 14 /\ Home("sem_destroy") = 14 /\ Home("pthread_key_delete") = 14
    /\ Home("dlclose") = 16 /\ Home("deflateEnd") = 23 /\ Home("gzclose") = 23
    /\ Home("pthread_rwlock_destroy") = 24 /\ Home("Sound::release") = 25
    /\ Home("DSP::release") = 25
BY DEF Home, Enders

\* Each kind has its ender, of the library that makes its objects.
LEMMA Endings ==
    ASSUME NEW sce \in BOOLEAN
    PROVE  /\ \A by, kind : Owned(by, kind) => Ending(sce, by, kind)
           /\ Ending(sce, Std(sce), "stream")
<1>1. Ending(sce, "newlib", "memory")
  <2>1. End({"_ZdlPv", "_ZdaPv"}, "newlib", "memory")
           \subseteq default_dynlib(sce)[1]
    BY DEF default_dynlib, InternalRows
  <2> QED BY <2>1, Homes, EndingAtHome DEF Enders
<1>2. Ending(sce, "newlib", "descriptor")
  <2>1. End({"close"}, "newlib", "descriptor")
           \subseteq default_dynlib(sce)[7]
    BY DEF default_dynlib, WrappedIORows
  <2> QED BY <2>1, Homes, EndingAtHome DEF Enders
<1>3. Ending(sce, "newlib", "directory")
  <2>1. End({"closedir"}, "newlib", "directory")
           \subseteq default_dynlib(sce)[7]
    BY DEF default_dynlib, WrappedIORows
  <2> QED BY <2>1, Homes, EndingAtHome DEF Enders
<1>4. Ending(sce, "newlib", "addresses")
  <2>1. End({"freeaddrinfo"}, "newlib", "addresses")
           \subseteq default_dynlib(sce)[5]
    BY DEF default_dynlib, SocketRows
  <2> QED BY <2>1, Homes, EndingAtHome DEF Enders
<1>5. Ending(sce, "newlib", "pthread")
  <2>1. End({"pthread_join", "pthread_detach", "pthread_mutex_destroy",
              "pthread_cond_destroy", "pthread_attr_destroy"}, "newlib", "pthread")
           \subseteq default_dynlib(sce)[14]
    BY DEF default_dynlib, ThreadRows
  <2> QED BY <2>1, Homes, EndingAtHome DEF Enders
<1>6. Ending(sce, "newlib", "rwlock")
  <2>1. End({"pthread_rwlock_destroy"}, "newlib", "rwlock")
           \subseteq default_dynlib(sce)[24]
    BY DEF default_dynlib, ThreadRowsAgain
  <2> QED BY <2>1, Homes, EndingAtHome DEF Enders
<1>7. Ending(sce, "newlib", "semaphore")
  <2>1. End({"sem_destroy"}, "newlib", "semaphore")
           \subseteq default_dynlib(sce)[14]
    BY DEF default_dynlib, ThreadRows
  <2> QED BY <2>1, Homes, EndingAtHome DEF Enders
<1>8. Ending(sce, "newlib", "key")
  <2>1. End({"pthread_key_delete"}, "newlib", "key")
           \subseteq default_dynlib(sce)[14]
    BY DEF default_dynlib, ThreadRows
  <2> QED BY <2>1, Homes, EndingAtHome DEF Enders
<1>9. Ending(sce, "libstdc++", "exception")
  <2>1. End({"__cxa_end_catch", "__cxa_free_exception"}, "libstdc++", "exception")
           \subseteq default_dynlib(sce)[1]
    BY DEF default_dynlib, InternalRows
  <2> QED BY <2>1, Homes, EndingAtHome DEF Enders
<1>10. Ending(sce, "zlib", "deflation")
  <2>1. End({"deflateEnd", "inflateEnd"}, "zlib", "deflation")
           \subseteq default_dynlib(sce)[23]
    BY DEF default_dynlib, ZlibRows
  <2> QED BY <2>1, Homes, EndingAtHome DEF Enders
<1>11. Ending(sce, "zlib", "gzfile")
  <2>1. End({"gzclose"}, "zlib", "gzfile")
           \subseteq default_dynlib(sce)[23]
    BY DEF default_dynlib, ZlibRows
  <2> QED BY <2>1, Homes, EndingAtHome DEF Enders
<1>12. Ending(sce, "stub", "library")
  <2>1. End({"dlclose"}, "stub", "library")
           \subseteq default_dynlib(sce)[16]
    BY DEF default_dynlib, DlRows
  <2> QED BY <2>1, Homes, EndingAtHome DEF Enders
<1>13. Ending(sce, "vitaGL", "shader")
  <2>1. End({"glDeleteShader"}, "vitaGL", "shader")
           \subseteq default_dynlib(sce)[12]
    BY DEF default_dynlib, GLObjectRows
  <2> QED BY <2>1, Homes, EndingAtHome DEF Enders
<1>14. Ending(sce, "vitaGL", "program")
  <2>1. End({"glDeleteProgram"}, "vitaGL", "program")
           \subseteq default_dynlib(sce)[12]
    BY DEF default_dynlib, GLObjectRows
  <2> QED BY <2>1, Homes, EndingAtHome DEF Enders
<1>15. Ending(sce, "vitaGL", "GL buffer")
  <2>1. End({"glDeleteBuffers", "glDeleteTextures", "glDeleteFramebuffersOES"}, "vitaGL", "GL buffer")
           \subseteq default_dynlib(sce)[12]
    BY DEF default_dynlib, GLObjectRows
  <2>2. \A kind : End({"glDeleteBuffers", "glDeleteTextures", "glDeleteFramebuffersOES"}, "vitaGL", kind)
                     \subseteq default_dynlib(sce)[12] => Ending(sce, "vitaGL", kind)
    BY Homes, EndingAtHome DEF Enders
  <2> QED BY ONLY <2>1, <2>2, Zenon
<1>16. Ending(sce, "vitaGL", "context")
  <2>1. End({"eglDestroyContext"}, "vitaGL", "context")
           \subseteq default_dynlib(sce)[11]
    BY DEF default_dynlib, EglRows
  <2> QED BY <2>1, Homes, EndingAtHome DEF Enders
<1>17. Ending(sce, "FMOD", "sound")
  <2>1. End({"Sound::release"}, "FMOD", "sound")
           \subseteq default_dynlib(sce)[25]
    BY DEF default_dynlib, FmodRows
  <2> QED BY <2>1, Homes, EndingAtHome DEF Enders
<1>18. Ending(sce, "FMOD", "DSP")
  <2>1. End({"DSP::release"}, "FMOD", "DSP")
           \subseteq default_dynlib(sce)[25]
    BY DEF default_dynlib, FmodRows
  <2> QED BY <2>1, Homes, EndingAtHome DEF Enders
<1>19. Ending(sce, Std(sce), "stream")
  <2>1. End({"fclose"}, Std(sce), "stream")
           \subseteq default_dynlib(sce)[7]
    BY DEF default_dynlib, WrappedIORows
  <2> QED BY <2>1, Homes, EndingAtHome DEF Enders
<1>20. ASSUME NEW by, NEW kind, Owned(by, kind) PROVE Ending(sce, by, kind)
  BY ONLY <1>1, <1>2, <1>3, <1>4, <1>5, <1>6, <1>7, <1>8, <1>9, <1>10, <1>11, <1>12, <1>13, <1>14,
             <1>15, <1>16, <1>17, <1>18, <1>20 DEF Owned
<1> QED BY <1>19, <1>20

LEMMA OneOwner ==
    /\ \A a, b, kind : Owned(a, kind) /\ Owned(b, kind) => a = b
    /\ \A a : ~Owned(a, "stream") /\ ~Owned(a, None)
    /\ \A a, kind : Owned(a, kind) => a \in Libraries /\ kind \in Kinds
<1>1. ASSUME NEW a, NEW b, NEW kind, Owned(a, kind), Owned(b, kind) PROVE a = b
  <2>1. CASE a = "newlib"
    BY <1>1, <2>1 DEF Owned
  <2>2. CASE a = "libstdc++"
    BY <1>1, <2>2 DEF Owned
  <2>3. CASE a = "zlib"
    BY <1>1, <2>3 DEF Owned
  <2>4. CASE a = "stub"
    BY <1>1, <2>4 DEF Owned
  <2>5. CASE a = "vitaGL"
    BY <1>1, <2>5 DEF Owned
  <2>6. CASE a = "FMOD"
    BY <1>1, <2>6 DEF Owned
  <2> QED BY <1>1, <2>1, <2>2, <2>3, <2>4, <2>5, <2>6 DEF Owned
<1>2. ASSUME NEW a PROVE ~Owned(a, "stream") /\ ~Owned(a, None)
  BY DEF Owned, None
<1>3. ASSUME NEW a, NEW kind, Owned(a, kind) PROVE a \in Libraries /\ kind \in Kinds
  <2>1. a \in Libraries
    BY <1>3 DEF Owned, Libraries
  <2>2. kind \in Kinds
    BY <1>3 DEF Owned, Kinds
  <2> QED BY <2>1, <2>2
<1> QED BY <1>1, <1>2, <1>3

-----------------------------------------------------------------------------
\* Each object is of a kind with an owner, and of that owner; a stream is of one
\* of the two C libraries.  The table is one of the two.
ImportInv ==
    /\ bridge \in BOOLEAN
    /\ object \in [Objects -> Things(bridge) \cup {NoObject}]
    /\ ServedByMaker

LEMMA BoundRows ==
    ASSUME bridge \in BOOLEAN
    PROVE  Bound = FirstRows(default_dynlib(bridge))
BY DEF Bound, BoundWithBridge, BoundWithout

LEMMA ThingsAreThings ==
    ASSUME NEW sce \in BOOLEAN
    PROVE  /\ \A x \in Things(sce) : Thing(sce, x) /\ x # NoObject /\ x.kind # None
           /\ \A b, k : Thing(sce, [kind |-> k, by |-> b]) => [kind |-> k, by |-> b] \in Things(sce)
<1>1. ASSUME NEW x \in Things(sce) PROVE Thing(sce, x) /\ x # NoObject /\ x.kind # None
  <2>1. Thing(sce, x)
    BY <1>1 DEF Things
  <2>2. PICK k \in Kinds, b \in Libraries : x = [kind |-> k, by |-> b]
    BY <1>1 DEF Things
  <2>3. x.kind \in Kinds
    BY <2>2
  <2>4. x.kind # None
    BY <2>3 DEF Kinds, None
  <2> QED BY <2>1, <2>4 DEF NoObject
<1>2. ASSUME NEW b, NEW k, Thing(sce, [kind |-> k, by |-> b])
      PROVE  [kind |-> k, by |-> b] \in Things(sce)
  <2>1. Owned(b, k) \/ (k = "stream" /\ b \in {Std(sce), "newlib"})
    BY <1>2 DEF Thing
  <2>2. Std(sce) \in Libraries /\ "newlib" \in Libraries /\ "stream" \in Kinds
    BY DEF Std, Libraries, Kinds
  <2>3. b \in Libraries /\ k \in Kinds
    BY ONLY <2>1, <2>2, OneOwner
  <2> QED BY <1>2, <2>3 DEF Things
<1> QED BY <1>1, <1>2

\* What a row makes of what it is given.
LEMMA MadeThing ==
    ASSUME bridge \in BOOLEAN, NEW row \in Bound, row.gives # None
    PROVE  Made(row) \in Things(bridge)
<1>1. KeepsOwner(bridge, row)
  BY BoundRows, RowsOfTable
<1>2. Thing(bridge, [kind |-> row.gives, by |-> row.by])
  BY <1>1 DEF KeepsOwner, Thing
<1> QED BY <1>2, ThingsAreThings DEF Made

\* Who serves a call on an object.
LEMMA CallServed ==
    ASSUME ImportInv, NEW o \in Objects, ~Free(o), NEW row \in Bound,
           row.takes = object[o].kind, Called(row, o), bridge' = bridge
    PROVE  ServedByMaker'
<1> DEFINE x == object[o]
<1>1. KeepsOwner(bridge, row)
  BY BoundRows, RowsOfTable DEF ImportInv
<1>2. x \in Things(bridge)
  BY DEF ImportInv, Free
<1>3. Thing(bridge, x) /\ x.kind # None /\ row.takes = x.kind
  BY <1>2, ThingsAreThings DEF ImportInv
<1>4. last'.row = row /\ last'.maker = x.by
  BY DEF Called
<1> HIDE DEF x
<1>5. \/ Owned(x.by, x.kind)
      \/ x.kind = "stream" /\ x.by = Std(bridge)
      \/ x.kind = "stream" /\ x.by = "newlib"
  BY <1>3 DEF Thing
<1>6. \/ Owned(row.by, x.kind)
      \/ bridge /\ row.call = "fdopen"
      \/ x.kind = "stream" /\ row.by = Std(bridge)
      \/ x.kind = "stream" /\ row.by = "newlib" /\ row.call \in StillNewlib
  BY <1>1, <1>3 DEF KeepsOwner
<1>7. \/ bridge = TRUE /\ Std(bridge) = "SceLibc"
      \/ bridge = FALSE /\ Std(bridge) = "newlib"
  BY DEF Std, ImportInv
<1>8. CASE Owned(row.by, x.kind)
  BY <1>3, <1>4, <1>5, <1>8, OneOwner DEF ServedByMaker
<1>9. CASE bridge /\ row.call = "fdopen"
  BY <1>4, <1>9 DEF ServedByMaker
<1>10. CASE x.kind = "stream" /\ row.by = Std(bridge)
  <2>1. x.by = Std(bridge) \/ x.by = "newlib"
    BY ONLY <1>5, <1>10, OneOwner
  <2> QED BY ONLY <2>1, <1>3, <1>4, <1>7, <1>10, bridge' = bridge DEF ServedByMaker
<1>11. CASE x.kind = "stream" /\ row.by = "newlib" /\ row.call \in StillNewlib
  <2>1. x.by = Std(bridge) \/ x.by = "newlib"
    BY ONLY <1>5, <1>11, OneOwner
  <2> QED BY ONLY <2>1, <1>4, <1>7, <1>11, bridge' = bridge DEF ServedByMaker
<1> QED BY <1>6, <1>8, <1>9, <1>10, <1>11

LEMMA ImportStart == ImportInit => ImportInv
BY DEF ImportInit, ImportInv, ServedByMaker, Row

LEMMA ImportStep == ImportInv /\ [ImportNext]_importVars => ImportInv'
<1> SUFFICES ASSUME ImportInv, [ImportNext]_importVars PROVE ImportInv'
  OBVIOUS
<1>1. ASSUME NEW o \in Objects, MakeObject(o) PROVE ImportInv'
  <2>1. bridge' = bridge /\ last' = last
    BY <1>1 DEF MakeObject
  <2>2. PICK row \in Bound : row.gives # None /\ object' = [object EXCEPT ![o] = Made(row)]
    BY <1>1 DEF MakeObject
  <2>3. Made(row) \in Things(bridge)
    BY <2>2, MadeThing DEF ImportInv
  <2> QED BY <2>1, <2>2, <2>3 DEF ImportInv, ServedByMaker
<1>2. ASSUME NEW o \in Objects, UseObject(o) PROVE ImportInv'
  <2>1. ServedByMaker'
    BY <1>2, CallServed DEF UseObject
  <2> QED BY <1>2, <2>1 DEF ImportInv, UseObject
<1>3. ASSUME NEW o \in Objects, EndObject(o) PROVE ImportInv'
  <2>1. ServedByMaker'
    BY <1>3, CallServed DEF EndObject
  <2> QED BY <1>3, <2>1 DEF ImportInv, EndObject
<1>4. ASSUME NEW o \in Objects, NEW p \in Objects, TurnObject(o, p) PROVE ImportInv'
  <2>1. PICK row \in Bound : /\ row.takes = object[o].kind /\ row.gives # None
                             /\ object' = [object EXCEPT ![p] = Made(row)]
                             /\ Called(row, o)
    BY <1>4 DEF TurnObject
  <2>2. ~Free(o) /\ bridge' = bridge
    BY <1>4 DEF TurnObject
  <2>3. ServedByMaker'
    BY <2>1, <2>2, CallServed
  <2>4. Made(row) \in Things(bridge)
    BY <2>1, MadeThing DEF ImportInv
  <2> QED BY <2>1, <2>2, <2>3, <2>4 DEF ImportInv
<1>5. CASE UNCHANGED importVars
  BY <1>5 DEF importVars, ImportInv, ServedByMaker
<1> QED BY <1>1, <1>2, <1>3, <1>4, <1>5 DEF ImportNext

LEMMA AllCanEnd == ImportInv => EveryObjectCanEnd
<1> SUFFICES ASSUME ImportInv, NEW o \in Objects, ~Free(o)
             PROVE  \/ bridge /\ object[o] = [kind |-> "stream", by |-> "newlib"]
                    \/ \E row \in Bound : row.ends /\ row.takes = object[o].kind
                                           /\ row.by = object[o].by
  BY DEF EveryObjectCanEnd
<1> DEFINE x == object[o]
<1>1. x \in Things(bridge) /\ bridge \in BOOLEAN
  BY DEF ImportInv, Free
<1>2. Thing(bridge, x)
  BY <1>1, ThingsAreThings
<1> HIDE DEF x
<1>3. \/ bridge /\ x = [kind |-> "stream", by |-> "newlib"]
      \/ Ending(bridge, x.by, x.kind)
  <2>1. CASE Owned(x.by, x.kind)
    BY <1>1, <2>1, Endings
  <2>2. CASE x.kind = "stream" /\ x.by = Std(bridge)
    BY <1>1, <2>2, Endings
  <2>3. CASE x.kind = "stream" /\ x.by = "newlib"
    <3>1. CASE bridge = TRUE
      BY <1>2, <2>3, <3>1 DEF Thing
    <3>2. CASE bridge = FALSE
      <4>1. Std(bridge) = "newlib"
        BY <3>2 DEF Std
      <4> QED BY <2>2, <2>3, <4>1
    <3> QED BY <1>1, <3>1, <3>2
  <2> QED BY <1>2, <2>1, <2>2, <2>3 DEF Thing
<1>4. Bound = FirstRows(default_dynlib(bridge))
  BY <1>1, BoundRows
<1> QED BY <1>3, <1>4 DEF Ending, x

\* For any objects and any sequence of the game's calls, in either build: the
\* row of default_dynlib that serves a call on an object is of the library that
\* made it, but for the three cases ServedByMaker names, and for each object
\* there is an import that ends it, of that library.
THEOREM ObjectsAlwaysServed == ImportSpec => []ObjectsServed
<1>1. ImportSpec => []ImportInv
  BY ImportStart, ImportStep, PTL DEF ImportSpec
<1>2. ImportInv => ObjectsServed
  BY AllCanEnd DEF ImportInv, ObjectsServed
<1> QED BY <1>1, <1>2, PTL
=============================================================================
