------------------------------ MODULE NetNames ------------------------------
(***************************************************************************)
(* What the socket calls translate between the game's numbering, bionic's, *)
(* and the console's (source/dynlib.c, reimpl/sockaddr_abi.c,              *)
(* reimpl/sockopt.c): addresses, in the direction of the call, the names   *)
(* of families, options and message flags; and the gathering write that is *)
(* made of single ones (reimpl/proc_stubs.c).  None of it takes a lock.    *)
(*                                                                         *)
(* An IPv4 address starts with two bytes that bionic reads as one 16-bit   *)
(* family, and the console as a length and a family; the rest is the same. *)
(*                                                                         *)
(* External: the console's network stack.  It reads each number by its own *)
(* list, and refuses a family and a flag it does not know.                 *)
(***************************************************************************)
EXTENDS Integers, Sequences, FiniteSets

CONSTANTS Peers,     \* hosts at the other end
          Rooms,     \* sizes of the game's address buffers
          Writers,   \* threads that write to one socket
          Vectors,   \* what they write: the lengths of the pieces
          MaxSet,    \* bound: options that are set at a time
          NoPeer     \* not a host

ASSUME RoomsAssumption == Rooms \subseteq Nat
ASSUME VectorsAssumption == Vectors \subseteq Seq(Nat)

VARIABLES buffer,    \* the game's address: its two bytes, whose it is, its room
          told,      \* the last call with an address: as given, as the stack got it
          meant,     \* history: the peer the game meant, and the family
          list,      \* what getaddrinfo left
          sent,      \* the last message's flags: as the game meant them, the word of the stack
          option,    \* external: the socket's options, by the console's numbers
          set,       \* history: the same by name, as they were set
          got,       \* the answer to the last getsockopt
          pton,      \* inet_pton's answers for the host in the URL, by family
          wire,      \* what reached the socket: pieces of whom, unit by unit
          call       \* each writer's call: its vector, where it is, its result

addresses == <<buffer, told, meant, list>>
options   == <<option, set, got>>
nameVars  == <<addresses, sent, options, pton, wire, call>>

SOCKADDR_IN_SIZE == 16
AF_INET  == 2
AF_INET6 == [game |-> 10, stack |-> 28]
LocalSize == 128  \* addr_buf

None == "none"
Bytes(b0, b1, who, room) == [b0 |-> b0, b1 |-> b1, who |-> who, room |-> room]
Blank == Bytes(0, 0, NoPeer, 0)
GameFamily(a)  == a.b0 + 256 * a.b1
StackFamily(a) == a.b1

-----------------------------------------------------------------------------
(* Addresses.                                                              *)

sockaddr_vita_to_bionic(a) ==
    IF a.room < SOCKADDR_IN_SIZE \/ a.b1 # AF_INET THEN a
    ELSE [a EXCEPT !.b0 = a.b1, !.b1 = 0]

sockaddr_bionic_to_vita(a) ==
    IF a.room < SOCKADDR_IN_SIZE \/ GameFamily(a) # AF_INET THEN a
    ELSE [a EXCEPT !.b0 = SOCKADDR_IN_SIZE, !.b1 = AF_INET]

\* The game fills in an address of its own.
Fill ==
    \E p \in Peers, room \in Rooms \ {0}, family \in {AF_INET, AF_INET6.game} :
        /\ buffer' = Bytes(family, 0, p, room)
        /\ meant' = [who |-> p, family |-> family]
        /\ UNCHANGED <<told, list, sent, options, pton, wire, call>>

Copied(a) == IF a.room > 0 /\ a.room <= LocalSize THEN sockaddr_bionic_to_vita(a) ELSE a

\* connect_traced, bind_traced, sendto_traced: the stack gets a converted copy.
TakesAddress ==
    /\ buffer # Blank
    /\ told' = [given |-> buffer, got |-> Copied(buffer)]
    /\ UNCHANGED <<buffer, meant, list, sent, options, pton, wire, call>>

\* What the stack writes for a peer, in its own numbering.
Native(p, room, inet) ==
    IF inet THEN Bytes(SOCKADDR_IN_SIZE, AF_INET, p, room)
    ELSE Bytes(AF_INET6.stack, AF_INET6.stack, p, room)

\* accept_traced, recvfrom_traced, getsockname_traced, getpeername_traced that
\* succeed: the game's buffer is converted where it is.  (A family that the hooks
\* do not convert is nothing the game can name.)
GivesAddress ==
    /\ \E p \in Peers, room \in Rooms, inet \in BOOLEAN :
         /\ room >= SOCKADDR_IN_SIZE
         /\ buffer' = sockaddr_vita_to_bionic(Native(p, room, inet))
         /\ meant' = [who |-> p, family |-> IF inet THEN AF_INET ELSE 0]
    /\ UNCHANGED <<told, list, sent, options, pton, wire, call>>

\* getaddrinfo_traced: every IPv4 entry of the list, whatever stands before it.
addrinfo_list_vita_to_bionic(l) ==
    [i \in DOMAIN l |-> IF StackFamily(l[i]) = AF_INET
                        THEN sockaddr_vita_to_bionic(l[i]) ELSE l[i]]

GetAddrInfo ==
    /\ list = <<>>
    /\ \E p \in [1..2 -> Peers], inet \in [1..2 -> BOOLEAN] :
         list' = addrinfo_list_vita_to_bionic(
                     [i \in 1..2 |-> Native(p[i], SOCKADDR_IN_SIZE, inet[i])])
    /\ UNCHANGED <<buffer, told, meant, sent, options, pton, wire, call>>

\* The game goes on with an IPv4 entry of the list, and frees the list.
PickEntry ==
    /\ \E i \in DOMAIN list :
         /\ GameFamily(list[i]) = AF_INET
         /\ buffer' = list[i]
         /\ meant' = [who |-> list[i].who, family |-> AF_INET]
    /\ list' = <<>>
    /\ UNCHANGED <<told, sent, options, pton, wire, call>>

-----------------------------------------------------------------------------
(* Message flags.  A word is the set of its bits.  External: what each bit *)
(* means on either side; the game's 0x40 is the console's MSG_WAITALL.     *)

GameFlag  == [OOB |-> 1, PEEK |-> 2, TRUNC |-> 32, DONTWAIT |-> 64, WAITALL |-> 256,
              NOSIGNAL |-> 16384, MORE |-> 32768]
StackFlag == [OOB |-> 1, PEEK |-> 2, WAITALL |-> 64, DONTWAIT |-> 128]

Unsent == [meant |-> {}, word |-> {}]

msg_flags_bionic_to_vita(b) ==
    {v \in {StackFlag[f] : f \in DOMAIN StackFlag} :
        \/ 1 \in b /\ v = StackFlag.OOB
        \/ 2 \in b /\ v = StackFlag.PEEK
        \/ 64 \in b /\ v = StackFlag.DONTWAIT
        \/ 256 \in b /\ v = StackFlag.WAITALL}

\* send_traced, recv_traced, sendmsg_traced, recvmsg_traced, and the two with an
\* address.
Message ==
    /\ \E flags \in SUBSET DOMAIN GameFlag :
         sent' = [meant |-> flags, word |-> msg_flags_bionic_to_vita({GameFlag[f] : f \in flags})]
    /\ UNCHANGED <<addresses, options, pton, wire, call>>

-----------------------------------------------------------------------------
(* Options of a socket, at the level SOL_SOCKET; at the others a number    *)
(* goes as it is.  External: what each number means on either side.        *)

GameOption == [REUSEADDR |-> 2, TYPE |-> 3, ERROR |-> 4, BROADCAST |-> 6, SNDBUF |-> 7,
               RCVBUF |-> 8, KEEPALIVE |-> 9, LINGER |-> 13, REUSEPORT |-> 15,
               RCVLOWAT |-> 18, SNDLOWAT |-> 19, RCVTIMEO |-> 20, SNDTIMEO |-> 21]
SO == [REUSEADDR |-> 4, KEEPALIVE |-> 8, BROADCAST |-> 32, LINGER |-> 128,
       REUSEPORT |-> 512, SNDBUF |-> 4097, RCVBUF |-> 4098, SNDLOWAT |-> 4099,
       RCVLOWAT |-> 4100, SNDTIMEO |-> 4101, RCVTIMEO |-> 4102, ERROR |-> 4103, TYPE |-> 4104]

OptionNames == {"REUSEADDR", "TYPE", "ERROR", "BROADCAST", "SNDBUF", "RCVBUF", "KEEPALIVE",
                "LINGER", "REUSEPORT", "RCVLOWAT", "SNDLOWAT", "RCVTIMEO", "SNDTIMEO"}
Own == {"TYPE", "ERROR"}  \* those that only the stack sets
Numbers(names) == {SO[o] : o \in names}
Unanswered == [of |-> 0, value |-> 0]
Unmapped == 0

\* Mutant: the game's number is given to the console as it is.
translate_sol_socket_optname_AsIs(n) == n

\* The switch over the game's numbers.
translate_sol_socket_optname(n) ==
    IF n = 2 THEN SO.REUSEADDR ELSE IF n = 3 THEN SO.TYPE ELSE IF n = 4 THEN SO.ERROR
    ELSE IF n = 6 THEN SO.BROADCAST ELSE IF n = 7 THEN SO.SNDBUF ELSE IF n = 8 THEN SO.RCVBUF
    ELSE IF n = 9 THEN SO.KEEPALIVE ELSE IF n = 13 THEN SO.LINGER ELSE IF n = 15 THEN SO.REUSEPORT
    ELSE IF n = 18 THEN SO.RCVLOWAT ELSE IF n = 19 THEN SO.SNDLOWAT
    ELSE IF n = 20 THEN SO.RCVTIMEO ELSE IF n = 21 THEN SO.SNDTIMEO ELSE Unmapped

\* setsockopt_soloader: an option without a translation is set with success.
SetSockOpt ==
    /\ \E n \in 1..21, value \in 0..1 :
         /\ value = 1 => Cardinality({o \in OptionNames : set[o] = 1}) < MaxSet
         /\ option' = [r \in Numbers(OptionNames) |->
                IF r = translate_sol_socket_optname(n) /\ r \notin Numbers(Own)
                THEN value ELSE option[r]]
         /\ set' = [o \in OptionNames |->
                IF n = GameOption[o] /\ o \notin Own THEN value ELSE set[o]]
    /\ got' = Unanswered
    /\ UNCHANGED <<addresses, sent, pton, wire, call>>

\* External: the socket meets an error, or it is read; its type is given once.
StackSets ==
    /\ \E o \in Own, value \in 0..1 :
         /\ option' = [option EXCEPT ![SO[o]] = value]
         /\ set' = [set EXCEPT ![o] = value]
    /\ got' = Unanswered
    /\ UNCHANGED <<addresses, sent, pton, wire, call>>

\* getsockopt_soloader: and reads as 0.
GetSockOpt ==
    /\ \E n \in 1..21 :
         LET real == translate_sol_socket_optname(n)
         IN got' = [of |-> n, value |-> IF real = Unmapped THEN 0 ELSE option[real]]
    /\ UNCHANGED <<addresses, sent, option, set, pton, wire, call>>

-----------------------------------------------------------------------------
(* Host names.                                                             *)

Unasked == [host |-> None, v4 |-> 0, v6 |-> 0]
Hosts == {"name", "v4", "v6"}  \* the last is the one with a colon

\* The console's: it fails for a family it does not have.
StackPton(af, host) ==
    IF af \notin {AF_INET, AF_INET6.stack} THEN 0 - 1
    ELSE IF (af = AF_INET /\ host = "v4") \/ (af = AF_INET6.stack /\ host = "v6") THEN 1 ELSE 0

\* inet_pton_soloader
inet_pton(af, host) ==
    IF af = AF_INET THEN IF StackPton(AF_INET, host) > 0 THEN 1 ELSE 0
    ELSE IF af = AF_INET6.game
         THEN IF host = "v6" /\ StackPton(AF_INET6.stack, host) > 0 THEN 1 ELSE 0
    ELSE 0 - 1

\* curl asks for both families before it writes the name into the TLS hello.
AskHost ==
    /\ \E host \in Hosts :
         pton' = [host |-> host, v4 |-> inet_pton(AF_INET, host),
                  v6 |-> inet_pton(AF_INET6.game, host)]
    /\ UNCHANGED <<addresses, sent, options, wire, call>>

-----------------------------------------------------------------------------
(* The gathering write.  A unit is written or not; the socket takes any    *)
(* part of a piece, and its other writers write in between.                *)

Idle == [vector |-> <<>>, piece |-> 0, total |-> 0, result |-> None]

Writev(t) ==
    /\ call[t] = Idle
    /\ \E v \in Vectors : call' = [call EXCEPT ![t] = [Idle EXCEPT !.vector = v, !.piece = 1]]
    /\ UNCHANGED <<addresses, sent, options, pton, wire>>

Units(t, piece, n) == [i \in 1..n |-> <<t, piece, i>>]
Ended(c, result) == [c EXCEPT !.piece = 0, !.result = result]

\* Mutant: a short write is taken for a whole one.
WritePiece_Goes(t) ==
    LET c == call[t] IN
    /\ c.piece \in 1..Len(c.vector)
    /\ \E n \in 0..c.vector[c.piece] :
         /\ wire' = wire \o Units(t, c.piece, n)
         /\ call' = [call EXCEPT ![t] = [c EXCEPT !.piece = @ + 1, !.total = @ + n]]
    /\ UNCHANGED <<addresses, sent, options, pton>>

\* One turn of the loop of writev_soloader: an empty piece is passed over, an
\* error ends the call with what was written if there was any, a short write ends
\* it.
WritePiece(t) ==
    LET c == call[t] IN
    /\ c.piece \in 1..Len(c.vector)
    /\ \/ /\ c.vector[c.piece] = 0
          /\ call' = [call EXCEPT ![t].piece = @ + 1] /\ UNCHANGED wire
       \/ /\ c.vector[c.piece] > 0
          /\ call' = [call EXCEPT ![t] = Ended(c, IF c.total > 0 THEN "total" ELSE "error")]
          /\ UNCHANGED wire
       \/ \E n \in 0..c.vector[c.piece] :
            /\ c.vector[c.piece] > 0
            /\ wire' = wire \o Units(t, c.piece, n)
            /\ call' = [call EXCEPT ![t] =
                   IF n < c.vector[c.piece] THEN Ended([c EXCEPT !.total = @ + n], "total")
                   ELSE [c EXCEPT !.piece = @ + 1, !.total = @ + n]]
    /\ UNCHANGED <<addresses, sent, options, pton>>

ReturnTotal(t) ==
    /\ call[t].piece > Len(call[t].vector)
    /\ call' = [call EXCEPT ![t] = Ended(@, "total")]
    /\ UNCHANGED <<addresses, sent, options, pton, wire>>

-----------------------------------------------------------------------------
NamesInit ==
    /\ buffer = Blank /\ told = [given |-> Blank, got |-> Blank] /\ meant = [who |-> NoPeer, family |-> 0] /\ list = <<>>
    /\ sent = Unsent
    /\ option = [r \in Numbers(OptionNames) |-> 0] /\ set = [o \in OptionNames |-> 0]
    /\ got = Unanswered
    /\ pton = Unasked
    /\ wire = <<>> /\ call = [t \in Writers |-> Idle]

Addressing == Fill \/ TakesAddress \/ GivesAddress \/ GetAddrInfo \/ PickEntry
Writing    == \E t \in Writers : Writev(t) \/ WritePiece(t) \/ ReturnTotal(t)

NamesNext == Addressing \/ Message \/ SetSockOpt \/ StackSets \/ GetSockOpt \/ AskHost \/ Writing
NamesSpec == NamesInit /\ [][NamesNext]_nameVars

-----------------------------------------------------------------------------
(* Properties.                                                             *)

NamesTypeOK ==
    /\ \A a \in {buffer, told.given, told.got} : a.b0 \in 0..255 /\ a.b1 \in 0..255 /\ a.who \in Peers \cup {NoPeer}
    /\ meant.family \in {0, AF_INET, AF_INET6.game}
    /\ Len(list) \in {0, 2}
    /\ option \in [Numbers(OptionNames) -> 0..1] /\ set \in [OptionNames -> 0..1]
    /\ got.of \in 0..21 /\ got.value \in 0..1
    /\ {pton.v4, pton.v6} \subseteq {0 - 1, 0, 1}
    /\ \A t \in Writers : call[t].total \in Nat /\ call[t].piece \in 0..Len(call[t].vector) + 1

\* The game reads the family of an IPv4 address wherever it came from, and goes on
\* reading it after it has given the address to a call: its own copy is left alone.
GameReads ==
    /\ meant.family = AF_INET => GameFamily(buffer) = AF_INET /\ buffer.who = meant.who
    /\ \A i \in DOMAIN list : StackFamily(list[i]) # AF_INET

\* The stack reads the family of an IPv4 address that the game gives it, were it
\* the game's own or one that the stack gave before, and it is the same peer; of
\* other families it gets what the game wrote.
StackReads ==
    told.given.room \in SOCKADDR_IN_SIZE..LocalSize =>
        IF GameFamily(told.given) = AF_INET
        THEN StackFamily(told.got) = AF_INET /\ told.got.who = told.given.who
        ELSE told.got = told.given

\* Of the flags of a message the stack does those that it has, each of those and no
\* other, whatever bits the two sides give them; and it is given no bit it does not
\* know, for which it would refuse the message.
FlagsArrive ==
    /\ \A f \in DOMAIN StackFlag : StackFlag[f] \in sent.word <=> f \in sent.meant
    /\ \A bit \in sent.word : \E f \in DOMAIN StackFlag : StackFlag[f] = bit

\* What an option was set to by its name on the game's side is what the console holds
\* for that name and for no other, and what the game reads back by it; an option the
\* console does not have reads as 0.
OptionsArrive ==
    /\ \A o \in OptionNames : option[SO[o]] = set[o]
    /\ \A o \in OptionNames : got.of = GameOption[o] => got.value = set[o]
    /\ (\A o \in OptionNames : got.of # GameOption[o]) => got.value = 0

\* curl puts the host into the TLS hello when neither family says it is a literal:
\* of a name both must say 0, and not that they failed.
NamesAreNamed == pton # Unasked => (pton.v4 = 0 /\ pton.v6 = 0 <=> pton.host = "name")

\* The units that a write is given, and the order they are given in.
UnitsOf(t, v) == UNION {{<<t, k, i>> : i \in 1..v[k]} : k \in DOMAIN v}
Given(t) == UnitsOf(t, call[t].vector)
Before(u, w) == u[2] < w[2] \/ (u[2] = w[2] /\ u[3] < w[3])
Mine(t) == {i \in DOMAIN wire : wire[i][1] = t}

\* What a gathering write put on the wire is the start of what it was given, in order
\* and without a gap, whoever else writes; and its result is the length of it, or an
\* error when there is none.
WritesPrefix ==
    \A t \in Writers :
        /\ \A i \in Mine(t) :
             /\ wire[i] \in Given(t)
             /\ \A u \in Given(t) :
                  Before(u, wire[i]) => \E j \in Mine(t) : j < i /\ wire[j] = u
        /\ \A i, j \in Mine(t) : i < j => Before(wire[i], wire[j])
        /\ call[t].result = "total" => call[t].total = Cardinality(Mine(t))
        /\ call[t].result = "error" => Mine(t) = {}

\* What the calls carry over means on the one side what it means on the other:
\* addresses both ways, flags, options, and the families of a name.
NamesTranslated ==
    NamesTypeOK /\ GameReads /\ StackReads /\ FlagsArrive /\ OptionsArrive /\ NamesAreNamed
=============================================================================
