-------------------------- MODULE Download_proofs --------------------------
(***************************************************************************)
(* Proofs about Download, for any list of files, window and rate: files    *)
(* arrive intact and acknowledgements match, however short the files are   *)
(* and whichever cannot be created, unless the first block of a file was   *)
(* taken for that of another.                                              *)
(***************************************************************************)
EXTENDS Download, SequencesExt, SequenceTheorems, WellFoundedInduction,
        TLAPS

-----------------------------------------------------------------------------
(* Slots of a ring, sets of numbers and sequences.                         *)

(* Division by the size of the ring: the slot is the remainder.            *)
LEMMA SlotOf ==
  ASSUME NEW size \in Nat \ {0}, NEW n \in Nat
  PROVE  /\ n = size * (n \div size) + (n % size)
         /\ n % size \in 0 .. size - 1
         /\ n \div size \in Nat
OBVIOUS

(* The slots of two numbers less than a ring apart are different.          *)
LEMMA SlotsOfNeighbours ==
  ASSUME NEW size \in Nat \ {0}, NEW m \in Nat, NEW n \in Nat,
         m < n, n < m + size
  PROVE  m % size # n % size
<1> DEFINE a == m \div size
           b == n \div size
           r == n % size
<1> SUFFICES ASSUME m % size = n % size PROVE FALSE
  OBVIOUS
<1>1. a \in Nat /\ b \in Nat /\ r \in Nat
  <2>1. a \in Nat /\ b \in Nat
    BY SlotOf
  <2>2. r \in 0 .. size - 1
    BY SlotOf
  <2> HIDE DEF a, b, r
  <2> QED BY <2>1, <2>2
<1>2. m = size * a + r /\ n = size * b + r
  BY SlotOf
<1> HIDE DEF a, b, r
<1>3. n - m = size * (b - a)
  BY <1>1, <1>2
<1>4. b - a >= 1 => size * (b - a) >= size
  BY <1>1
<1>5. b - a <= 0 => size * (b - a) <= 0
  BY <1>1
<1> QED BY <1>1, <1>3, <1>4, <1>5

(* A set of numbers has a least element.                                   *)
LEMMA LeastNumber ==
  ASSUME NEW S, S \subseteq Nat, S # {}
  PROVE  \E x \in S : \A y \in S : x <= y
<1>1. PICK x \in S : \A y \in S : ~ (<<y, x>> \in OpToRel(<, Nat))
  BY WFMin, NatLessThanWellFounded
<1>2. ASSUME NEW y \in S PROVE x <= y
  <2>1. x \in Nat /\ y \in Nat
    OBVIOUS
  <2>2. ~(y < x)
    BY <1>1, <2>1 DEF OpToRel
  <2> QED BY <2>1, <2>2
<1> QED BY <1>2

(* A function on 1 .. k is a sequence of length k.                         *)
LEMMA FunctionIsSeq ==
  ASSUME NEW S, NEW k \in Nat, NEW f \in [1 .. k -> S]
  PROVE  f \in Seq(S) /\ Len(f) = k
<1>1. f \in Seq(S)
  BY SeqDef
<1>2. DOMAIN f = 1 .. k /\ DOMAIN f = 1 .. Len(f) /\ Len(f) \in Nat
  BY <1>1, LenProperties
<1> QED BY <1>1, <1>2

(* Taking the oldest message.                                              *)
LEMMA TailOfMessages ==
  ASSUME NEW S, NEW s \in Seq(S), s # <<>>
  PROVE  /\ Head(s) = s[1] /\ 1 \in DOMAIN s /\ Tail(s) \in Seq(S)
         /\ \A i \in DOMAIN Tail(s) : i + 1 \in DOMAIN s /\ Tail(s)[i] = s[i + 1]
<1>1. /\ Len(s) \in Nat \ {0} /\ DOMAIN s = 1 .. Len(s)
      /\ Tail(s) \in Seq(S) /\ Len(Tail(s)) = Len(s) - 1
      /\ \A i \in 1 .. Len(Tail(s)) : Tail(s)[i] = s[i + 1]
  BY LenProperties, EmptySeq, HeadTailProperties
<1>2. DOMAIN Tail(s) = 1 .. Len(Tail(s))
  BY <1>1, LenProperties
<1>3. Head(s) = s[1]
  OBVIOUS
<1> QED BY <1>1, <1>2, <1>3

(* A message that is sent comes after those in flight.                     *)
LEMMA AppendedMessage ==
  ASSUME NEW S, NEW s \in Seq(S), NEW e \in S
  PROVE  /\ Append(s, e) \in Seq(S)
         /\ DOMAIN s = 1 .. Len(s) /\ Len(s) \in Nat
         /\ DOMAIN Append(s, e) = 1 .. Len(s) + 1
         /\ \A i \in 1 .. Len(s) : Append(s, e)[i] = s[i]
         /\ Append(s, e)[Len(s) + 1] = e
<1>1. Append(s, e) \in Seq(S) /\ Len(Append(s, e)) = Len(s) + 1
  BY AppendProperties
<1>2. DOMAIN Append(s, e) = 1 .. Len(s) + 1
  BY <1>1, LenProperties
<1>3. DOMAIN s = 1 .. Len(s) /\ Len(s) \in Nat
  BY LenProperties
<1> QED BY <1>1, <1>2, <1>3, AppendProperties

-----------------------------------------------------------------------------
Data == [file : Files \cup {None}, number : Nat, eof : BOOLEAN]
Parts == [block : Int, refused : {FALSE}, data : Data]
           \cup [block : {0}, refused : {TRUE}]
Commands == [command : {"download"}, file : Files]
              \cup [command : {"nextdl"}, block : Nat]
              \cup [command : {"stopdl", "donedl"}]
Contents(f, n) == [i \in 1 .. n |-> Block(f, i - 1)]

-----------------------------------------------------------------------------
(* The inductive invariant.                                                *)

(* The client c has asked for a file and waits for its blocks.             *)
Receiving(c) == c.temp # None /\ c.restart

ClientTypes(c) ==
    /\ c \in [temp : Files \cup {None}, block : Nat, list : Seq(Files),
             restart : BOOLEAN, file : Seq(Data),
             installed : {c.installed}, commands : Seq(Commands),
             connection : {"up", "refused", "illegible", "loading"}]
    /\ DOMAIN c.installed \subseteq Files

Intact(c) ==
    \A f \in DOMAIN c.installed : c.installed[f] = Contents(f, Blocks[f])

(* What it has of the file, and the files to come.                         *)
FileOK(c) ==
    /\ Receiving(c) => /\ c.block <= Blocks[c.temp] /\ c.block <= Half
                       /\ c.file = Contents(c.temp, c.block)
    /\ c.temp # None /\ ~Receiving(c) => c.temp \in Unwritable
    /\ c.temp # None /\ c.temp \in Unwritable => c.block = 0
    /\ c.list # <<>> => Receiving(c)
    /\ \A i, j \in DOMAIN c.list : c.list[i] = c.list[j] => i = j
    /\ \A i \in DOMAIN c.list : c.list[i] # c.temp /\ c.list[i] # downloadName

(* The window of the server.                                               *)
WindowOK ==
    /\ downloadName = None => ~download
    /\ download =>
         /\ downloadClientBlock <= downloadCurrentBlock
         /\ downloadCurrentBlock <= downloadClientBlock + MAX_DOWNLOAD_WINDOW
         /\ downloadClientBlock <= Blocks[downloadName]
         /\ downloadCurrentBlock <= Blocks[downloadName] + 1
         /\ downloadClientBlock <= Half
         /\ 1 <= downloadXmitBlock /\ downloadXmitBlock <= downloadCurrentBlock
         /\ \A n \in downloadClientBlock .. downloadCurrentBlock - 1 :
              downloadBlocks[Slot(n)] = Block(downloadName, n)
         /\ \A n \in 0 .. downloadCurrentBlock - 1 :
              downloadBlocks[Slot(n)].file = downloadName

(* The acknowledgements on their way come first, without a gap.            *)
AcksOK(q) ==
    \A i \in DOMAIN q : q[i].command = "nextdl" =>
        /\ download /\ q[i].block = downloadClientBlock + i - 1
        /\ q[i].block < downloadCurrentBlock
        /\ q[i].block <= Blocks[downloadName] /\ q[i].block < Half
        /\ \A j \in DOMAIN q : j < i => q[j].command = "nextdl"

(* The client has asked for a file, and the server has not been told yet:  *)
(* it is still sending the file before it, or nothing.                     *)
Asked(c) ==
    /\ c.commands # <<>> /\ c.block = 0
    /\ c.commands[Len(c.commands)].command = "download"
    /\ \A i \in DOMAIN c.commands :
         i < Len(c.commands) => c.commands[i].command \in {"nextdl", "stopdl"}
    /\ downloadName # c.temp

(* The server sends the file the client takes down, or has refused it.     *)
Served(c) ==
    /\ \A i \in DOMAIN c.commands : c.commands[i].command = "nextdl"
    /\ downloadName \in {c.temp, None}
    /\ IF download THEN c.block = downloadClientBlock + Len(c.commands)
                   ELSE c.block = 0 /\ c.commands = <<>>

CommandsOK(c) ==
    /\ AcksOK(c.commands)
    /\ \A i \in DOMAIN c.commands : c.commands[i].command = "download" =>
         c.commands[i].file = c.temp
    /\ Receiving(c) => Asked(c) \/ Served(c)

(* The parts of the messages F that are still to be read, of which k parts *)
(* of the first message have been.                                         *)
Places(F, k) ==
    {p \in UNION {{i} \X DOMAIN F[i] : i \in DOMAIN F} :
        (p[1] = 1 => p[2] > k) /\ ~F[p[1]][p[2]].refused}
Part(F, p) == F[p[1]][p[2]]
Precedes(p, r) == p[1] < r[1] \/ (p[1] = r[1] /\ p[2] < r[2])
Is(F, p, f) == Part(F, p).data.file = f

(* A part of the file awaited carries what its number says, unless it has  *)
(* been received before; of another file there is something only before    *)
(* the first block of the file awaited.                                    *)
PartOK(c, part) ==
    IF part.data.file = c.temp
      THEN /\ download /\ downloadName = c.temp
           /\ part.block < downloadCurrentBlock
           /\ part.block >= c.block => part.data = Block(c.temp, part.block)
      ELSE c.block = 0

(* Parts of earlier files come first.                                      *)
OrderOK(F, p, r, f) == Precedes(p, r) /\ Is(F, p, f) => Is(F, r, f)

FlightOK(c, F, k) ==
    /\ \A p \in Places(F, k) : \A i \in DOMAIN c.list : ~Is(F, p, c.list[i])
    /\ Receiving(c) =>
         /\ \A p \in Places(F, k) : PartOK(c, Part(F, p))
         /\ \A p, r \in Places(F, k) : OrderOK(F, p, r, c.temp)

(* The client c, after k parts of the first of the messages F.             *)
ClientOK(c, F, k) ==
    /\ ClientTypes(c) /\ Intact(c)
    /\ c.connection = "up" => FileOK(c) /\ CommandsOK(c) /\ FlightOK(c, F, k)

ServerTypes ==
    /\ downloadName \in Files \cup {None} /\ download \in BOOLEAN
    /\ downloadClientBlock \in Nat
    /\ downloadCurrentBlock \in Nat /\ downloadXmitBlock \in Nat
    /\ downloadBlocks \in [0 .. MAX_DOWNLOAD_WINDOW - 1 -> Data]

FlightTypes ==
    /\ toClient \in Seq(Seq(Parts))
    /\ \A i \in DOMAIN toClient : \A j \in DOMAIN toClient[i] :
         toClient[i][j].block < Half

GoodInv ==
    /\ ServerTypes /\ FlightTypes
    /\ connection = "up" => WindowOK
    /\ ClientOK(Client, toClient, 0)

DownloadInv == mistaken \/ GoodInv

-----------------------------------------------------------------------------
(* Numbers, slots and places.                                              *)

(* Every block has a slot of the window.                                   *)
LEMMA SlotInWindow ==
  ASSUME NEW n \in Nat
  PROVE  Slot(n) \in 0 .. MAX_DOWNLOAD_WINDOW - 1
<1>1. MAX_DOWNLOAD_WINDOW \in Nat \ {0}
  BY SizesAssumption
<1> QED BY <1>1, SlotOf DEF Slot

(* Blocks less than a window apart have different slots.                   *)
LEMMA SlotsDiffer ==
  ASSUME NEW a \in Nat, NEW m \in Nat, NEW n \in Nat, Slot(m) = Slot(n),
         a <= m, a <= n, m < a + MAX_DOWNLOAD_WINDOW, n < a + MAX_DOWNLOAD_WINDOW
  PROVE  m = n
<1>1. MAX_DOWNLOAD_WINDOW \in Nat \ {0}
  BY SizesAssumption
<1>2. CASE m < n
  <2>1. n < m + MAX_DOWNLOAD_WINDOW
    BY <1>1, <1>2
  <2> QED BY <1>1, <1>2, <2>1, SlotsOfNeighbours DEF Slot
<1>3. CASE n < m
  <2>1. m < n + MAX_DOWNLOAD_WINDOW
    BY <1>1, <1>3
  <2> QED BY <1>1, <1>3, <2>1, SlotsOfNeighbours DEF Slot
<1> QED BY <1>2, <1>3

(* A number survives a short as long as it has the sign bit clear; a       *)
(* larger one comes out negative, up to twice that.                        *)
LEMMA ShortIs ==
  ASSUME NEW n \in Nat
  PROVE  /\ Short(n) \in Int /\ Short(n) < Half
         /\ n < Half => Short(n) = n
         /\ Half <= n /\ n < 2 * Half => Short(n) < 0
<1> DEFINE size == 2 * Half
           x == n + Half
           q == x \div size
           r == x % size
<1>1. Half \in Nat \ {0}
  BY ShortAssumption
<1>2. size \in Nat \ {0} /\ x \in Nat
  BY <1>1
<1>3. x = size * q + r /\ r \in 0 .. size - 1 /\ q \in Nat
  <2> HIDE DEF x, size
  <2> QED BY <1>2, SlotOf
<1>4. Short(n) = r - Half
  BY DEF Short
<1> HIDE DEF q, r
<1>5. ASSUME n < Half PROVE r = x
  <2>1. q >= 1 => size * q >= size
    <3> HIDE DEF size
    <3> QED BY <1>2, <1>3
  <2>2. q = 0 => size * q = 0
    <3> HIDE DEF size
    <3> QED BY <1>2
  <2>3. x < size
    BY <1>1, <1>5
  <2> HIDE DEF x, size
  <2> QED BY <1>2, <1>3, <2>1, <2>2, <2>3
<1>6. ASSUME Half <= n, n < 2 * Half PROVE r = x - size
  <2>1. q >= 2 => size * q >= 2 * size
    <3> HIDE DEF size
    <3> QED BY <1>2, <1>3
  <2>2. (q = 0 => size * q = 0) /\ (q = 1 => size * q = size)
    <3> HIDE DEF size
    <3> QED BY <1>2
  <2>3. size <= x /\ x < 2 * size
    BY <1>1, <1>6
  <2> HIDE DEF x, size
  <2> QED BY <1>2, <1>3, <2>1, <2>2, <2>3
<1> QED BY <1>1, <1>3, <1>4, <1>5, <1>6

(* Where a part of the messages F is.                                      *)
LEMMA PlaceIs ==
  ASSUME NEW F, NEW k
  PROVE  /\ \A i \in DOMAIN F : \A j \in DOMAIN F[i] :
              (i = 1 => j > k) /\ ~F[i][j].refused => <<i, j>> \in Places(F, k)
         /\ \A p \in Places(F, k) :
              /\ p[1] \in DOMAIN F /\ p[2] \in DOMAIN F[p[1]]
              /\ p = <<p[1], p[2]>>
              /\ p[1] = 1 => p[2] > k
              /\ ~F[p[1]][p[2]].refused
BY DEF Places

(* Messages and their parts are numbered from 1.                           *)
LEMMA PartNumbers ==
  ASSUME NEW F \in Seq(Seq(Parts)), NEW i \in DOMAIN F, NEW j \in DOMAIN F[i]
  PROVE  /\ i \in Nat /\ i >= 1 /\ i <= Len(F) /\ j \in Nat /\ j >= 1
         /\ F[i] \in Seq(Parts) /\ F[i][j] \in Parts
<1>1. DOMAIN F = 1 .. Len(F) /\ Len(F) \in Nat
  BY LenProperties
<1>2. F[i] \in Seq(Parts)
  BY <1>1, ElementOfSeq
<1>3. DOMAIN F[i] = 1 .. Len(F[i]) /\ Len(F[i]) \in Nat
  BY <1>2, LenProperties
<1>4. F[i][j] \in Parts
  BY <1>2, <1>3, ElementOfSeq
<1> QED BY <1>1, <1>2, <1>3, <1>4

(* The messages G hold parts of the messages F, in their order.            *)
Within(G, l, F, k) ==
    /\ \A p \in Places(G, l) : \E r \in Places(F, k) : Part(G, p) = Part(F, r)
    /\ \A p1, p2 \in Places(G, l) : Precedes(p1, p2) =>
         \E r1, r2 \in Places(F, k) :
            /\ Precedes(r1, r2)
            /\ Part(G, p1) = Part(F, r1) /\ Part(G, p2) = Part(F, r2)

(* Fewer parts in flight do no harm.                                       *)
LEMMA FlightWithin ==
  ASSUME NEW c, NEW F, NEW k, NEW G, NEW l, FlightOK(c, F, k), Within(G, l, F, k)
  PROVE  FlightOK(c, G, l)
<1>1. \A p \in Places(G, l) : \A i \in DOMAIN c.list : ~Is(G, p, c.list[i])
  BY DEF FlightOK, Within, Is
<1>2. ASSUME Receiving(c)
      PROVE  /\ \A p \in Places(G, l) : PartOK(c, Part(G, p))
             /\ \A p, r \in Places(G, l) : OrderOK(G, p, r, c.temp)
  <2>1. \A p \in Places(G, l) : PartOK(c, Part(G, p))
    <3>1. \A p \in Places(F, k) : PartOK(c, Part(F, p))
      BY <1>2 DEF FlightOK
    <3> QED BY <3>1 DEF Within
  <2>2. ASSUME NEW p1 \in Places(G, l), NEW p2 \in Places(G, l)
        PROVE  OrderOK(G, p1, p2, c.temp)
    <3>1. \A p, r \in Places(F, k) : OrderOK(F, p, r, c.temp)
      BY <1>2 DEF FlightOK
    <3>2. CASE Precedes(p1, p2)
      <4>1. PICK r1 \in Places(F, k), r2 \in Places(F, k) :
               /\ Precedes(r1, r2)
               /\ Part(G, p1) = Part(F, r1) /\ Part(G, p2) = Part(F, r2)
        BY <3>2 DEF Within
      <4> QED BY <3>1, <4>1 DEF OrderOK, Is
    <3> QED BY <3>2 DEF OrderOK
  <2> QED BY <2>1, <2>2
<1> QED BY <1>1, <1>2 DEF FlightOK

(* Reading a part.                                                         *)
LEMMA ReadOn ==
  ASSUME NEW F \in Seq(Seq(Parts)), NEW k \in Nat
  PROVE  Within(F, k + 1, F, k)
<1>1. \A p \in Places(F, k + 1) : p \in Places(F, k)
  <2> TAKE p \in Places(F, k + 1)
  <2>1. /\ p[1] \in DOMAIN F /\ p[2] \in DOMAIN F[p[1]] /\ p = <<p[1], p[2]>>
        /\ p[1] = 1 => p[2] > k + 1
        /\ ~F[p[1]][p[2]].refused
    BY PlaceIs
  <2>2. p[2] \in Nat
    BY <2>1, PartNumbers
  <2>3. p[1] = 1 => p[2] > k
    BY <2>1, <2>2
  <2>4. <<p[1], p[2]>> \in Places(F, k)
    BY <2>1, <2>3, PlaceIs
  <2> QED BY <2>1, <2>4
<1> QED BY <1>1 DEF Within

(* Reading or losing the first message.                                    *)
LEMMA ReadMessage ==
  ASSUME NEW F \in Seq(Seq(Parts)), F # <<>>, NEW k
  PROVE  Within(Tail(F), 0, F, k)
<1> DEFINE G == Tail(F)
           Old(p) == <<p[1] + 1, p[2]>>
<1>1. /\ G \in Seq(Seq(Parts))
      /\ \A i \in DOMAIN G : i + 1 \in DOMAIN F /\ G[i] = F[i + 1]
  BY TailOfMessages
<1>2. \A i \in DOMAIN G : i \in Nat /\ i >= 1
  <2> HIDE DEF G
  <2> QED BY <1>1, LenProperties
<1> HIDE DEF G
<1>3. \A p \in Places(G, 0) : Old(p) \in Places(F, k) /\ Part(G, p) = Part(F, Old(p))
  <2> TAKE p \in Places(G, 0)
  <2>1. /\ p[1] \in DOMAIN G /\ p[2] \in DOMAIN G[p[1]]
        /\ ~G[p[1]][p[2]].refused
    BY PlaceIs
  <2>2. PICK i \in DOMAIN G : i = p[1]
    BY <2>1
  <2>3. i + 1 \in DOMAIN F /\ G[i] = F[i + 1]
    BY <1>1
  <2>4. i + 1 # 1
    BY <1>2
  <2>5. p[2] \in DOMAIN F[i + 1] /\ ~F[i + 1][p[2]].refused
    BY <2>1, <2>2, <2>3
  <2>6. Old(p) \in Places(F, k)
    BY <2>2, <2>3, <2>4, <2>5, PlaceIs
  <2> QED BY <2>2, <2>3, <2>6 DEF Part
<1>4. \A p, r \in Places(G, 0) : Precedes(p, r) => Precedes(Old(p), Old(r))
  <2> TAKE p, r \in Places(G, 0)
  <2>1. p[1] \in Nat /\ r[1] \in Nat
    BY <1>2, PlaceIs
  <2> QED BY <2>1 DEF Precedes
<1>5. \A p \in Places(G, 0) : \E r \in Places(F, k) : Part(G, p) = Part(F, r)
  BY <1>3
<1>6. ASSUME NEW p1 \in Places(G, 0), NEW p2 \in Places(G, 0), Precedes(p1, p2)
      PROVE  \E r1, r2 \in Places(F, k) :
                /\ Precedes(r1, r2)
                /\ Part(G, p1) = Part(F, r1) /\ Part(G, p2) = Part(F, r2)
  <2> HIDE DEF Old
  <2> QED BY <1>3, <1>4, <1>6
<1> QED BY <1>5, <1>6 DEF Within, G

(* The blocks of a file, one by one.                                       *)
LEMMA ContentsAre ==
  ASSUME NEW f \in Files, NEW n \in Nat
  PROVE  /\ Contents(f, n) \in Seq(Data)
         /\ Block(f, n) \in Data
         /\ Append(Contents(f, n), Block(f, n)) = Contents(f, n + 1)
         /\ Contents(f, 0) = <<>>
<1>1. \A m \in Nat : Block(f, m) \in Data
  BY DEF Block, Data
<1>2. \A m \in Nat : Contents(f, m) \in Seq(Data) /\ Len(Contents(f, m)) = m
  <2> TAKE m \in Nat
  <2>1. Contents(f, m) \in [1 .. m -> Data]
    BY <1>1 DEF Contents
  <2> HIDE DEF Data
  <2> QED BY <2>1, FunctionIsSeq
<1>3. \A m \in Nat : \A i \in 1 .. m : Contents(f, m)[i] = Block(f, i - 1)
  BY DEF Contents
<1> DEFINE s == Contents(f, n)
           t == Append(s, Block(f, n))
           u == Contents(f, n + 1)
<1>4. s \in Seq(Data) /\ Len(s) = n /\ Block(f, n) \in Data
  BY <1>1, <1>2
<1>5. u \in Seq(Data) /\ Len(u) = n + 1
  BY <1>2
<1>6. /\ t \in Seq(Data) /\ Len(t) = n + 1
      /\ \A i \in 1 .. n : t[i] = s[i]
      /\ t[n + 1] = Block(f, n)
  <2> HIDE DEF s
  <2> QED BY <1>4, AppendProperties
<1>7. ASSUME NEW i \in 1 .. n + 1 PROVE t[i] = u[i]
  <2>1. u[i] = Block(f, i - 1)
    BY <1>3
  <2>2. CASE i = n + 1
    <3> HIDE DEF t, u
    <3> QED BY <1>6, <2>1, <2>2
  <2>3. CASE i # n + 1
    <3>1. i \in 1 .. n
      BY <2>3
    <3>2. s[i] = Block(f, i - 1)
      BY <1>3, <3>1
    <3> HIDE DEF s, t, u
    <3> QED BY <1>6, <2>1, <3>1, <3>2
  <2> QED BY <2>2, <2>3
<1>8. t = u
  <2> HIDE DEF t, u
  <2> QED BY <1>5, <1>6, <1>7, SeqEqual
<1>9. Contents(f, 0) = <<>>
  <2>1. Contents(f, 0) \in Seq(Data) /\ Len(Contents(f, 0)) = 0
    BY <1>2
  <2> QED BY <2>1, EmptySeq
<1> QED BY <1>4, <1>8, <1>9

-----------------------------------------------------------------------------
(* The commands of the client.                                             *)

(* A command that acknowledges nothing comes after the acknowledgements.   *)
LEMMA OtherCommand ==
  ASSUME NEW q \in Seq(Commands), NEW e \in Commands, e.command # "nextdl",
         AcksOK(q)
  PROVE  /\ Append(q, e) \in Seq(Commands) /\ AcksOK(Append(q, e))
         /\ \A i \in DOMAIN Append(q, e) :
              (i \in DOMAIN q /\ Append(q, e)[i] = q[i]) \/ Append(q, e)[i] = e
<1>1. /\ Append(q, e) \in Seq(Commands)
      /\ DOMAIN q = 1 .. Len(q) /\ Len(q) \in Nat
      /\ DOMAIN Append(q, e) = 1 .. Len(q) + 1
      /\ \A i \in 1 .. Len(q) : Append(q, e)[i] = q[i]
      /\ Append(q, e)[Len(q) + 1] = e
  BY AppendedMessage
<1> DEFINE t == Append(q, e)
<1> HIDE DEF t
<1>2. ASSUME NEW i \in DOMAIN t PROVE i \in 1 .. Len(q) \/ i = Len(q) + 1
  BY <1>1 DEF t
<1>3. ASSUME NEW i \in DOMAIN t, NEW j \in DOMAIN t, i \in 1 .. Len(q), j < i
      PROVE  j \in 1 .. Len(q)
  BY <1>1, <1>3 DEF t
<1>4. AcksOK(t)
  <2> SUFFICES ASSUME NEW i \in DOMAIN t, t[i].command = "nextdl"
               PROVE  /\ download /\ t[i].block = downloadClientBlock + i - 1
                      /\ t[i].block < downloadCurrentBlock
                      /\ t[i].block <= Blocks[downloadName] /\ t[i].block < Half
                      /\ \A j \in DOMAIN t : j < i => t[j].command = "nextdl"
    BY DEF AcksOK
  <2>1. i \in 1 .. Len(q) /\ i \in DOMAIN q /\ t[i] = q[i]
    BY <1>1, <1>2 DEF t
  <2>2. \A j \in DOMAIN t : j < i => j \in DOMAIN q /\ t[j] = q[j]
    BY <1>1, <1>3, <2>1 DEF t
  <2> QED BY <2>1, <2>2 DEF AcksOK
<1> QED BY <1>1, <1>2, <1>4 DEF t

(* The next acknowledgement.                                               *)
LEMMA NextAcknowledged ==
  ASSUME NEW q \in Seq(Commands), NEW b \in Nat, AcksOK(q),
         \A i \in DOMAIN q : q[i].command = "nextdl",
         download, downloadClientBlock \in Nat, b = downloadClientBlock + Len(q),
         b < downloadCurrentBlock, b <= Blocks[downloadName], b < Half,
         NEW e, e = [command |-> "nextdl", block |-> b]
  PROVE  /\ Append(q, e) \in Seq(Commands) /\ AcksOK(Append(q, e))
         /\ Len(Append(q, e)) = Len(q) + 1
         /\ \A i \in DOMAIN Append(q, e) : Append(q, e)[i].command = "nextdl"
<1>0. e \in Commands /\ e.command = "nextdl" /\ e.block = b
  BY DEF Commands
<1>1. /\ Append(q, e) \in Seq(Commands)
      /\ DOMAIN q = 1 .. Len(q) /\ Len(q) \in Nat
      /\ DOMAIN Append(q, e) = 1 .. Len(q) + 1
      /\ \A i \in 1 .. Len(q) : Append(q, e)[i] = q[i]
      /\ Append(q, e)[Len(q) + 1] = e
  BY <1>0, AppendedMessage
<1> DEFINE t == Append(q, e)
<1>5. Len(t) = Len(q) + 1
  OBVIOUS
<1> HIDE DEF t
<1>2. ASSUME NEW i \in DOMAIN t PROVE i \in 1 .. Len(q) \/ i = Len(q) + 1
  BY <1>1 DEF t
<1>3. \A i \in DOMAIN t : t[i].command = "nextdl"
  BY <1>0, <1>1, <1>2 DEF t
<1>4. AcksOK(t)
  <2> SUFFICES ASSUME NEW i \in DOMAIN t
               PROVE  /\ t[i].block = downloadClientBlock + i - 1
                      /\ t[i].block < downloadCurrentBlock
                      /\ t[i].block <= Blocks[downloadName] /\ t[i].block < Half
    BY <1>3 DEF AcksOK
  <2>1. CASE i \in 1 .. Len(q)
    <3>1. i \in DOMAIN q /\ t[i] = q[i]
      BY <1>1, <2>1 DEF t
    <3> QED BY <3>1 DEF AcksOK
  <2>2. CASE i = Len(q) + 1
    <3>1. t[i].block = b
      BY <1>0, <1>1, <2>2 DEF t
    <3>2. b = downloadClientBlock + i - 1
      BY <1>1, <2>2
    <3> QED BY <3>1, <3>2
  <2> QED BY <1>2, <2>1, <2>2
<1> QED BY <1>1, <1>3, <1>4, <1>5 DEF t

-----------------------------------------------------------------------------
(* The client reads a message, part by part.                               *)

(* The messages F hold numbers that a short can carry.                     *)
FlightIs(F) ==
    /\ F \in Seq(Seq(Parts))
    /\ \A i \in DOMAIN F : \A j \in DOMAIN F[i] : F[i][j].block < Half

(* The fields of a part.                                                   *)
LEMMA PartFields ==
  ASSUME NEW m \in Parts
  PROVE  m.block \in Int /\ m.refused \in BOOLEAN /\ (~m.refused => m.data \in Data)
<1>1. CASE m \in [block : Int, refused : {FALSE}, data : Data]
  BY <1>1
<1>2. CASE m \in [block : {0}, refused : {TRUE}]
  <2>1. m.block \in {0} /\ m.refused \in {TRUE}
    BY <1>2
  <2>2. m.block = 0 /\ m.refused
    BY <2>1
  <2> QED BY <2>2
<1> QED BY <1>1, <1>2 DEF Parts

(* What is left of the other parts when a part does not count.             *)
LEMMA PartIgnored ==
  ASSUME NEW F, FlightIs(F), NEW k \in Nat, NEW c, ClientOK(c, F, k)
  PROVE  ClientOK(c, F, k + 1)
<1>1. Within(F, k + 1, F, k)
  BY ReadOn DEF FlightIs
<1>2. c.connection = "up" => FlightOK(c, F, k + 1)
  BY <1>1, FlightWithin DEF ClientOK
<1> QED BY <1>2 DEF ClientOK

(* The block a client waits for is the one of that number of the file it   *)
(* takes down, unless that is the first of another; the server awaits its  *)
(* acknowledgement, and behind it are only blocks of that file.            *)
LEMMA AwaitedPart ==
  ASSUME ServerTypes, WindowOK, NEW F, FlightIs(F), F # <<>>, NEW k \in Nat,
         k + 1 \in DOMAIN F[1], ~F[1][k + 1].refused,
         NEW c, ClientOK(c, F, k), c.connection = "up", Receiving(c),
         F[1][k + 1].block = c.block,
         c.block = 0 => F[1][k + 1].data.file = c.temp
  PROVE  /\ F[1][k + 1].data = Block(c.temp, c.block)
         /\ download /\ downloadName = c.temp /\ c.temp \in Files
         /\ c.block < downloadCurrentBlock /\ c.block < Half
         /\ Served(c) /\ c.block = downloadClientBlock + Len(c.commands)
         /\ \A r \in Places(F, k + 1) : Is(F, r, c.temp) /\ PartOK(c, Part(F, r))
<1> DEFINE p == <<1, k + 1>>
           m == F[1][k + 1]
<1>1. F \in Seq(Seq(Parts)) /\ 1 \in DOMAIN F
  <2>1. F \in Seq(Seq(Parts))
    BY DEF FlightIs
  <2> QED BY <2>1, TailOfMessages
<1>2. k + 1 > k /\ p[1] = 1 /\ p[2] = k + 1
  OBVIOUS
<1>3. p \in Places(F, k) /\ Part(F, p) = m
  BY <1>1, <1>2, PlaceIs DEF Part
<1>4. m \in Parts /\ m.block < Half
  BY <1>1, PartNumbers DEF FlightIs
<1>5. FileOK(c) /\ CommandsOK(c) /\ FlightOK(c, F, k) /\ ClientTypes(c)
  BY DEF ClientOK
<1>6. PartOK(c, m)
  BY <1>3, <1>5 DEF FlightOK
<1>7. c.temp \in Files /\ c.block \in Nat /\ c.commands \in Seq(Commands)
  BY <1>5 DEF ClientTypes, Receiving
<1>8. m.data.file = c.temp
  BY <1>6 DEF PartOK
<1>9. /\ m.data = Block(c.temp, c.block)
      /\ download /\ downloadName = c.temp
      /\ c.block < downloadCurrentBlock /\ c.block < Half
  <2>1. m.block >= c.block
    BY <1>7
  <2> QED BY <1>4, <1>6, <1>8, <2>1 DEF PartOK
<1>10. Served(c)
  BY <1>5, <1>9 DEF CommandsOK, Asked
<1>11. c.block = downloadClientBlock + Len(c.commands)
  BY <1>9, <1>10 DEF Served
<1>12. ASSUME NEW r \in Places(F, k + 1)
       PROVE  Is(F, r, c.temp) /\ PartOK(c, Part(F, r))
  <2>1. /\ r[1] \in DOMAIN F /\ r[2] \in DOMAIN F[r[1]] /\ r = <<r[1], r[2]>>
        /\ r[1] = 1 => r[2] > k + 1
        /\ ~F[r[1]][r[2]].refused
    BY PlaceIs
  <2>2. r[1] \in Nat /\ r[1] >= 1 /\ r[2] \in Nat
    BY <1>1, <2>1, PartNumbers
  <2>3. r[1] = 1 => r[2] > k
    BY <2>1, <2>2
  <2>4. <<r[1], r[2]>> \in Places(F, k)
    BY <2>1, <2>3, PlaceIs
  <2>5. r \in Places(F, k)
    BY <2>1, <2>4
  <2>6. Precedes(p, r)
    BY <1>2, <2>1, <2>2 DEF Precedes
  <2>7. OrderOK(F, p, r, c.temp) /\ PartOK(c, Part(F, r))
    BY <1>3, <1>5, <2>5 DEF FlightOK
  <2>8. Is(F, p, c.temp)
    BY <1>3, <1>8 DEF Is
  <2> QED BY <2>6, <2>7, <2>8 DEF OrderOK
<1> QED BY <1>7, <1>9, <1>10, <1>11, <1>12

(* A block is written to the file and acknowledged.                        *)
LEMMA BlockWritten ==
  ASSUME ServerTypes, WindowOK, NEW F, FlightIs(F), F # <<>>, NEW k \in Nat,
         k + 1 \in DOMAIN F[1], ~F[1][k + 1].refused,
         NEW c, ClientOK(c, F, k), c.connection = "up", Receiving(c),
         F[1][k + 1].block = c.block, c.temp \notin Unwritable,
         c.block = 0 => F[1][k + 1].data.file = c.temp, c.block # Blocks[c.temp]
  PROVE  ClientOK(WriteBlock(c, F[1][k + 1].data), F, k + 1)
<1> DEFINE e == [command |-> "nextdl", block |-> c.block]
           q == Append(c.commands, e)
           d == [temp |-> c.temp, block |-> c.block + 1, list |-> c.list,
                 restart |-> c.restart,
                 file |-> Append(c.file, Block(c.temp, c.block)),
                 installed |-> c.installed, commands |-> q,
                 connection |-> c.connection]
<1>1. /\ F[1][k + 1].data = Block(c.temp, c.block)
      /\ download /\ downloadName = c.temp /\ c.temp \in Files
      /\ c.block < downloadCurrentBlock /\ c.block < Half
      /\ Served(c) /\ c.block = downloadClientBlock + Len(c.commands)
      /\ \A r \in Places(F, k + 1) : Is(F, r, c.temp) /\ PartOK(c, Part(F, r))
  BY AwaitedPart
<1>2. ClientTypes(c) /\ Intact(c) /\ FileOK(c) /\ CommandsOK(c) /\ FlightOK(c, F, k)
  BY DEF ClientOK
<1>3. c.commands \in Seq(Commands) /\ c.block \in Nat /\ c.file \in Seq(Data)
  BY <1>2 DEF ClientTypes
<1>4. Blocks[c.temp] \in Nat /\ c.block <= Blocks[c.temp] /\ Half \in Nat
  BY <1>1, <1>2, BlocksAssumption, ShortAssumption DEF FileOK
<1>5. WriteBlock(c, F[1][k + 1].data) = d
  <2>1. ~Block(c.temp, c.block).eof
    BY DEF Block
  <2> QED BY <1>1, <1>2, <2>1
          DEF WriteBlock, AcknowledgeBlock, Command, ClientTypes
<1>6. /\ q \in Seq(Commands) /\ AcksOK(q) /\ Len(q) = Len(c.commands) + 1
      /\ \A i \in DOMAIN q : q[i].command = "nextdl"
  <2>1. AcksOK(c.commands) /\ \A i \in DOMAIN c.commands : c.commands[i].command = "nextdl"
    BY <1>1, <1>2 DEF CommandsOK, Served
  <2>2. downloadClientBlock \in Nat
    BY DEF ServerTypes
  <2>3. PICK s : s = c.commands
    OBVIOUS
  <2>4. PICK b : b = c.block
    OBVIOUS
  <2>5. PICK a : a = e
    OBVIOUS
  <2> HIDE DEF e
  <2> QED BY <1>1, <1>3, <1>4, <2>1, <2>2, <2>3, <2>4, <2>5, NextAcknowledged DEF e
<1>7. Contents(c.temp, c.block + 1) = Append(c.file, Block(c.temp, c.block))
  BY <1>1, <1>2, <1>3, ContentsAre DEF FileOK
<1>8. Append(c.file, Block(c.temp, c.block)) \in Seq(Data)
  BY <1>1, <1>3, <1>7, ContentsAre
<1> HIDE DEF q, e
<1>9. ClientTypes(d) /\ Intact(d)
  BY <1>2, <1>3, <1>6, <1>8 DEF ClientTypes, Intact
<1>10. /\ d.temp = c.temp /\ d.block = c.block + 1 /\ d.list = c.list
       /\ d.file = Contents(c.temp, c.block + 1) /\ d.commands = q
  BY <1>7
<1>11. Receiving(d)
  <2>1. d.restart <=> c.restart
    OBVIOUS
  <2> HIDE DEF d
  <2> QED BY <1>10, <2>1, Zenon DEF Receiving
<1> HIDE DEF d
<1>12. c.block + 1 <= Blocks[c.temp] /\ c.block + 1 <= Half
  BY <1>1, <1>3, <1>4
<1>13. FileOK(d)
  BY <1>2, <1>10, <1>11, <1>12 DEF FileOK, Receiving
<1>14. CommandsOK(d)
  <2>1. d.block = downloadClientBlock + Len(d.commands)
    <3>1. downloadClientBlock \in Nat /\ Len(c.commands) \in Nat
      BY <1>3, LenProperties DEF ServerTypes
    <3>2. Len(d.commands) = Len(c.commands) + 1
      BY <1>6, <1>10
    <3>3. c.block = downloadClientBlock + Len(c.commands)
      BY <1>1
    <3> QED BY <1>10, <3>1, <3>2, <3>3
  <2>2. Served(d)
    BY <1>1, <1>6, <1>10, <2>1 DEF Served
  <2> QED BY <1>6, <1>10, <2>2 DEF CommandsOK
<1>15. FlightOK(d, F, k + 1)
  <2>1. FlightOK(c, F, k + 1)
    BY ReadOn, FlightWithin, <1>2 DEF FlightIs
  <2>2. ASSUME NEW r \in Places(F, k + 1) PROVE PartOK(d, Part(F, r))
    <3>1. PartOK(c, Part(F, r)) /\ Part(F, r).data.file = c.temp
      BY <1>1 DEF Is
    <3>2. Part(F, r).block \in Int
      <4>1. r[1] \in DOMAIN F /\ r[2] \in DOMAIN F[r[1]]
        BY PlaceIs
      <4>2. Part(F, r) \in Parts
        BY <4>1, PartNumbers DEF Part, FlightIs
      <4> QED BY <4>2, PartFields
    <3>3. Part(F, r).block >= c.block + 1 => Part(F, r).block >= c.block
      BY <1>3, <3>2
    <3> QED BY <1>10, <3>1, <3>3 DEF PartOK
  <2> QED BY <1>10, <2>1, <2>2, <1>11, <1>2 DEF FlightOK, Receiving
<1> QED BY <1>5, <1>9, <1>13, <1>14, <1>15 DEF ClientOK

(* The fields of the client.                                               *)
LEMMA FieldsAre ==
  ASSUME NEW c, ClientTypes(c)
  PROVE  c = [temp |-> c.temp, block |-> c.block, list |-> c.list,
              restart |-> c.restart, file |-> c.file,
              installed |-> c.installed, commands |-> c.commands,
              connection |-> c.connection]
BY DEF ClientTypes

(* Without a file being taken down nothing that arrives matters, and a     *)
(* command that is not an acknowledgement does no harm.                    *)
LEMMA Idle ==
  ASSUME NEW F, NEW k, NEW c, ~Receiving(c),
         c.temp # None => c.temp \in Unwritable /\ c.block = 0,
         ClientTypes(c), Intact(c),
         c.list = <<>>, c.connection = "up" => AcksOK(c.commands),
         \A i \in DOMAIN c.commands : c.commands[i].command = "download" =>
            c.commands[i].file = c.temp
  PROVE  ClientOK(c, F, k)
<1>1. DOMAIN c.list = {}
  BY EmptySeq
<1>2. FileOK(c)
  BY <1>1 DEF FileOK
<1>3. FlightOK(c, F, k)
  BY <1>1 DEF FlightOK
<1> QED BY <1>2, <1>3 DEF ClientOK, CommandsOK

(* No file is left to ask for.                                             *)
LEMMA Complete ==
  ASSUME NEW F, NEW k, NEW c,
         c.temp # None => c.temp \in Unwritable /\ c.block = 0,
         ClientTypes(c), Intact(c),
         c.list = <<>>, AcksOK(c.commands),
         \A i \in DOMAIN c.commands : c.commands[i].command = "download" =>
            c.commands[i].file = c.temp
  PROVE  ClientOK(CL_DownloadsComplete(c), F, k)
<1> DEFINE e == [command |-> "donedl"]
           q == Append(c.commands, e)
           d == [temp |-> c.temp, block |-> c.block, list |-> c.list,
                 restart |-> FALSE, file |-> c.file,
                 installed |-> c.installed, commands |-> q,
                 connection |-> c.connection]
           l == [temp |-> c.temp, block |-> c.block, list |-> c.list,
                 restart |-> c.restart, file |-> c.file,
                 installed |-> c.installed, commands |-> c.commands,
                 connection |-> "loading"]
<1>1. CL_DownloadsComplete(c) = IF c.restart THEN d ELSE l
  <2>1. Command([c EXCEPT !.restart = FALSE], e) = d
    <3>1. PICK no : no = FALSE
      OBVIOUS
    <3> DEFINE r == [temp |-> c.temp, block |-> c.block, list |-> c.list,
                     restart |-> no, file |-> c.file,
                     installed |-> c.installed, commands |-> c.commands,
                     connection |-> c.connection]
               t == [temp |-> c.temp, block |-> c.block, list |-> c.list,
                     restart |-> no, file |-> c.file,
                     installed |-> c.installed, commands |-> q,
                     connection |-> c.connection]
    <3>2. [c EXCEPT !.restart = no] = r
      BY ONLY FieldsAre, ClientTypes(c)
    <3>3. Command(r, e) = t
      <4> HIDE DEF e
      <4> QED BY DEF Command
    <3>4. Command([c EXCEPT !.restart = no], e) = t
      BY ONLY <3>2, <3>3
    <3>5. t = d
      BY ONLY <3>1
    <3> HIDE DEF t, d, e
    <3> QED BY ONLY <3>1, <3>4, <3>5, Zenon
  <2>2. [c EXCEPT !.connection = "loading"] = l
    BY FieldsAre
  <2> HIDE DEF d, l
  <2> QED BY <2>1, <2>2 DEF CL_DownloadsComplete
<1>2. c.commands \in Seq(Commands)
  BY DEF ClientTypes
<1>3. /\ q \in Seq(Commands) /\ AcksOK(q)
      /\ \A i \in DOMAIN q : q[i].command = "download" => q[i].file = c.temp
  <2>1. e \in Commands /\ e.command = "donedl"
    BY DEF Commands
  <2>2. PICK s : s = c.commands
    OBVIOUS
  <2>3. PICK a : a = e
    OBVIOUS
  <2>4. /\ q \in Seq(Commands) /\ AcksOK(q)
        /\ \A i \in DOMAIN q :
             (i \in DOMAIN c.commands /\ q[i] = c.commands[i]) \/ q[i] = e
    <3> HIDE DEF e
    <3> QED BY <1>2, <2>1, <2>2, <2>3, OtherCommand
  <2> HIDE DEF q, e
  <2> QED BY <2>1, <2>4
<1> HIDE DEF q, e
<1>4. ClientOK(d, F, k)
  <2>1. ClientTypes(d) /\ Intact(d)
    BY <1>3 DEF ClientTypes, Intact
  <2>2. d.temp = c.temp /\ d.block = c.block /\ d.list = c.list /\ d.commands = q
    OBVIOUS
  <2>3. PICK x : x = d
    OBVIOUS
  <2>5. ~d.restart
    OBVIOUS
  <2> HIDE DEF d
  <2>4. ~Receiving(x)
    BY <2>3, <2>5 DEF Receiving
  <2> QED BY <1>3, <2>1, <2>2, <2>3, <2>4, Idle
<1>5. ClientOK(l, F, k)
  <2>1. ClientTypes(l) /\ Intact(l)
    BY DEF ClientTypes, Intact
  <2>2. l.connection # "up"
    OBVIOUS
  <2> QED BY <2>1, <2>2 DEF ClientOK
<1> QED BY <1>1, <1>4, <1>5

(* The client has finished a file: it asks for the next.                   *)
LEMMA NextAsked ==
  ASSUME NEW c, ClientTypes(c), c.list # <<>>,
         NEW e, e = [command |-> "download", file |-> Head(c.list)]
  PROVE  CL_NextDownload(c) =
           [temp |-> Head(c.list), block |-> 0, list |-> Tail(c.list),
            restart |-> TRUE, file |-> <<>>, installed |-> c.installed,
            commands |-> Append(c.commands, e), connection |-> c.connection]
<1>1. PICK yes : yes = TRUE
  OBVIOUS
<1>2. PICK h : h = Head(c.list)
  OBVIOUS
<1>3. PICK l : l = Tail(c.list)
  OBVIOUS
<1>4. PICK s : s = <<>>
  OBVIOUS
<1>5. PICK q : q = Append(c.commands, e)
  OBVIOUS
<1> DEFINE r == [temp |-> h, block |-> 0, list |-> l,
                 restart |-> yes, file |-> s, installed |-> c.installed,
                 commands |-> c.commands, connection |-> c.connection]
           t == [temp |-> h, block |-> 0, list |-> l,
                 restart |-> yes, file |-> s, installed |-> c.installed,
                 commands |-> q, connection |-> c.connection]
           d == [temp |-> Head(c.list), block |-> 0, list |-> Tail(c.list),
                 restart |-> TRUE, file |-> <<>>, installed |-> c.installed,
                 commands |-> Append(c.commands, e), connection |-> c.connection]
<1>6. [c EXCEPT !.temp = h, !.list = l, !.block = 0, !.restart = yes, !.file = s] = r
  <2> DEFINE R(temp, list, block, restart, file) ==
               [temp |-> temp, block |-> block, list |-> list,
                restart |-> restart, file |-> file, installed |-> c.installed,
                commands |-> c.commands, connection |-> c.connection]
  <2>1. [c EXCEPT !.temp = h] = R(h, c.list, c.block, c.restart, c.file)
    BY ONLY FieldsAre, ClientTypes(c)
  <2>2. [R(h, c.list, c.block, c.restart, c.file) EXCEPT !.list = l]
          = R(h, l, c.block, c.restart, c.file)
    BY ONLY TRUE
  <2>3. [R(h, l, c.block, c.restart, c.file) EXCEPT !.block = 0]
          = R(h, l, 0, c.restart, c.file)
    BY ONLY TRUE
  <2>4. [R(h, l, 0, c.restart, c.file) EXCEPT !.restart = yes]
          = R(h, l, 0, yes, c.file)
    BY ONLY TRUE
  <2>5. [R(h, l, 0, yes, c.file) EXCEPT !.file = s] = r
    BY ONLY TRUE
  <2> HIDE DEF R, r
  <2> QED BY ONLY <2>1, <2>2, <2>3, <2>4, <2>5
<1>7. [r EXCEPT !.commands = q] = t
  BY ONLY TRUE
<1>8. Command(r, e) = [r EXCEPT !.commands = q]
  BY <1>5 DEF Command
<1>9. t = d
  BY <1>1, <1>2, <1>3, <1>4, <1>5, Zenon
<1>10. CL_NextDownload(c) =
        Command([c EXCEPT !.temp = h, !.list = l,
                          !.block = 0, !.restart = yes, !.file = s], e)
  BY <1>1, <1>2, <1>3, <1>4, Zenon DEF CL_NextDownload
<1> HIDE DEF t, d, r
<1>11. CL_NextDownload(c) = d
  BY ONLY <1>6, <1>7, <1>8, <1>9, <1>10
<1> QED BY <1>11 DEF d

(* The client asks for the next file of its list, and the messages in      *)
(* flight hold nothing but the file before it.                             *)
LEMMA NextFile ==
  ASSUME NEW F, NEW n, NEW c, ClientTypes(c), FileOK(c), c.list # <<>>,
         downloadName = c.temp, \A r \in Places(F, n) : Is(F, r, c.temp),
         NEW x, ClientTypes(x), Intact(x), x.list = c.list, AcksOK(x.commands),
         \A i \in DOMAIN x.commands : x.commands[i].command \in {"nextdl", "stopdl"}
  PROVE  ClientOK(CL_NextDownload(x), F, n)
<1>1. PICK h : h = [command |-> "download", file |-> Head(c.list)]
  OBVIOUS
<1>2. PICK q \in Seq(Commands) : q = x.commands
  BY DEF ClientTypes
<1> DEFINE t == Append(q, h)
           d == [temp |-> Head(c.list), block |-> 0, list |-> Tail(c.list),
                 restart |-> TRUE, file |-> <<>>, installed |-> x.installed,
                 commands |-> t, connection |-> x.connection]
<1>3. CL_NextDownload(x) = d
  BY <1>1, <1>2, NextAsked
<1>4. /\ Head(c.list) = c.list[1] /\ 1 \in DOMAIN c.list /\ Tail(c.list) \in Seq(Files)
      /\ \A i \in DOMAIN Tail(c.list) :
           i + 1 \in DOMAIN c.list /\ Tail(c.list)[i] = c.list[i + 1]
      /\ Len(Tail(c.list)) = Len(c.list) - 1 /\ Len(c.list) \in Nat
      /\ c.list \in Seq(Files)
  <2>1. c.list \in Seq(Files)
    BY DEF ClientTypes
  <2> QED BY <2>1, TailOfMessages
<1>5. c.list[1] \in Files
  BY <1>4
<1>6. h \in Commands /\ h.command = "download" /\ h.file = c.list[1]
  BY <1>1, <1>4, <1>5 DEF Commands
<1>7. /\ t \in Seq(Commands) /\ AcksOK(t)
      /\ DOMAIN q = 1 .. Len(q) /\ Len(q) \in Nat
      /\ DOMAIN t = 1 .. Len(q) + 1
      /\ \A i \in 1 .. Len(q) : t[i] = q[i]
      /\ t[Len(q) + 1] = h
  <2>1. t \in Seq(Commands) /\ AcksOK(t)
    <3>1. AcksOK(q) /\ h.command # "nextdl"
      BY <1>2, <1>6
    <3> QED BY <1>6, <3>1, OtherCommand
  <2>2. /\ DOMAIN q = 1 .. Len(q) /\ Len(q) \in Nat
        /\ DOMAIN t = 1 .. Len(q) + 1
        /\ \A i \in 1 .. Len(q) : t[i] = q[i]
        /\ t[Len(q) + 1] = h
    BY <1>6, AppendedMessage
  <2> QED BY <2>1, <2>2
<1>8. Len(t) = Len(q) + 1
  BY <1>2
<1> HIDE DEF t
<1>9. /\ d.temp = c.list[1] /\ d.block = 0 /\ d.list = Tail(c.list)
      /\ d.file = <<>> /\ d.installed = x.installed /\ d.commands = t
  BY <1>4
<1>10. d.restart
  OBVIOUS
<1>11. ClientTypes(d) /\ Intact(d)
  <2>1. <<>> \in Seq(Data) /\ TRUE \in BOOLEAN
    BY EmptySeq
  <2>2. PICK more : more = x.installed
    OBVIOUS
  <2>3. d \in [temp : Files \cup {None}, block : Nat, list : Seq(Files),
           restart : BOOLEAN, file : Seq(Data),
           installed : {more}, commands : Seq(Commands),
           connection : {"up", "refused", "illegible", "loading"}]
    BY <1>4, <1>5, <1>7, <2>1, <2>2 DEF ClientTypes
  <2> HIDE DEF d
  <2> QED BY <1>9, <2>2, <2>3 DEF ClientTypes, Intact
<1> HIDE DEF d
<1>12. \A i, j \in DOMAIN c.list : c.list[i] = c.list[j] => i = j
  BY DEF FileOK
<1>13. DOMAIN c.list = 1 .. Len(c.list) /\ DOMAIN d.list = 1 .. Len(c.list) - 1
  BY <1>4, <1>9, LenProperties
<1>14. \A i \in DOMAIN d.list : d.list[i] = c.list[i + 1] /\ i + 1 \in DOMAIN c.list
  BY <1>4, <1>9
<1>15. c.list[1] # c.temp /\ c.list[1] # None
  BY <1>4, <1>5, WantedAssumption DEF FileOK
<1>16. Receiving(d)
  BY <1>9, <1>10, <1>15 DEF Receiving
<1>17. FileOK(d)
  <2>1. /\ d.block <= Blocks[d.temp] /\ d.block <= Half
        /\ d.file = Contents(d.temp, d.block)
    <3>1. Blocks[c.list[1]] \in Nat /\ 0 <= Half
      BY <1>5, BlocksAssumption, ShortAssumption
    <3>2. Contents(c.list[1], 0) = <<>>
      BY <1>5, ContentsAre
    <3> QED BY <1>9, <3>1, <3>2
  <2>2. \A i, j \in DOMAIN d.list : d.list[i] = d.list[j] => i = j
    <3> TAKE i, j \in DOMAIN d.list
    <3>1. i \in Nat /\ j \in Nat
      BY <1>4, <1>13
    <3>2. i + 1 = j + 1 => i = j
      BY <3>1
    <3> QED BY <1>12, <1>14, <3>2
  <2>3. ASSUME NEW i \in DOMAIN d.list
        PROVE  d.list[i] # d.temp /\ d.list[i] # downloadName
    <3>1. i \in Nat /\ i + 1 # 1
      BY <1>4, <1>13
    <3>2. PICK l \in DOMAIN c.list : l = i + 1 /\ d.list[i] = c.list[l]
      BY <1>14
    <3>3. c.list[l] # c.list[1]
      BY <1>4, <1>12, <3>1, <3>2
    <3>4. c.list[l] # downloadName
      BY DEF FileOK
    <3> QED BY <1>9, <3>2, <3>3, <3>4
  <2> QED BY <1>9, <1>16, <2>1, <2>2, <2>3 DEF FileOK
<1>18. CommandsOK(d)
  <2>1. \A i \in DOMAIN t : i < Len(t) => t[i].command \in {"nextdl", "stopdl"}
    <3> TAKE i \in DOMAIN t
    <3>1. i < Len(t) => i \in 1 .. Len(q)
      BY <1>7, <1>8
    <3> QED BY <1>2, <1>7, <3>1
  <2>2. t # <<>> /\ t[Len(t)].command = "download"
    <3>1. Len(t) # 0
      BY <1>7, <1>8
    <3> QED BY <1>6, <1>7, <1>8, <3>1, EmptySeq
  <2>3. Asked(d)
    BY <1>9, <1>15, <2>1, <2>2 DEF Asked
  <2>4. \A i \in DOMAIN t : t[i].command = "download" => t[i].file = c.list[1]
    <3> TAKE i \in DOMAIN t
    <3>1. i \in 1 .. Len(q) \/ i = Len(q) + 1
      BY <1>7
    <3>2. i \in 1 .. Len(q) => t[i].command # "download"
      BY <1>2, <1>7
    <3> QED BY <1>6, <1>7, <3>1, <3>2
  <2> QED BY <1>7, <1>9, <2>3, <2>4 DEF CommandsOK
<1>19. FlightOK(d, F, n)
  <2>1. \A r \in Places(F, n) : Part(F, r).data.file = c.temp
    BY DEF Is
  <2>2. \A r \in Places(F, n) : \A i \in DOMAIN d.list : ~Is(F, r, d.list[i])
    BY <1>14, <2>1 DEF Is, FileOK
  <2>3. \A r \in Places(F, n) : PartOK(d, Part(F, r))
    BY <1>9, <1>15, <2>1 DEF PartOK
  <2>4. \A r \in Places(F, n) : ~Is(F, r, d.temp)
    BY <1>9, <1>15, <2>1 DEF Is
  <2> QED BY <2>2, <2>3, <2>4 DEF FlightOK, OrderOK
<1> QED BY <1>3, <1>11, <1>17, <1>18, <1>19 DEF ClientOK

(* A file that cannot be created is given up.                              *)
LEMMA GivenUp ==
  ASSUME ServerTypes, WindowOK, NEW F, FlightIs(F), F # <<>>, NEW k \in Nat,
         k + 1 \in DOMAIN F[1], ~F[1][k + 1].refused,
         NEW c, ClientOK(c, F, k), c.connection = "up",
         c.temp # None, c.temp \in Unwritable, c.block = 0,
         F[1][k + 1].block = 0, F[1][k + 1].data.file = c.temp
  PROVE  ClientOK(CL_NextDownload(Command(c, [command |-> "stopdl"])), F, k + 1)
<1> DEFINE e == [command |-> "stopdl"]
           q == Append(c.commands, e)
           d == [temp |-> c.temp, block |-> c.block, list |-> c.list,
                 restart |-> c.restart, file |-> c.file,
                 installed |-> c.installed, commands |-> q,
                 connection |-> c.connection]
<1>1. ClientTypes(c) /\ Intact(c) /\ FileOK(c) /\ CommandsOK(c)
  BY DEF ClientOK
<1>2. Command(c, e) = d
  <2> HIDE DEF e
  <2> QED BY ONLY FieldsAre, <1>1 DEF Command
<1>3. c.commands \in Seq(Commands)
  BY <1>1 DEF ClientTypes
<1>4. /\ q \in Seq(Commands) /\ AcksOK(q)
      /\ \A i \in DOMAIN q : q[i].command = "download" => q[i].file = c.temp
      /\ \A i \in DOMAIN q :
           (i \in DOMAIN c.commands /\ q[i] = c.commands[i]) \/ q[i].command = "stopdl"
  <2>1. e \in Commands /\ e.command = "stopdl"
    BY DEF Commands
  <2>2. PICK s : s = c.commands
    OBVIOUS
  <2>3. PICK a : a = e
    OBVIOUS
  <2>4. /\ q \in Seq(Commands) /\ AcksOK(q)
        /\ \A i \in DOMAIN q :
             (i \in DOMAIN c.commands /\ q[i] = c.commands[i]) \/ q[i] = e
    <3> HIDE DEF e
    <3> QED BY <1>1, <1>3, <2>1, <2>2, <2>3, OtherCommand DEF CommandsOK
  <2>5. \A i \in DOMAIN c.commands : c.commands[i].command = "download" =>
            c.commands[i].file = c.temp
    BY <1>1 DEF CommandsOK
  <2> HIDE DEF q, e
  <2> QED BY <2>1, <2>4, <2>5
<1> HIDE DEF q, e
<1>5. ClientTypes(d) /\ Intact(d)
  BY <1>1, <1>4 DEF ClientTypes, Intact
<1>6. d.temp = c.temp /\ d.block = c.block /\ d.list = c.list /\ d.commands = q
  OBVIOUS
<1>7. PICK x : x = d
  OBVIOUS
<1> HIDE DEF d
<1>8. PICK n : n = k + 1
  OBVIOUS
<1>9. ASSUME c.list = <<>> PROVE ClientOK(CL_NextDownload(x), F, n)
  <2>1. CL_NextDownload(x) = CL_DownloadsComplete(x)
    BY <1>6, <1>7, <1>9 DEF CL_NextDownload
  <2> QED BY <1>4, <1>5, <1>6, <1>7, <1>9, <2>1, Complete
<1>10. ASSUME c.list # <<>> PROVE ClientOK(CL_NextDownload(x), F, n)
  <2>1. Receiving(c)
    BY <1>1, <1>10 DEF FileOK
  <2>2. /\ downloadName = c.temp /\ Served(c)
        /\ \A r \in Places(F, n) : Is(F, r, c.temp)
    BY <1>8, <2>1, AwaitedPart
  <2>3. \A i \in DOMAIN x.commands : x.commands[i].command \in {"nextdl", "stopdl"}
    BY <1>4, <1>6, <1>7, <2>2 DEF Served
  <2>4. AcksOK(x.commands)
    BY <1>4, <1>6, <1>7
  <2> QED BY <1>1, <1>5, <1>6, <1>7, <1>10, <2>2, <2>3, <2>4, NextFile
<1>11. ClientOK(CL_NextDownload(x), F, n)
  BY <1>9, <1>10
<1> QED BY <1>2, <1>7, <1>8, <1>11 DEF e

(* The last block has arrived.                                             *)
LEMMA FileFinished ==
  ASSUME ServerTypes, WindowOK, NEW F, FlightIs(F), F # <<>>, NEW k \in Nat,
         k + 1 \in DOMAIN F[1], ~F[1][k + 1].refused,
         NEW c, ClientOK(c, F, k), c.connection = "up", Receiving(c),
         F[1][k + 1].block = c.block, c.block = Blocks[c.temp],
         c.block = 0 => F[1][k + 1].data.file = c.temp
  PROVE  ClientOK(WriteBlock(c, F[1][k + 1].data), F, k + 1)
<1> DEFINE e == [command |-> "nextdl", block |-> c.block]
           q == Append(c.commands, e)
           more == [f \in DOMAIN c.installed \cup {c.temp} |->
                      IF f = c.temp THEN c.file ELSE c.installed[f]]
           a == [temp |-> None, block |-> c.block + 1, list |-> c.list,
                 restart |-> c.restart, file |-> c.file,
                 installed |-> more, commands |-> q,
                 connection |-> c.connection]
<1>1. /\ F[1][k + 1].data = Block(c.temp, c.block)
      /\ download /\ downloadName = c.temp /\ c.temp \in Files
      /\ c.block < downloadCurrentBlock /\ c.block < Half
      /\ Served(c) /\ c.block = downloadClientBlock + Len(c.commands)
      /\ \A r \in Places(F, k + 1) : Is(F, r, c.temp)
  BY AwaitedPart
<1>2. ClientTypes(c) /\ Intact(c) /\ FileOK(c) /\ CommandsOK(c) /\ FlightOK(c, F, k)
  BY DEF ClientOK
<1>3. c.commands \in Seq(Commands) /\ c.block \in Nat /\ c.file \in Seq(Data)
      /\ c.list \in Seq(Files) /\ DOMAIN c.installed \subseteq Files
  BY <1>2 DEF ClientTypes
<1>5. WriteBlock(c, F[1][k + 1].data) = CL_NextDownload(a)
  <2>1. Block(c.temp, c.block).eof
    BY DEF Block
  <2>2. [AcknowledgeBlock(c) EXCEPT !.temp = None, !.installed = more] = a
    <3>1. PICK b : b = c.block + 1
      OBVIOUS
    <3>3. PICK y : y = q
      OBVIOUS
    <3> DEFINE r == [temp |-> c.temp, block |-> b, list |-> c.list,
                     restart |-> c.restart, file |-> c.file,
                     installed |-> c.installed, commands |-> c.commands,
                     connection |-> c.connection]
               s == [temp |-> c.temp, block |-> b, list |-> c.list,
                     restart |-> c.restart, file |-> c.file,
                     installed |-> c.installed, commands |-> y,
                     connection |-> c.connection]
               u == [temp |-> None, block |-> b, list |-> c.list,
                     restart |-> c.restart, file |-> c.file,
                     installed |-> c.installed, commands |-> y,
                     connection |-> c.connection]
    <3>2. [c EXCEPT !.block = b] = r
      BY ONLY FieldsAre, <1>2
    <3>4. [r EXCEPT !.commands = y] = s
      BY ONLY TRUE
    <3>5. Command(r, e) = [r EXCEPT !.commands = y]
      BY <3>3 DEF Command
    <3>6. AcknowledgeBlock(c) = s
      <4>1. AcknowledgeBlock(c) = Command([c EXCEPT !.block = b], e)
        BY <3>1 DEF AcknowledgeBlock
      <4> HIDE DEF r, s
      <4> QED BY ONLY <3>2, <3>4, <3>5, <4>1
    <3>7. PICK i : i = more
      OBVIOUS
    <3>8. [s EXCEPT !.temp = None, !.installed = i] = a
      <4>1. [s EXCEPT !.temp = None] = u
        BY ONLY TRUE
      <4>2. [u EXCEPT !.installed = i] =
              [temp |-> None, block |-> b, list |-> c.list,
               restart |-> c.restart, file |-> c.file,
               installed |-> i, commands |-> y, connection |-> c.connection]
        BY ONLY TRUE
      <4>3. [u EXCEPT !.installed = i] = a
        <5> HIDE DEF q, e, more, u
        <5> QED BY <3>1, <3>3, <3>7, <4>2
      <4> HIDE DEF a, s, u
      <4> QED BY ONLY <4>1, <4>3
    <3> HIDE DEF a, s, more
    <3> QED BY <3>6, <3>7, <3>8
  <2> HIDE DEF a
  <2> QED BY <1>1, <2>1, <2>2 DEF WriteBlock
<1>6. /\ q \in Seq(Commands) /\ AcksOK(q) /\ Len(q) = Len(c.commands) + 1
      /\ \A i \in DOMAIN q : q[i].command = "nextdl"
  <2>1. AcksOK(c.commands) /\ \A i \in DOMAIN c.commands : c.commands[i].command = "nextdl"
    BY <1>1, <1>2 DEF CommandsOK, Served
  <2>2. downloadClientBlock \in Nat
    BY DEF ServerTypes
  <2>3. PICK s : s = c.commands
    OBVIOUS
  <2>4. PICK b : b = c.block
    OBVIOUS
  <2>5. PICK x : x = e
    OBVIOUS
  <2>6. c.block <= Blocks[downloadName]
    BY <1>1, <1>3
  <2> HIDE DEF e
  <2> QED BY <1>1, <1>3, <2>1, <2>2, <2>3, <2>4, <2>5, <2>6, NextAcknowledged DEF e
<1>7. DOMAIN more \subseteq Files /\ \A f \in DOMAIN more : more[f] = Contents(f, Blocks[f])
  BY <1>1, <1>2, <1>3 DEF FileOK, Intact
<1> HIDE DEF q, e, more
<1>8. ClientTypes(a) /\ Intact(a)
  BY <1>2, <1>3, <1>6, <1>7 DEF ClientTypes, Intact
<1>9. /\ a.temp = None /\ a.list = c.list /\ a.commands = q /\ a.installed = more
      /\ a.connection = "up"
  OBVIOUS
<1>10. PICK x : x = a
  OBVIOUS
<1>11. PICK n : n = k + 1
  OBVIOUS
<1> HIDE DEF a
<1>12. ASSUME c.list = <<>> PROVE ClientOK(CL_NextDownload(x), F, n)
  <2>1. CL_NextDownload(x) = CL_DownloadsComplete(x)
    BY <1>9, <1>10, <1>12 DEF CL_NextDownload
  <2>2. x.temp = None
    BY <1>9, <1>10
  <2>3. \A i \in DOMAIN x.commands : x.commands[i].command # "download"
    BY <1>6, <1>9, <1>10
  <2> QED BY <1>6, <1>8, <1>9, <1>10, <1>12, <2>1, <2>2, <2>3, Complete
<1>13. ASSUME c.list # <<>> PROVE ClientOK(CL_NextDownload(x), F, n)
  <2>1. /\ \A i \in DOMAIN x.commands : x.commands[i].command \in {"nextdl", "stopdl"}
        /\ AcksOK(x.commands)
    BY <1>6, <1>9, <1>10
  <2>2. \A r \in Places(F, n) : Is(F, r, c.temp)
    BY <1>1, <1>11
  <2> QED BY <1>1, <1>2, <1>8, <1>9, <1>10, <1>13, <2>1, <2>2, NextFile
<1> QED BY <1>5, <1>10, <1>11, <1>12, <1>13

(* A part of a message keeps the client right.                             *)
LEMMA OnePart ==
  ASSUME ServerTypes, WindowOK, NEW F, FlightIs(F), F # <<>>, NEW k \in Nat,
         k + 1 \in DOMAIN F[1], NEW c, ClientOK(c, F, k), ~Mistakes(c, F[1][k + 1])
  PROVE  ClientOK(CL_ParseDownload(c, F[1][k + 1]), F, k + 1)
<1>0. PICK m : m = F[1][k + 1]
  OBVIOUS
<1> DEFINE d == CL_ParseDownload(c, m)
<1>1. ClientOK(c, F, k + 1)
  BY PartIgnored
<1>2. ClientTypes(c) /\ Intact(c)
  BY DEF ClientOK
<1>3. CASE c.connection # "up"
  <2>1. d = c
    BY <1>3 DEF CL_ParseDownload
  <2> HIDE DEF d
  <2> QED BY <1>0, <1>1, <2>1 DEF d
<1>4. CASE c.connection = "up" /\ c.temp = None
  <2>1. PICK q : q = Append(c.commands, [command |-> "stopdl"])
    OBVIOUS
  <2> DEFINE r == [temp |-> c.temp, block |-> c.block, list |-> c.list,
                   restart |-> c.restart, file |-> c.file,
                   installed |-> c.installed, commands |-> q,
                   connection |-> c.connection]
             s == [temp |-> c.temp, block |-> c.block, list |-> c.list,
                   restart |-> c.restart, file |-> c.file,
                   installed |-> c.installed, commands |-> q,
                   connection |-> "illegible"]
  <2>2. [c EXCEPT !.commands = q] = r
    BY ONLY FieldsAre, <1>2
  <2>3. [r EXCEPT !.connection = "illegible"] = s
    BY ONLY TRUE
  <2>4. Command(c, [command |-> "stopdl"]) = [c EXCEPT !.commands = q]
    BY <2>1 DEF Command
  <2>5. d = s
    <3> HIDE DEF r, s
    <3> QED BY <1>4, <2>2, <2>3, <2>4 DEF CL_ParseDownload, StrayBlock
  <2>6. q \in Seq(Commands)
    <3>1. [command |-> "stopdl"] \in Commands
      BY DEF Commands
    <3>2. c.commands \in Seq(Commands)
      BY <1>2 DEF ClientTypes
    <3> QED BY <2>1, <3>1, <3>2, AppendProperties
  <2>7. ClientTypes(s) /\ Intact(s) /\ s.connection # "up"
    BY <1>2, <2>6 DEF ClientTypes, Intact
  <2> HIDE DEF d, s
  <2> QED BY <1>0, <2>5, <2>7 DEF d, ClientOK
<1>5. CASE c.connection = "up" /\ c.temp # None /\ m.refused
  <2> DEFINE s == [temp |-> c.temp, block |-> c.block, list |-> c.list,
                   restart |-> c.restart, file |-> c.file,
                   installed |-> c.installed, commands |-> c.commands,
                   connection |-> "refused"]
  <2>1. [c EXCEPT !.connection = "refused"] = s
    BY ONLY FieldsAre, <1>2
  <2>2. d = s
    <3> HIDE DEF s
    <3> QED BY <1>5, <2>1 DEF CL_ParseDownload
  <2>3. ClientTypes(s) /\ Intact(s) /\ s.connection # "up"
    BY <1>2 DEF ClientTypes, Intact
  <2> HIDE DEF d, s
  <2> QED BY <1>0, <2>2, <2>3 DEF d, ClientOK
<1>6. CASE c.connection = "up" /\ c.temp # None /\ ~m.refused /\ c.block # m.block
  <2>1. d = c
    BY <1>6 DEF CL_ParseDownload, Awaited
  <2> HIDE DEF d
  <2> QED BY <1>0, <1>1, <2>1 DEF d
<1>7. CASE c.connection = "up" /\ c.temp # None /\ ~m.refused /\ c.block = m.block
  <2>1. ~F[1][k + 1].refused /\ F[1][k + 1].block = c.block
    BY <1>0, <1>7
  <2>2. c.block = 0 => F[1][k + 1].data.file = c.temp
    BY <1>0, <1>7 DEF Mistakes, Awaited
  <2>3. CASE c.temp \in Unwritable
    <3>1. c.block = 0
      BY <1>7, <2>3 DEF ClientOK, FileOK
    <3>2. d = CL_NextDownload(Command(c, [command |-> "stopdl"]))
      BY <1>7, <2>3, <3>1 DEF CL_ParseDownload, Awaited
    <3>3. ClientOK(CL_NextDownload(Command(c, [command |-> "stopdl"])), F, k + 1)
      BY <1>7, <2>1, <2>2, <2>3, <3>1, GivenUp
    <3> HIDE DEF d
    <3> QED BY <1>0, <3>2, <3>3 DEF d
  <2>4. CASE c.temp \notin Unwritable
    <3>1. d = WriteBlock(c, m.data)
      BY <1>7, <2>4 DEF CL_ParseDownload, Awaited
    <3>2. Receiving(c)
      BY <1>7, <2>4 DEF ClientOK, FileOK
    <3>3. ClientOK(WriteBlock(c, F[1][k + 1].data), F, k + 1)
      BY <1>7, <2>1, <2>2, <2>4, <3>2, BlockWritten, FileFinished
    <3> HIDE DEF d
    <3> QED BY <1>0, <3>1, <3>3 DEF d
  <2> QED BY <2>3, <2>4
<1> QED BY <1>3, <1>4, <1>5, <1>6, <1>7

(* The client after each of the parts of a message.                        *)
OneByOne(a, c, m, b) ==
    a = [n \in 0 .. b |-> IF n = 0 THEN c ELSE CL_ParseDownload(a[n - 1], m[n])]

(* It exists: the client before a part tells the client after it.          *)
LEMMA OneByOneExists ==
  ASSUME NEW c, NEW m, NEW b \in Nat
  PROVE  \E a : OneByOne(a, c, m, b)
<1> DEFINE S == {e \in Nat : ~ \E a : OneByOne(a, c, m, e)}
<1>1. SUFFICES ASSUME S # {} PROVE FALSE
  OBVIOUS
<1>2. PICK e \in S : \A d \in S : e <= d
  <2> HIDE DEF S
  <2>1. S \subseteq Nat
    BY DEF S
  <2> QED BY <1>1, <2>1, LeastNumber
<1>3. e \in Nat /\ ~ \E a : OneByOne(a, c, m, e)
  OBVIOUS
<1>4. CASE e = 0
  <2> DEFINE f == [n \in 0 .. 0 |-> c]
  <2>1. f = [n \in 0 .. 0 |-> IF n = 0 THEN c ELSE CL_ParseDownload(f[n - 1], m[n])]
    <3>1. \A n \in 0 .. 0 : n = 0
      OBVIOUS
    <3> QED BY <3>1
  <2>2. OneByOne(f, c, m, e)
    BY <1>4, <2>1 DEF OneByOne
  <2> QED BY <1>3, <2>2
<1>5. CASE e # 0
  <2>1. e - 1 \in Nat /\ ~(e <= e - 1)
    BY <1>3, <1>5
  <2>2. PICK f : OneByOne(f, c, m, e - 1)
    BY <1>2, <2>1
  <2> DEFINE g == [n \in 0 .. e |-> IF n <= e - 1 THEN f[n]
                                    ELSE CL_ParseDownload(f[e - 1], m[e])]
  <2>3. ASSUME NEW n \in 0 .. e
        PROVE  g[n] = IF n = 0 THEN c ELSE CL_ParseDownload(g[n - 1], m[n])
    <3>1. n \in Nat /\ n - 1 <= e - 1
      BY <1>3
    <3>2. CASE n <= e - 1
      <4>1. n \in 0 .. e - 1
        BY <1>3, <3>1, <3>2
      <4>2. f[n] = IF n = 0 THEN c ELSE CL_ParseDownload(f[n - 1], m[n])
        BY <2>2, <4>1 DEF OneByOne
      <4>3. n # 0 => n - 1 \in 0 .. e /\ n - 1 <= e - 1
        BY <1>3, <3>1, <4>1
      <4>4. n # 0 => g[n - 1] = f[n - 1]
        BY <4>3
      <4>5. g[n] = f[n]
        BY <3>2
      <4> QED BY <4>2, <4>4, <4>5
    <3>3. CASE ~(n <= e - 1)
      <4>1. n = e
        BY <1>3, <3>1, <3>3
      <4>2. e - 1 \in 0 .. e /\ e - 1 <= e - 1
        BY <1>3, <2>1
      <4>3. g[e - 1] = f[e - 1]
        BY <4>2
      <4>4. g[n] = CL_ParseDownload(f[e - 1], m[e])
        BY <3>3
      <4> QED BY <1>5, <4>1, <4>3, <4>4
    <3> QED BY <3>2, <3>3
  <2>4. g = [n \in 0 .. e |-> g[n]]
    OBVIOUS
  <2> HIDE DEF g
  <2>5. OneByOne(g, c, m, e)
    BY <2>3, <2>4 DEF OneByOne
  <2> QED BY <1>3, <2>5
<1> QED BY <1>4, <1>5

(* All parts of a message keep the client right.                           *)
LEMMA AllParts ==
  ASSUME ServerTypes, WindowOK, NEW F, FlightIs(F), F # <<>>,
         NEW c, ClientOK(c, F, 0), NEW a, OneByOne(a, c, F[1], Len(F[1])),
         \A n \in DOMAIN F[1] : ~Mistakes(a[n - 1], F[1][n])
  PROVE  ClientOK(a[Len(F[1])], F, Len(F[1]))
<1>1. F \in Seq(Seq(Parts)) /\ 1 \in DOMAIN F
  <2>1. F \in Seq(Seq(Parts))
    BY DEF FlightIs
  <2> QED BY <2>1, TailOfMessages
<1>2. F[1] \in Seq(Parts) /\ Len(F[1]) \in Nat /\ DOMAIN F[1] = 1 .. Len(F[1])
  <2>1. F[1] \in Seq(Parts)
    <3>1. DOMAIN F = 1 .. Len(F)
      BY <1>1, LenProperties
    <3> QED BY <1>1, <3>1, ElementOfSeq
  <2> QED BY <2>1, LenProperties
<1> DEFINE S == {n \in Nat : n <= Len(F[1]) /\ ~ClientOK(a[n], F, n)}
<1>3. ASSUME S # {} PROVE FALSE
  <2>1. PICK n \in S : \A m \in S : n <= m
    <3> HIDE DEF S
    <3>1. S \subseteq Nat
      BY DEF S
    <3> QED BY <1>3, <3>1, LeastNumber
  <2>2. n \in Nat /\ n <= Len(F[1]) /\ ~ClientOK(a[n], F, n) /\ n \in 0 .. Len(F[1])
    BY <1>2
  <2>3. a[n] = IF n = 0 THEN c ELSE CL_ParseDownload(a[n - 1], F[1][n])
    BY <2>2 DEF OneByOne
  <2>4. n # 0
    BY <2>2, <2>3
  <2>5. n - 1 \in Nat /\ n - 1 <= Len(F[1]) /\ ~(n <= n - 1) /\ n - 1 + 1 = n
    BY <1>2, <2>2, <2>4
  <2>6. ClientOK(a[n - 1], F, n - 1)
    BY <2>1, <2>5
  <2>7. n - 1 + 1 \in DOMAIN F[1]
    BY <1>2, <2>2, <2>4
  <2>8. PICK k : k = n - 1
    OBVIOUS
  <2>9. ClientOK(CL_ParseDownload(a[k], F[1][k + 1]), F, k + 1)
    <3>1. ~Mistakes(a[k], F[1][k + 1])
      BY <2>5, <2>7, <2>8
    <3> QED BY <2>5, <2>6, <2>7, <2>8, <3>1, OnePart
  <2>10. k + 1 = n /\ a[n] = CL_ParseDownload(a[k], F[1][n])
    BY <2>3, <2>4, <2>5, <2>8
  <2> QED BY <2>2, <2>9, <2>10
<1> QED BY <1>2, <1>3

-----------------------------------------------------------------------------
(* The steps.                                                              *)

(* What there is of the client and in flight after a step.                 *)
LEMMA ClientNext ==
  ASSUME NEW d, d = Client', NEW G, G = toClient', ClientOK(d, G, 0)'
  PROVE  ClientOK(Client, toClient, 0)'
BY DEF ClientOK, ClientTypes, Intact, FileOK, CommandsOK, AcksOK, Asked, Served,
       FlightOK, PartOK, OrderOK, Is, Part, Places, Precedes, Receiving

(* The client's end when nothing has changed for it.                       *)
LEMMA ServerStays ==
  ASSUME NEW d, NEW G, NEW k, UNCHANGED serverVars, ClientOK(d, G, k)
  PROVE  ClientOK(d, G, k)'
BY DEF ClientOK, ClientTypes, Intact, FileOK, CommandsOK, AcksOK, Asked, Served,
       FlightOK, PartOK, OrderOK, Is, Part, Places, Precedes, Receiving, serverVars

(* The window stays.                                                       *)
LEMMA WindowStays ==
  ASSUME UNCHANGED serverVars, WindowOK
  PROVE  WindowOK'
BY DEF WindowOK, serverVars

(* The types of what the server keeps stay.                                *)
LEMMA ServerTypesStay ==
  ASSUME UNCHANGED serverVars, ServerTypes
  PROVE  ServerTypes'
BY DEF ServerTypes, serverVars

(* Messages that are taken leave a proper flight.                          *)
LEMMA FlightTail ==
  ASSUME NEW F, FlightIs(F), F # <<>>
  PROVE  FlightIs(Tail(F))
<1>1. F \in Seq(Seq(Parts))
  BY DEF FlightIs
<1>2. /\ Tail(F) \in Seq(Seq(Parts))
      /\ \A i \in DOMAIN Tail(F) : i + 1 \in DOMAIN F /\ Tail(F)[i] = F[i + 1]
  BY <1>1, TailOfMessages
<1> QED BY <1>2 DEF FlightIs

(* A message is lost.                                                      *)
LEMMA LoseStep ==
  ASSUME GoodInv, Lose
  PROVE  GoodInv'
<1>1. PICK c : c = Client
  OBVIOUS
<1>2. PICK F : F = toClient
  OBVIOUS
<1>3. PICK G : G = toClient'
  OBVIOUS
<1>4. F # <<>> /\ G = Tail(F) /\ UNCHANGED serverVars /\ UNCHANGED connection
      /\ c = Client'
  BY <1>1, <1>2, <1>3 DEF Lose, Client, clientVars
<1>5. FlightIs(F) /\ ClientOK(c, F, 0)
  BY <1>1, <1>2 DEF GoodInv, FlightTypes, FlightIs
<1>6. FlightIs(G)
  BY <1>4, <1>5, FlightTail
<1>7. FlightTypes'
  BY <1>3, <1>6 DEF FlightTypes, FlightIs
<1>8. Within(G, 0, F, 0)
  BY <1>4, <1>5, ReadMessage DEF FlightIs
<1>9. ClientOK(c, G, 0)
  BY <1>5, <1>8, FlightWithin DEF ClientOK
<1>10. ClientOK(Client, toClient, 0)'
  BY <1>3, <1>4, <1>9, ServerStays, ClientNext
<1>11. ServerTypes' /\ (connection' = "up" => WindowOK')
  BY <1>4, WindowStays, ServerTypesStay DEF GoodInv
<1> QED BY <1>7, <1>10, <1>11 DEF GoodInv

(* A message is read.                                                      *)
LEMMA ReadStep ==
  ASSUME GoodInv, CL_ParseServerMessage, ~mistaken'
  PROVE  GoodInv'
<1>1. PICK c : c = Client
  OBVIOUS
<1>2. PICK F : F = toClient
  OBVIOUS
<1>3. PICK G : G = toClient'
  OBVIOUS
<1> DEFINE M == Head(F)
           a == CHOOSE a : a = [n \in 0 .. Len(M) |-> IF n = 0 THEN c
                                          ELSE CL_ParseDownload(a[n - 1], M[n])]
           d == a[Len(M)]
<1>4. /\ connection = "up" /\ F # <<>> /\ G = Tail(F) /\ UNCHANGED serverVars
      /\ downloadTempName' = d.temp /\ downloadBlock' = d.block
      /\ downloadList' = d.list /\ downloadRestart' = d.restart
      /\ received' = d.file
      /\ installed' = d.installed /\ toServer' = d.commands
      /\ connection' = d.connection
      /\ \A n \in DOMAIN M : ~Mistakes(a[n - 1], M[n])
  BY <1>1, <1>2, <1>3 DEF CL_ParseServerMessage
<1>5. FlightIs(F) /\ ClientOK(c, F, 0)
  BY <1>1, <1>2 DEF GoodInv, FlightTypes, FlightIs
<1>6. M = F[1] /\ F[1] \in Seq(Parts)
  <2>1. F \in Seq(Seq(Parts))
    BY <1>5 DEF FlightIs
  <2>2. 1 \in DOMAIN F /\ Head(F) = F[1] /\ DOMAIN F = 1 .. Len(F)
    BY <1>4, <2>1, TailOfMessages, LenProperties
  <2> QED BY <2>1, <2>2, ElementOfSeq
<1>7. OneByOne(a, c, M, Len(M))
  <2>1. Len(M) \in Nat
    BY <1>6, LenProperties
  <2>2. \E f : OneByOne(f, c, M, Len(M))
    <3>1. PICK m : m = M
      OBVIOUS
    <3>2. PICK b \in Nat : b = Len(M)
      BY <2>1
    <3> HIDE DEF M
    <3>3. \E f : OneByOne(f, c, m, b)
      BY OneByOneExists
    <3> QED BY <3>1, <3>2, <3>3
  <2> HIDE DEF M
  <2> QED BY <2>2 DEF OneByOne
<1> HIDE DEF a
<1>8. WindowOK /\ ServerTypes
  BY <1>4 DEF GoodInv
<1>9. PICK x : x = d
  OBVIOUS
<1>10. ClientOK(x, F, Len(F[1]))
  BY <1>4, <1>5, <1>6, <1>7, <1>8, <1>9, AllParts
<1> HIDE DEF d, M
<1>11. x = Client'
  BY <1>4, <1>9, <1>10, FieldsAre DEF Client, ClientOK
<1>12. Within(G, 0, F, Len(F[1]))
  BY <1>4, <1>5, ReadMessage DEF FlightIs
<1>13. PICK k : k = Len(F[1])
  OBVIOUS
<1>14. ClientOK(x, G, 0)
  BY <1>10, <1>12, <1>13, FlightWithin DEF ClientOK
<1>15. ClientOK(Client, toClient, 0)'
  BY <1>3, <1>4, <1>11, <1>14, ServerStays, ClientNext
<1>16. FlightTypes'
  <2>1. FlightIs(G)
    BY <1>4, <1>5, FlightTail
  <2> QED BY <1>3, <2>1 DEF FlightTypes, FlightIs
<1>17. ServerTypes' /\ WindowOK'
  BY <1>4, <1>8, WindowStays, ServerTypesStay
<1> QED BY <1>15, <1>16, <1>17 DEF GoodInv

(* What the first command tells.  Unless it is an acknowledgement there    *)
(* are none; and while a file is awaited it is an acknowledgement, or a    *)
(* file before it has been given up, or it asks for that file, alone.      *)
LEMMA FirstCommand ==
  ASSUME NEW c, ClientTypes(c), CommandsOK(c), c.commands # <<>>
  PROVE  /\ 1 \in DOMAIN c.commands /\ Head(c.commands) = c.commands[1]
         /\ Head(c.commands) \in Commands
         /\ Head(c.commands).command # "nextdl" =>
              \A i \in DOMAIN c.commands : c.commands[i].command # "nextdl"
         /\ Receiving(c) =>
              \/ Head(c.commands).command = "nextdl"
              \/ Head(c.commands).command = "stopdl" /\ Asked(c)
              \/ /\ Head(c.commands).command = "download" /\ Asked(c)
                 /\ Head(c.commands).file = c.temp
                 /\ Tail(c.commands) = <<>>
<1>1. c.commands \in Seq(Commands)
  BY DEF ClientTypes
<1>2. /\ 1 \in DOMAIN c.commands /\ Head(c.commands) = c.commands[1]
      /\ DOMAIN c.commands = 1 .. Len(c.commands) /\ Len(c.commands) \in Nat
  BY <1>1, TailOfMessages, LenProperties
<1>3. c.commands[1] \in Commands
  BY <1>1, <1>2, ElementOfSeq
<1>4. ASSUME Head(c.commands).command # "nextdl", NEW i \in DOMAIN c.commands
      PROVE  c.commands[i].command # "nextdl"
  <2>1. CASE i = 1
    BY <1>2, <1>4, <2>1
  <2>2. CASE i # 1
    <3>1. 1 < i
      BY <1>2, <2>2
    <3> QED BY <1>2, <1>4, <3>1 DEF CommandsOK, AcksOK
  <2> QED BY <2>1, <2>2
<1>5. ASSUME Receiving(c), Head(c.commands).command \notin {"nextdl", "stopdl"}
      PROVE  /\ Head(c.commands).command = "download" /\ Asked(c)
             /\ Head(c.commands).file = c.temp
             /\ Tail(c.commands) = <<>>
  <2>1. Asked(c)
    BY <1>2, <1>5 DEF CommandsOK, Served
  <2>2. ~(1 < Len(c.commands))
    BY <1>2, <1>5, <2>1 DEF Asked
  <2>3. Len(c.commands) = 1
    <3>1. 1 \in 1 .. Len(c.commands) /\ Len(c.commands) \in Nat
      BY <1>2
    <3>2. PICK n : n = Len(c.commands)
      OBVIOUS
    <3>3. n \in Nat /\ 1 <= n /\ ~(1 < n)
      BY <2>2, <3>1, <3>2
    <3>4. n = 1
      BY ONLY <3>3
    <3> QED BY <3>2, <3>4
  <2>4. Head(c.commands).command = "download"
    BY <1>2, <2>1, <2>3 DEF Asked
  <2>5. Tail(c.commands) \in Seq(Commands) /\ Len(Tail(c.commands)) = 0
    BY <1>1, <2>3, HeadTailProperties
  <2>6. Tail(c.commands) = <<>>
    BY <2>5, EmptySeq
  <2>7. Head(c.commands).file = c.temp
    BY <1>2, <2>4 DEF CommandsOK
  <2> QED BY <2>1, <2>4, <2>6, <2>7
<1>6. Receiving(c) /\ Head(c.commands).command = "stopdl" => Asked(c)
  BY <1>2 DEF CommandsOK, Served
<1> QED BY <1>2, <1>3, <1>4, <1>5, <1>6

(* What there is when the server reads a command.                          *)
LEMMA Commanded ==
  ASSUME GoodInv, SV_ExecuteClientCommand, connection' = "up",
         NEW c, c = Client, NEW d, d = Client', NEW F, F = toClient
  PROVE  /\ ClientTypes(c) /\ FileOK(c) /\ CommandsOK(c) /\ FlightOK(c, F, 0)
         /\ WindowOK /\ ServerTypes
         /\ c.commands # <<>> /\ c.commands = toServer
         /\ d.temp = c.temp /\ d.block = c.block /\ d.list = c.list
         /\ d.file = c.file /\ d.commands = Tail(c.commands)
         /\ Receiving(d) <=> Receiving(c)
         /\ d.connection = "up" /\ ClientTypes(d) /\ Intact(d)
         /\ F = toClient' /\ FlightTypes'
         /\ downloadCurrentBlock' = downloadCurrentBlock
         /\ downloadXmitBlock' = downloadXmitBlock
<1>1. /\ connection = "up" /\ toServer # <<>> /\ toServer' = Tail(toServer)
      /\ UNCHANGED <<downloadCurrentBlock, downloadXmitBlock, toClient, clientVars>>
  BY DEF SV_ExecuteClientCommand
<1>2. ClientOK(c, F, 0) /\ ServerTypes /\ FlightTypes /\ WindowOK
  BY <1>1 DEF GoodInv
<1>3. c.connection = "up" /\ c.commands = toServer
  BY <1>1 DEF Client
<1>4. ClientTypes(c) /\ Intact(c) /\ FileOK(c) /\ CommandsOK(c) /\ FlightOK(c, F, 0)
  BY <1>2, <1>3 DEF ClientOK
<1>5. d = [temp |-> c.temp, block |-> c.block, list |-> c.list,
           restart |-> c.restart, file |-> c.file, installed |-> c.installed,
           commands |-> Tail(c.commands), connection |-> "up"]
  BY <1>1 DEF Client, clientVars
<1>6. Tail(c.commands) \in Seq(Commands)
  <2>1. c.commands \in Seq(Commands)
    BY <1>4 DEF ClientTypes
  <2> QED BY <1>1, <1>3, <2>1, TailOfMessages
<1>7. ClientTypes(d) /\ Intact(d)
  BY <1>4, <1>5, <1>6 DEF ClientTypes, Intact
<1>8. FlightTypes'
  BY <1>1, <1>2 DEF FlightTypes
<1>9. Receiving(d) <=> Receiving(c)
  <2>1. c.temp = d.temp /\ c.restart = d.restart
    BY <1>1 DEF Client, clientVars
  <2> QED BY <2>1, Zenon DEF Receiving
<1> QED BY <1>1, <1>2, <1>3, <1>4, <1>5, <1>7, <1>8, <1>9

(* What there is to show then.                                             *)
LEMMA CommandDone ==
  ASSUME GoodInv, SV_ExecuteClientCommand, connection' = "up",
         NEW c, c = Client, NEW d, d = Client', NEW F, F = toClient,
         ServerTypes', WindowOK', FileOK(d)', CommandsOK(d)', FlightOK(d, F, 0)'
  PROVE  GoodInv'
<1>1. ClientTypes(d) /\ Intact(d) /\ F = toClient' /\ FlightTypes'
  BY Commanded
<1>2. ClientTypes(d)' /\ Intact(d)'
  BY <1>1 DEF ClientTypes, Intact
<1>3. ClientOK(d, F, 0)'
  BY <1>2 DEF ClientOK
<1>4. ClientOK(Client, toClient, 0)'
  BY <1>1, <1>3, ClientNext
<1> QED BY <1>1, <1>4 DEF GoodInv

(* The messages stay right for a client that takes down the same file, or  *)
(* none.                                                                   *)
LEMMA FlightNext ==
  ASSUME NEW c, NEW d, NEW F, NEW k, FlightOK(c, F, k),
         d.temp = c.temp, d.list = c.list, Receiving(d) <=> Receiving(c),
         Receiving(c) => \A p \in Places(F, k) : PartOK(d, Part(F, p))'
  PROVE  FlightOK(d, F, k)'
<1>1. \A p \in Places(F, k) : \A i \in DOMAIN d.list : ~Is(F, p, d.list[i])
  BY DEF FlightOK
<1>3. Receiving(c) => \A p, r \in Places(F, k) : OrderOK(F, p, r, d.temp)
  BY DEF FlightOK
<1> QED BY <1>1, <1>3
        DEF FlightOK, Places, Is, Part, Precedes, OrderOK, Receiving

(* A command that acknowledges nothing, while no file is taken down.       *)
LEMMA OtherTaken ==
  ASSUME GoodInv, SV_ExecuteClientCommand, connection' = "up",
         NEW c, c = Client, NEW d, d = Client', NEW F, F = toClient,
         ~Receiving(c), Head(toServer).command # "nextdl",
         ServerTypes', WindowOK'
  PROVE  GoodInv'
<1>1. /\ ClientTypes(c) /\ FileOK(c) /\ CommandsOK(c) /\ FlightOK(c, F, 0)
      /\ c.commands # <<>> /\ c.commands = toServer /\ c.commands \in Seq(Commands)
      /\ d.temp = c.temp /\ d.block = c.block /\ d.list = c.list
      /\ d.file = c.file /\ d.commands = Tail(c.commands) /\ ~Receiving(d)
  <2>1. ClientTypes(c)
    BY Commanded
  <2> QED BY <2>1, Commanded DEF ClientTypes
<1>2. \A i \in DOMAIN c.commands : c.commands[i].command # "nextdl"
  BY <1>1, FirstCommand
<1>3. \A i \in DOMAIN Tail(c.commands) :
        i + 1 \in DOMAIN c.commands /\ Tail(c.commands)[i] = c.commands[i + 1]
  BY <1>1, TailOfMessages
<1>5. c.list = <<>> /\ DOMAIN d.list = {}
  BY <1>1, EmptySeq DEF FileOK
<1>6. FileOK(d)'
  BY <1>1, <1>5 DEF FileOK, Receiving
<1>7. CommandsOK(d)'
  <2>1. \A i \in DOMAIN d.commands : /\ d.commands[i].command # "nextdl"
                                     /\ d.commands[i].command = "download" =>
                                          d.commands[i].file = d.temp
    BY <1>1, <1>2, <1>3 DEF CommandsOK
  <2> QED BY <1>1, <2>1 DEF CommandsOK, AcksOK, Receiving
<1>8. FlightOK(d, F, 0)'
  BY <1>1, FlightNext
<1> QED BY <1>6, <1>7, <1>8, CommandDone

(* The download is closed.                                                 *)
LEMMA Closed ==
  ASSUME GoodInv, SV_ExecuteClientCommand, SV_CloseDownload,
         downloadName' \in Files \cup {None}, downloadClientBlock' \in Nat
  PROVE  ServerTypes' /\ WindowOK'
<1>1. /\ ServerTypes
      /\ UNCHANGED <<downloadCurrentBlock, downloadXmitBlock>>
  BY DEF GoodInv, SV_ExecuteClientCommand
<1>2. download' = FALSE
      /\ downloadBlocks' =
         [i \in DOMAIN downloadBlocks |->
            [downloadBlocks[i] EXCEPT !.file = None]]
  BY DEF SV_CloseDownload
<1>3. downloadBlocks' \in [0 .. MAX_DOWNLOAD_WINDOW - 1 -> Data]
  <2>1. downloadBlocks \in [0 .. MAX_DOWNLOAD_WINDOW - 1 -> Data]
    BY <1>1 DEF ServerTypes
  <2>2. \A x \in Data : [x EXCEPT !.file = None] \in Data
    BY DEF Data
  <2> QED BY <1>2, <2>1, <2>2
<1>4. ServerTypes'
  BY <1>1, <1>2, <1>3 DEF ServerTypes
<1>5. WindowOK'
  BY <1>2 DEF WindowOK
<1> QED BY <1>4, <1>5

(* The files still to ask for are files.                                   *)
LEMMA ListedFiles ==
  ASSUME NEW c, ClientTypes(c)
  PROVE  \A i \in DOMAIN c.list : c.list[i] # None
<1>1. c.list \in Seq(Files)
  BY DEF ClientTypes
<1>2. \A i \in DOMAIN c.list : c.list[i] \in Files
  BY <1>1, LenProperties, ElementOfSeq
<1> QED BY <1>2, WantedAssumption

(* The request for a file stays behind the command that is taken.          *)
LEMMA CommandLeft ==
  ASSUME NEW c, c.commands \in Seq(Commands), c.commands # <<>>, Asked(c),
         Head(c.commands).command # "download"
  PROVE  LET q == Tail(c.commands) IN
         /\ q # <<>> /\ q[Len(q)].command = "download"
         /\ \A i \in DOMAIN q : i + 1 \in DOMAIN c.commands /\ q[i] = c.commands[i + 1]
         /\ \A i \in DOMAIN q :
              i < Len(q) => q[i].command \in {"nextdl", "stopdl"}
<1>1. PICK s \in Seq(Commands) : s = c.commands
  OBVIOUS
<1>2. PICK q : q = Tail(s)
  OBVIOUS
<1>3. /\ Head(s) = s[1] /\ q \in Seq(Commands)
      /\ \A i \in DOMAIN q : i + 1 \in DOMAIN s /\ q[i] = s[i + 1]
  BY <1>1, <1>2, TailOfMessages
<1>4. PICK n \in Nat : n = Len(s)
  BY <1>1, LenProperties
<1>5. n # 0 /\ n # 1
  BY <1>1, <1>3, <1>4, EmptySeq DEF Asked
<1>6. Len(q) = n - 1 /\ DOMAIN q = 1 .. n - 1
  <2>1. Len(q) = n - 1
    BY <1>1, <1>2, <1>4, HeadTailProperties
  <2> QED BY <1>3, <2>1, LenProperties
<1>7. n - 1 \in DOMAIN q /\ n - 1 + 1 = n
  BY <1>5, <1>6
<1>8. q # <<>> /\ q[n - 1].command = "download"
  <2>1. q[n - 1] = s[n]
    BY <1>3, <1>7
  <2>2. q # <<>>
    BY <1>7, EmptySeq
  <2> QED BY <1>1, <1>4, <2>1, <2>2 DEF Asked
<1>9. ASSUME NEW i \in DOMAIN q, i < n - 1 PROVE q[i].command \in {"nextdl", "stopdl"}
  <2>1. i + 1 < n
    BY <1>6, <1>9
  <2>2. PICK k \in DOMAIN s : k = i + 1 /\ q[i] = s[k]
    BY <1>3
  <2> QED BY <1>1, <1>4, <2>1, <2>2 DEF Asked
<1> QED BY <1>1, <1>2, <1>3, <1>6, <1>8, <1>9

(* A part of another file, before the first block of the one awaited.      *)
LEMMA PartAhead ==
  ASSUME NEW c, NEW d, NEW F, NEW k, FlightOK(c, F, k), Receiving(c), Asked(c),
         d.temp = c.temp, d.block = c.block, NEW p \in Places(F, k)
  PROVE  PartOK(d, Part(F, p))'
<1>1. PartOK(c, Part(F, p)) /\ downloadName # c.temp /\ c.block = 0
  BY DEF FlightOK, Asked
<1>2. Part(F, p).data.file # d.temp /\ d.block = 0
  BY <1>1 DEF PartOK
<1> QED BY <1>2 DEF PartOK, Part

(* "stopdl"                                                                *)
LEMMA StopStep ==
  ASSUME GoodInv, SV_ExecuteClientCommand, SV_StopDownload
  PROVE  GoodInv'
<1>1. PICK c : c = Client
  OBVIOUS
<1>2. PICK d : d = Client'
  OBVIOUS
<1>3. PICK F : F = toClient
  OBVIOUS
<1>4. connection' = "up" /\ Head(toServer).command = "stopdl"
      /\ SV_CloseDownload /\ downloadName' = None
      /\ UNCHANGED downloadClientBlock
  BY DEF SV_ExecuteClientCommand, SV_StopDownload
<1>5. /\ ClientTypes(c) /\ FileOK(c) /\ CommandsOK(c) /\ FlightOK(c, F, 0)
      /\ ServerTypes
      /\ c.commands # <<>> /\ c.commands = toServer
      /\ d.temp = c.temp /\ d.block = c.block /\ d.list = c.list
      /\ d.file = c.file /\ d.commands = Tail(c.commands)
      /\ Receiving(d) <=> Receiving(c)
  BY <1>1, <1>2, <1>3, <1>4, Commanded
<1>6. ServerTypes' /\ WindowOK'
  BY <1>4, <1>5, Closed DEF ServerTypes
<1>7. CASE ~Receiving(c)
  BY <1>1, <1>2, <1>3, <1>4, <1>6, <1>7, OtherTaken
<1>8. CASE Receiving(c)
  <2>1. Asked(c) /\ \A i \in DOMAIN c.commands : c.commands[i].command # "nextdl"
    BY <1>4, <1>5, <1>8, FirstCommand
  <2>2. c.commands \in Seq(Commands)
    BY <1>5 DEF ClientTypes
  <2>3. /\ d.commands # <<>>
        /\ d.commands[Len(d.commands)].command = "download"
        /\ \A i \in DOMAIN d.commands :
             /\ d.commands[i].command # "nextdl"
             /\ d.commands[i].command = "download" => d.commands[i].file = d.temp
             /\ i < Len(d.commands) => d.commands[i].command \in {"nextdl", "stopdl"}
    BY <1>4, <1>5, <1>8, <2>1, <2>2, CommandLeft DEF CommandsOK
  <2>4. FileOK(d)'
    <3>1. \A i \in DOMAIN c.list : c.list[i] # None
      BY <1>5, ListedFiles
    <3> QED BY <1>4, <1>5, <3>1 DEF FileOK, Receiving
  <2>5. CommandsOK(d)'
    <3>1. d.temp # None /\ d.block = 0
      BY <1>5, <1>8, <2>1 DEF Receiving, Asked
    <3>2. Asked(d)'
      BY <1>4, <2>3, <3>1 DEF Asked
    <3> QED BY <2>3, <3>2 DEF CommandsOK, AcksOK
  <2>6. ASSUME NEW p \in Places(F, 0) PROVE PartOK(d, Part(F, p))'
    BY <1>5, <1>8, <2>1, PartAhead
  <2>7. FlightOK(d, F, 0)'
    BY <1>5, <2>6, FlightNext
  <2> QED BY <1>1, <1>2, <1>3, <1>4, <1>6, <2>4, <2>5, <2>7, CommandDone
<1> QED BY <1>7, <1>8

(* "donedl"                                                                *)
LEMMA DoneStep ==
  ASSUME GoodInv, SV_ExecuteClientCommand, SV_DoneDownload
  PROVE  GoodInv'
<1>1. PICK c : c = Client
  OBVIOUS
<1>2. PICK d : d = Client'
  OBVIOUS
<1>3. PICK F : F = toClient
  OBVIOUS
<1>4. connection' = "up" /\ Head(toServer).command = "donedl"
      /\ UNCHANGED serverVars
  BY DEF SV_ExecuteClientCommand, SV_DoneDownload, serverVars
<1>5. /\ ClientTypes(c) /\ CommandsOK(c) /\ ServerTypes /\ WindowOK
      /\ c.commands # <<>> /\ c.commands = toServer
  BY <1>1, <1>2, <1>3, <1>4, Commanded
<1>6. ~Receiving(c)
  BY <1>4, <1>5, FirstCommand
<1>7. ServerTypes' /\ WindowOK'
  BY <1>4, <1>5, ServerTypesStay, WindowStays
<1> QED BY <1>1, <1>2, <1>3, <1>4, <1>6, <1>7, OtherTaken

(* "download"                                                              *)
LEMMA BeginStep ==
  ASSUME GoodInv, SV_ExecuteClientCommand, SV_BeginDownload
  PROVE  GoodInv'
<1>1. PICK c : c = Client
  OBVIOUS
<1>2. PICK d : d = Client'
  OBVIOUS
<1>3. PICK F : F = toClient
  OBVIOUS
<1>4. connection' = "up" /\ Head(toServer).command = "download"
      /\ SV_CloseDownload /\ downloadName' = Head(toServer).file
      /\ UNCHANGED downloadClientBlock
  BY DEF SV_ExecuteClientCommand, SV_BeginDownload
<1>5. /\ ClientTypes(c) /\ FileOK(c) /\ CommandsOK(c) /\ FlightOK(c, F, 0)
      /\ ServerTypes
      /\ c.commands # <<>> /\ c.commands = toServer
      /\ d.temp = c.temp /\ d.block = c.block /\ d.list = c.list
      /\ d.file = c.file /\ d.commands = Tail(c.commands)
      /\ Receiving(d) <=> Receiving(c)
  BY <1>1, <1>2, <1>3, <1>4, Commanded
<1>6. Head(toServer) \in Commands
  BY <1>5, FirstCommand
<1>7. downloadName' \in Files
  BY <1>4, <1>6 DEF Commands
<1>8. ServerTypes' /\ WindowOK'
  BY <1>4, <1>5, <1>7, Closed DEF ServerTypes
<1>9. CASE ~Receiving(c)
  BY <1>1, <1>2, <1>3, <1>4, <1>8, <1>9, OtherTaken
<1>10. CASE Receiving(c)
  <2>1. Asked(c) /\ downloadName' = c.temp /\ Tail(c.commands) = <<>>
    BY <1>4, <1>5, <1>10, FirstCommand
  <2>2. Receiving(d) /\ DOMAIN d.commands = {} /\ d.commands = <<>> /\ d.block = 0
    BY <1>5, <1>10, <2>1, EmptySeq DEF Receiving, Asked
  <2>3. FileOK(d)'
    BY <1>5, <2>1 DEF FileOK, Receiving
  <2>4. download' = FALSE
    BY <1>4 DEF SV_CloseDownload
  <2>5. CommandsOK(d)'
    BY <1>5, <2>1, <2>2, <2>4 DEF CommandsOK, AcksOK, Served
  <2>6. ASSUME NEW p \in Places(F, 0) PROVE PartOK(d, Part(F, p))'
    BY <1>5, <1>10, <2>1, PartAhead
  <2>7. FlightOK(d, F, 0)'
    BY <1>5, <2>6, FlightNext
  <2> QED BY <1>1, <1>2, <1>3, <1>4, <1>8, <2>3, <2>5, <2>7, CommandDone
<1> QED BY <1>9, <1>10

(* "nextdl"                                                                *)
LEMMA NextStep ==
  ASSUME GoodInv, SV_ExecuteClientCommand, SV_NextDownload
  PROVE  GoodInv'
<1>1. PICK c : c = Client
  OBVIOUS
<1>2. PICK d : d = Client'
  OBVIOUS
<1>3. PICK F : F = toClient
  OBVIOUS
<1> DEFINE block == Head(toServer).block
<1>4. /\ connection = "up" /\ WindowOK /\ ServerTypes /\ Head(toServer).command = "nextdl"
      /\ c.commands = toServer /\ c.commands # <<>>
      /\ ClientTypes(c) /\ CommandsOK(c) /\ c.commands \in Seq(Commands)
  <2>1. connection = "up" /\ toServer # <<>> /\ Head(toServer).command = "nextdl"
    BY DEF SV_ExecuteClientCommand, SV_NextDownload
  <2>2. c.connection = "up" /\ c.commands = toServer
    BY <1>1, <2>1 DEF Client
  <2> QED BY <1>1, <2>1, <2>2 DEF GoodInv, ClientOK, ClientTypes
<1>5. /\ 1 \in DOMAIN c.commands /\ Head(c.commands) = c.commands[1]
      /\ DOMAIN c.commands = 1 .. Len(c.commands) /\ Len(c.commands) \in Nat
  BY <1>4, TailOfMessages, LenProperties
<1>6. /\ download /\ block = downloadClientBlock + 1 - 1
      /\ block < downloadCurrentBlock /\ block <= Blocks[downloadName] /\ block < Half
  BY <1>4, <1>5 DEF CommandsOK, AcksOK
<1>7. /\ downloadClientBlock \in Nat /\ downloadCurrentBlock \in Nat
      /\ MAX_DOWNLOAD_WINDOW \in Nat /\ Half \in Nat
      /\ downloadName \in Files /\ Blocks[downloadName] \in Nat
  BY <1>4, <1>6, BlocksAssumption, SizesAssumption, ShortAssumption
     DEF WindowOK, ServerTypes
<1>8. block = downloadClientBlock
  BY <1>6, <1>7
<1>9. downloadBlocks[Slot(block)].eof = (block = Blocks[downloadName])
  <2>1. block \in downloadClientBlock .. downloadCurrentBlock - 1
    BY <1>6, <1>7, <1>8
  <2>2. downloadBlocks[Slot(block)] = Block(downloadName, block)
    BY <1>4, <1>6, <2>1 DEF WindowOK
  <2> QED BY <2>2 DEF Block
<1>10. connection' = "up"
  BY <1>4, <1>8 DEF SV_NextDownload
<1>11. /\ FileOK(c) /\ FlightOK(c, F, 0)
       /\ d.temp = c.temp /\ d.block = c.block /\ d.list = c.list
       /\ d.file = c.file /\ d.commands = Tail(c.commands)
       /\ downloadCurrentBlock' = downloadCurrentBlock
       /\ downloadXmitBlock' = downloadXmitBlock
       /\ Receiving(d) <=> Receiving(c)
  BY <1>1, <1>2, <1>3, <1>10, Commanded
<1>12. /\ Tail(c.commands) \in Seq(Commands)
       /\ \A i \in DOMAIN Tail(c.commands) :
            i + 1 \in DOMAIN c.commands /\ Tail(c.commands)[i] = c.commands[i + 1]
       /\ Len(Tail(c.commands)) = Len(c.commands) - 1
       /\ DOMAIN Tail(c.commands) = 1 .. Len(c.commands) - 1
  <2>1. Tail(c.commands) \in Seq(Commands) /\ Len(Tail(c.commands)) = Len(c.commands) - 1
    BY <1>4, HeadTailProperties, EmptySeq
  <2>2. DOMAIN Tail(c.commands) = 1 .. Len(Tail(c.commands))
    BY <2>1, LenProperties
  <2> QED BY <1>4, <2>1, <2>2, TailOfMessages
<1> HIDE DEF block
<1>14. ASSUME NEW i \in DOMAIN d.commands
       PROVE  /\ d.commands[i].command = "download" => d.commands[i].file = d.temp
              /\ d.commands[i].command = "nextdl" =>
                   /\ d.commands[i].block = block + i
                   /\ d.commands[i].block < downloadCurrentBlock
                   /\ d.commands[i].block <= Blocks[downloadName]
                   /\ d.commands[i].block < Half
                   /\ \A j \in DOMAIN d.commands :
                        j < i => d.commands[j].command = "nextdl"
  <2>1. i \in Nat /\ i + 1 \in DOMAIN c.commands /\ d.commands[i] = c.commands[i + 1]
    BY <1>5, <1>11, <1>12
  <2>2. PICK k : k = i + 1
    OBVIOUS
  <2>3. k \in DOMAIN c.commands /\ d.commands[i] = c.commands[k]
    BY <2>1, <2>2
  <2>4. c.commands[k].command = "download" => c.commands[k].file = c.temp
    BY <1>4, <2>3 DEF CommandsOK
  <2>5. c.commands[k].command = "nextdl" =>
          /\ c.commands[k].block = downloadClientBlock + k - 1
          /\ c.commands[k].block < downloadCurrentBlock
          /\ c.commands[k].block <= Blocks[downloadName]
          /\ c.commands[k].block < Half
          /\ \A j \in DOMAIN c.commands : j < k => c.commands[j].command = "nextdl"
    BY <1>4, <2>3 DEF CommandsOK, AcksOK
  <2>6. downloadClientBlock + k - 1 = block + i
    BY <1>7, <1>8, <2>1, <2>2
  <2>7. ASSUME NEW j \in DOMAIN d.commands, j < i
        PROVE  j + 1 \in DOMAIN c.commands /\ j + 1 < k /\ d.commands[j] = c.commands[j + 1]
    <3>1. j \in Nat
      BY <1>5, <1>11, <1>12
    <3> QED BY <1>11, <1>12, <2>1, <2>2, <2>7, <3>1
  <2> QED BY <1>11, <2>3, <2>4, <2>5, <2>6, <2>7
<1>15. PICK n \in Nat : n = Len(c.commands)
  BY <1>5
<1>16. /\ n >= 1 /\ DOMAIN d.commands = 1 .. n - 1 /\ Len(d.commands) = n - 1
       /\ n - 1 + 1 = n
  <2>1. 1 \in 1 .. n
    BY <1>5, <1>15
  <2>2. n >= 1 /\ n - 1 + 1 = n
    BY <2>1
  <2> QED BY <1>11, <1>12, <1>15, <2>2
<1>17. ASSUME Asked(c)
       PROVE  /\ d.commands # <<>>
              /\ d.commands[Len(d.commands)].command = "download"
              /\ \A i \in DOMAIN d.commands :
                   i < Len(d.commands) => d.commands[i].command \in {"nextdl", "stopdl"}
  <2>1. c.commands \in Seq(Commands) /\ Head(c.commands).command # "download"
    BY <1>4
  <2> QED BY <1>4, <1>11, <1>17, <2>1, CommandLeft
<1>18. CASE block # Blocks[downloadName]
  <2>1. /\ downloadClientBlock' = block + 1
        /\ UNCHANGED <<downloadName, download, downloadBlocks>>
    BY <1>8, <1>9, <1>18 DEF SV_NextDownload, block
  <2>2. block \in Nat /\ block + 1 \in Nat /\ block + 1 <= downloadCurrentBlock
        /\ block + 1 <= Blocks[downloadName] /\ block + 1 <= Half /\ 1 <= block + 1
    BY <1>6, <1>7, <1>8, <1>18
  <2>3. ServerTypes'
    BY <1>4, <1>11, <2>1, <2>2 DEF ServerTypes
  <2>4. WindowOK'
    <3>1. downloadCurrentBlock <= block + 1 + MAX_DOWNLOAD_WINDOW
      BY <1>4, <1>6, <1>7, <1>8 DEF WindowOK
    <3>2. \A b \in block + 1 .. downloadCurrentBlock - 1 :
            b \in downloadClientBlock .. downloadCurrentBlock - 1
      BY <1>7, <1>8
    <3> QED BY <1>4, <1>6, <1>11, <2>1, <2>2, <3>1, <3>2 DEF WindowOK, Slot
  <2>5. FileOK(d)'
    BY <1>11, <2>1 DEF FileOK, Receiving
  <2>6. AcksOK(d.commands)'
    <3>1. \A i \in DOMAIN d.commands : block + i = block + 1 + i - 1
      BY <1>5, <1>11, <1>12, <2>2
    <3> QED BY <1>6, <1>11, <1>14, <2>1, <3>1 DEF AcksOK
  <2>7. Asked(c) => Asked(d)'
    BY <1>6, <1>11, <1>17, <2>1, <2>2 DEF Asked
  <2>8. Served(c) => Served(d)'
    <3> SUFFICES ASSUME Served(c) PROVE Served(d)'
      OBVIOUS
    <3>1. \A i \in DOMAIN d.commands : d.commands[i].command = "nextdl"
      BY <1>11, <1>12 DEF Served
    <3>2. d.block = block + 1 + Len(d.commands)
      <4>1. c.block = downloadClientBlock + n
        BY <1>6, <1>15 DEF Served
      <4>2. Len(d.commands) = n - 1
        BY <1>16
      <4>3. block + 1 + (n - 1) = block + n
        BY <2>2
      <4>4. d.block = block + n
        BY <1>8, <1>11, <4>1
      <4> QED BY <4>2, <4>3, <4>4
    <3> QED BY <1>6, <1>11, <2>1, <3>1, <3>2 DEF Served
  <2>9. CommandsOK(d)'
    BY <1>4, <1>11, <1>14, <2>6, <2>7, <2>8 DEF CommandsOK, Receiving
  <2>10. FlightOK(d, F, 0)'
    <3>1. ASSUME Receiving(c), NEW p \in Places(F, 0) PROVE PartOK(d, Part(F, p))'
      <4>1. PartOK(c, Part(F, p))
        BY <1>11, <3>1 DEF FlightOK
      <4> QED BY <1>11, <2>1, <2>2, <4>1 DEF PartOK, Part
    <3> QED BY <1>11, <3>1, FlightNext
  <2> QED BY <1>1, <1>2, <1>3, <1>10, <2>3, <2>4, <2>5, <2>9, <2>10, CommandDone
<1>19. CASE block = Blocks[downloadName]
  <2>1. SV_CloseDownload /\ downloadName' = None /\ UNCHANGED downloadClientBlock
    BY <1>8, <1>9, <1>19 DEF SV_NextDownload, block
  <2>2. download' = FALSE
    BY <2>1 DEF SV_CloseDownload
  <2>3. ServerTypes' /\ WindowOK'
    BY <1>7, <2>1, Closed
  <2>4. FileOK(d)'
    <3>1. \A i \in DOMAIN c.list : c.list[i] # None
      BY <1>4, ListedFiles
    <3> QED BY <1>11, <2>1, <3>1 DEF FileOK, Receiving
  <2>5. \A i \in DOMAIN d.commands : d.commands[i].command # "nextdl"
    <3> TAKE i \in DOMAIN d.commands
    <3>1. i \in Nat /\ i >= 1
      BY <1>5, <1>11, <1>12
    <3>2. ~(block + i <= Blocks[downloadName])
      BY <1>7, <1>8, <1>19, <3>1
    <3> QED BY <1>14, <3>2
  <2>6. Receiving(c) => Asked(c)
    <3> SUFFICES ASSUME Receiving(c), Served(c) PROVE FALSE
      BY <1>4 DEF CommandsOK
    <3>1. downloadName = c.temp /\ c.block = downloadClientBlock + n
      BY <1>6, <1>7, <1>15, WantedAssumption DEF Served
    <3>2. c.block <= Blocks[downloadName]
      BY <1>11, <3>1 DEF FileOK
    <3>3. downloadClientBlock + n <= downloadClientBlock
      BY <1>8, <1>19, <3>1, <3>2
    <3> QED BY <1>7, <1>16, <3>3
  <2>7. Asked(c) /\ c.temp # None => Asked(d)'
    BY <1>11, <1>17, <2>1 DEF Asked
  <2>8. CommandsOK(d)'
    BY <1>11, <1>14, <2>5, <2>6, <2>7 DEF CommandsOK, AcksOK, Receiving
  <2>9. FlightOK(d, F, 0)'
    <3>1. ASSUME Receiving(c), NEW p \in Places(F, 0) PROVE PartOK(d, Part(F, p))'
      BY <1>11, <2>6, <3>1, PartAhead
    <3> QED BY <1>11, <3>1, FlightNext
  <2> QED BY <1>1, <1>2, <1>3, <1>10, <2>3, <2>4, <2>8, <2>9, CommandDone
<1> QED BY <1>18, <1>19

(* The server reads a command.                                             *)
LEMMA CommandStep ==
  ASSUME GoodInv, SV_ExecuteClientCommand
  PROVE  GoodInv'
<1>1. SV_StopDownload \/ SV_BeginDownload \/ SV_NextDownload \/ SV_DoneDownload
  BY DEF SV_ExecuteClientCommand
<1> QED BY <1>1, StopStep, BeginStep, NextStep, DoneStep

(* The server sends a message: what is to be shown of its parts.           *)
LEMMA FlightSent ==
  ASSUME NEW c, NEW F, FlightIs(F), NEW m \in Seq(Parts), FlightOK(c, F, 0),
         \A j \in DOMAIN m : ~m[j].refused =>
            \A i \in DOMAIN c.list : m[j].data.file # c.list[i],
         Receiving(c) =>
            /\ \A p \in Places(F, 0) : PartOK(c, Part(F, p))'
            /\ \A j \in DOMAIN m : ~m[j].refused => PartOK(c, m[j])'
            /\ \A p \in Places(F, 0) : \A j \in DOMAIN m :
                 ~m[j].refused /\ Is(F, p, c.temp) => m[j].data.file = c.temp
            /\ \A j1, j2 \in DOMAIN m :
                 /\ j1 < j2 /\ ~m[j1].refused /\ ~m[j2].refused
                 /\ m[j1].data.file = c.temp
                 => m[j2].data.file = c.temp
  PROVE  FlightOK(c, Append(F, m), 0)'
<1> DEFINE G == Append(F, m)
           l == Len(F) + 1
<1>1. /\ G \in Seq(Seq(Parts)) /\ F \in Seq(Seq(Parts))
      /\ DOMAIN F = 1 .. Len(F) /\ Len(F) \in Nat
      /\ DOMAIN G = 1 .. l
      /\ \A i \in 1 .. Len(F) : G[i] = F[i]
      /\ G[l] = m
  <2>1. F \in Seq(Seq(Parts))
    BY DEF FlightIs
  <2> QED BY <2>1, AppendedMessage
<1> HIDE DEF G
<1>2. ASSUME NEW p \in Places(G, 0)
      PROVE  \/ /\ p \in Places(F, 0) /\ Part(G, p) = Part(F, p)
                /\ p[1] \in Nat /\ p[1] < l
             \/ /\ p[1] = l /\ p[2] \in DOMAIN m /\ Part(G, p) = m[p[2]]
                /\ ~m[p[2]].refused
  <2>1. /\ p[1] \in DOMAIN G /\ p[2] \in DOMAIN G[p[1]] /\ p = <<p[1], p[2]>>
        /\ p[1] = 1 => p[2] > 0
        /\ ~G[p[1]][p[2]].refused
    BY PlaceIs
  <2>2. CASE p[1] = l
    BY <1>1, <2>1, <2>2 DEF Part
  <2>3. CASE p[1] # l
    <3>1. p[1] \in 1 .. Len(F) /\ p[1] \in Nat /\ p[1] < l
      BY <1>1, <2>1, <2>3
    <3>2. G[p[1]] = F[p[1]] /\ p[1] \in DOMAIN F
      BY <1>1, <3>1
    <3>3. <<p[1], p[2]>> \in Places(F, 0)
      BY <2>1, <3>2, PlaceIs
    <3> QED BY <2>1, <3>1, <3>2, <3>3 DEF Part
  <2> QED BY <2>2, <2>3
<1>3. \A p \in Places(G, 0) : \A i \in DOMAIN c.list : ~Is(G, p, c.list[i])
  BY <1>2 DEF FlightOK, Is
<1>4. ASSUME Receiving(c), NEW p \in Places(G, 0) PROVE PartOK(c, Part(G, p))'
  <2>1. CASE p \in Places(F, 0) /\ Part(G, p) = Part(F, p)
    <3>1. PICK x : x = Part(G, p)
      OBVIOUS
    <3>2. PartOK(c, x)'
      BY <1>4, <2>1, <3>1 DEF PartOK, Part
    <3> QED BY <3>1, <3>2 DEF PartOK, Part
  <2>2. CASE p[2] \in DOMAIN m /\ Part(G, p) = m[p[2]] /\ ~m[p[2]].refused
    <3>1. PICK x : x = Part(G, p)
      OBVIOUS
    <3>2. PartOK(c, x)'
      BY <1>4, <2>2, <3>1 DEF PartOK
    <3> QED BY <3>1, <3>2 DEF PartOK, Part
  <2> QED BY <1>2, <2>1, <2>2
<1>5. ASSUME Receiving(c), NEW p \in Places(G, 0), NEW r \in Places(G, 0)
      PROVE  OrderOK(G, p, r, c.temp)
  <2> SUFFICES ASSUME Precedes(p, r), Is(G, p, c.temp)
               PROVE  Is(G, r, c.temp)
    BY DEF OrderOK
  <2>1. CASE /\ p \in Places(F, 0) /\ Part(G, p) = Part(F, p)
             /\ r \in Places(F, 0) /\ Part(G, r) = Part(F, r)
    <3>1. OrderOK(F, p, r, c.temp)
      BY <1>5, <2>1 DEF FlightOK
    <3> QED BY <2>1, <3>1 DEF OrderOK, Is
  <2>2. CASE /\ p \in Places(F, 0) /\ Part(G, p) = Part(F, p)
             /\ r[2] \in DOMAIN m /\ Part(G, r) = m[r[2]] /\ ~m[r[2]].refused
    BY <1>5, <2>2 DEF Is
  <2>3. CASE /\ p[1] = l /\ r \in Places(F, 0) /\ r[1] \in Nat /\ r[1] < l
    BY <1>1, <2>3 DEF Precedes
  <2>4. CASE /\ p[1] = l /\ p[2] \in DOMAIN m /\ Part(G, p) = m[p[2]] /\ ~m[p[2]].refused
             /\ r[1] = l /\ r[2] \in DOMAIN m /\ Part(G, r) = m[r[2]] /\ ~m[r[2]].refused
    <3>1. p[2] < r[2]
      BY <1>1, <2>4 DEF Precedes
    <3> QED BY <1>5, <2>4, <3>1 DEF Is
  <2> QED BY <1>2, <2>1, <2>2, <2>3, <2>4
<1> QED BY <1>3, <1>4, <1>5
        DEF FlightOK, Places, Is, Part, Precedes, OrderOK, Receiving, G

(* A message is added to a proper flight.                                  *)
LEMMA FlightGrows ==
  ASSUME NEW F, FlightIs(F), NEW m \in Seq(Parts), \A j \in DOMAIN m : m[j].block < Half
  PROVE  FlightIs(Append(F, m))
<1>1. F \in Seq(Seq(Parts))
  BY DEF FlightIs
<1>2. /\ Append(F, m) \in Seq(Seq(Parts))
      /\ DOMAIN F = 1 .. Len(F) /\ Len(F) \in Nat
      /\ DOMAIN Append(F, m) = 1 .. Len(F) + 1
      /\ \A i \in 1 .. Len(F) : Append(F, m)[i] = F[i]
      /\ Append(F, m)[Len(F) + 1] = m
  BY <1>1, AppendedMessage
<1>3. \A i \in DOMAIN Append(F, m) : i \in 1 .. Len(F) \/ i = Len(F) + 1
  BY <1>2
<1> QED BY <1>2, <1>3 DEF FlightIs

(* The window with the blocks of f from b to z - 1 read into it.           *)
Filled(old, f, b, z) ==
    [s \in DOMAIN old |-> IF \E n \in b .. z - 1 : Slot(n) = s
                           THEN Block(f, CHOOSE n \in b .. z - 1 : Slot(n) = s)
                           ELSE old[s]]

(* The window w holds the blocks of f from a to z - 1.                     *)
Holds(w, f, a, z) == \A n \in a .. z - 1 : w[Slot(n)] = Block(f, n)

(* The window w has been filled from the file f.                           *)
Refills(w, old, f) ==
    \A s \in 0 .. MAX_DOWNLOAD_WINDOW - 1 : w[s].file = f \/ w[s] = old[s]

(* The blocks from a to z - 1 fit a window, and b is one of them.          *)
Fit(a, b, z) ==
    /\ a \in Nat /\ b \in Nat /\ z \in Nat
    /\ a <= b /\ b <= z /\ z <= a + MAX_DOWNLOAD_WINDOW

(* The window that the server has filled.                                  *)
LEMMA WindowFilled ==
  ASSUME NEW f \in Files, NEW a, NEW b, NEW z, Fit(a, b, z),
         NEW old \in [0 .. MAX_DOWNLOAD_WINDOW - 1 -> Data], Holds(old, f, a, b)
  PROVE  /\ Filled(old, f, b, z) \in [0 .. MAX_DOWNLOAD_WINDOW - 1 -> Data]
         /\ Holds(Filled(old, f, b, z), f, a, z)
         /\ Refills(Filled(old, f, b, z), old, f)
<1> DEFINE w == Filled(old, f, b, z)
<1>0. /\ a \in Nat /\ b \in Nat /\ z \in Nat
      /\ a <= b /\ b <= z /\ z <= a + MAX_DOWNLOAD_WINDOW
      /\ \A n \in a .. b - 1 : old[Slot(n)] = Block(f, n)
  BY DEF Fit, Holds
<1>1. DOMAIN old = 0 .. MAX_DOWNLOAD_WINDOW - 1 /\ MAX_DOWNLOAD_WINDOW \in Nat
  BY SizesAssumption
<1>2. ASSUME NEW s \in 0 .. MAX_DOWNLOAD_WINDOW - 1
      PROVE  w[s] \in Data /\ (w[s].file = f \/ w[s] = old[s])
  <2>1. CASE \E n \in b .. z - 1 : Slot(n) = s
    <3>1. PICK n \in b .. z - 1 : w[s] = Block(f, n)
      BY <1>0, <1>1, <2>1 DEF Filled
    <3>2. n \in Nat
      BY <1>0
    <3> QED BY <3>1, <3>2, ContentsAre DEF Block
  <2>2. CASE ~ \E n \in b .. z - 1 : Slot(n) = s
    <3>1. w[s] = old[s]
      BY <1>1, <2>2 DEF Filled
    <3> QED BY <3>1
  <2> QED BY <2>1, <2>2
<1>3. ASSUME NEW n \in a .. z - 1 PROVE w[Slot(n)] = Block(f, n)
  <2>1. n \in Nat /\ a <= n /\ n < a + MAX_DOWNLOAD_WINDOW
    BY <1>0, <1>1
  <2>2. Slot(n) \in DOMAIN old
    BY <1>1, <2>1, SlotInWindow
  <2>3. ASSUME NEW m \in b .. z - 1, Slot(m) = Slot(n) PROVE m = n
    <3>1. m \in Nat /\ a <= m /\ m < a + MAX_DOWNLOAD_WINDOW
      BY <1>0, <1>1
    <3> QED BY <1>0, <2>1, <2>3, <3>1, SlotsDiffer
  <2>4. CASE b <= n
    <3>1. n \in b .. z - 1
      BY <1>0, <2>1, <2>4
    <3>2. (CHOOSE m \in b .. z - 1 : Slot(m) = Slot(n)) = n
      BY <2>3, <3>1
    <3> QED BY <2>2, <3>1, <3>2 DEF Filled
  <2>5. CASE ~(b <= n)
    <3>1. n \in a .. b - 1
      BY <1>0, <2>1, <2>5
    <3>2. ~ \E m \in b .. z - 1 : Slot(m) = Slot(n)
      BY <1>0, <2>1, <2>3, <2>5
    <3> QED BY <1>0, <2>2, <3>1, <3>2 DEF Filled
  <2> QED BY <2>4, <2>5
<1>4. w \in [0 .. MAX_DOWNLOAD_WINDOW - 1 -> Data]
  BY <1>1, <1>2 DEF Filled
<1> QED BY <1>2, <1>3, <1>4 DEF Holds, Refills

(* What there is when the server sends a message m.                        *)
LEMMA Sent ==
  ASSUME GoodInv, SV_WriteDownloadToClient,
         NEW c, c = Client, NEW F, F = toClient, NEW m \in Seq(Parts),
         toClient' = Append(toClient, m), \A j \in DOMAIN m : m[j].block < Half,
         ServerTypes', WindowOK', FileOK(c)', CommandsOK(c)',
         FlightOK(c, Append(F, m), 0)'
  PROVE  GoodInv'
<1>1. UNCHANGED <<toServer, clientVars, connection>>
  BY DEF SV_WriteDownloadToClient
<1>2. c = Client'
  BY <1>1 DEF Client, clientVars
<1>3. FlightIs(F) /\ ClientTypes(c) /\ Intact(c)
  BY DEF GoodInv, FlightTypes, FlightIs, ClientOK
<1>4. PICK G : G = Append(F, m)
  OBVIOUS
<1>5. G = toClient' /\ FlightIs(G) /\ FlightOK(c, G, 0)'
  <2>1. FlightIs(Append(F, m))
    BY <1>3, FlightGrows
  <2> QED BY <1>4, <2>1
<1>6. FlightTypes'
  BY <1>5 DEF FlightTypes, FlightIs
<1>7. ClientTypes(c)' /\ Intact(c)'
  BY <1>3 DEF ClientTypes, Intact
<1>8. ClientOK(c, G, 0)'
  BY <1>5, <1>7 DEF ClientOK
<1>9. ClientOK(Client, toClient, 0)'
  BY <1>2, <1>5, <1>8, ClientNext
<1> QED BY <1>6, <1>9 DEF GoodInv

(* A file is refused.                                                      *)
LEMMA RefuseStep ==
  ASSUME GoodInv, SV_WriteDownloadToClient, RefuseDownload
  PROVE  GoodInv'
<1>1. PICK c : c = Client
  OBVIOUS
<1>2. PICK F : F = toClient
  OBVIOUS
<1>3. PICK m : m = <<[block |-> 0, refused |-> TRUE]>>
  OBVIOUS
<1>4. /\ connection = "up" /\ downloadName # None /\ ~download
      /\ downloadName' = None /\ toClient' = Append(toClient, m)
      /\ UNCHANGED <<download, downloadClientBlock, downloadCurrentBlock,
                     downloadXmitBlock, downloadBlocks>>
  BY <1>3 DEF SV_WriteDownloadToClient, RefuseDownload
<1>5. /\ WindowOK /\ ServerTypes /\ FlightIs(F) /\ ClientTypes(c)
      /\ FileOK(c) /\ CommandsOK(c) /\ FlightOK(c, F, 0)
  BY <1>1, <1>2, <1>4 DEF GoodInv, FlightTypes, FlightIs, ClientOK, Client
<1>6. /\ m \in Seq(Parts) /\ DOMAIN m = {1} /\ m[1].refused /\ m[1].block = 0
  <2>1. [block |-> 0, refused |-> TRUE] \in Parts
    BY DEF Parts
  <2>2. PICK e \in Parts : e = [block |-> 0, refused |-> TRUE]
    BY <2>1
  <2>3. e.refused /\ e.block = 0
    BY <2>2
  <2>4. m = <<e>>
    BY <1>3, <2>2
  <2> QED BY <2>3, <2>4
<1>7. \A j \in DOMAIN m : m[j].refused /\ m[j].block < Half
  BY <1>6, ShortAssumption
<1>8. ServerTypes' /\ WindowOK'
  BY <1>4, <1>5 DEF ServerTypes, WindowOK
<1>9. FileOK(c)'
  <2>1. \A i \in DOMAIN c.list : c.list[i] # None
    BY <1>5, ListedFiles
  <2> QED BY <1>4, <1>5, <2>1 DEF FileOK, Receiving
<1>10. CommandsOK(c)'
  <2>1. Receiving(c) /\ Asked(c) => Asked(c)'
    BY <1>4 DEF Asked, Receiving
  <2>2. Served(c) => Served(c)'
    BY <1>4 DEF Served
  <2> QED BY <1>4, <1>5, <2>1, <2>2 DEF CommandsOK, AcksOK, Receiving
<1>11. ASSUME Receiving(c), NEW p \in Places(F, 0) PROVE PartOK(c, Part(F, p))'
  <2>1. PartOK(c, Part(F, p))
    BY <1>5, <1>11 DEF FlightOK
  <2> QED BY <1>4, <2>1 DEF PartOK, Part
<1>12. FlightOK(c, Append(F, m), 0)'
  BY <1>5, <1>6, <1>7, <1>11, FlightSent
<1> QED BY <1>1, <1>2, <1>4, <1>6, <1>7, <1>8, <1>9, <1>10, <1>12, Sent

(* Blocks are sent.                                                        *)
LEMMA SendStep ==
  ASSUME GoodInv, SV_WriteDownloadToClient, SendBlocks
  PROVE  GoodInv'
<1>1. PICK c : c = Client
  OBVIOUS
<1>2. PICK F : F = toClient
  OBVIOUS
<1>3. PICK name : name = downloadName
  OBVIOUS
<1>4. PICK client : client = IF download THEN downloadClientBlock ELSE 0
  OBVIOUS
<1>5. PICK current : current = IF download THEN downloadCurrentBlock ELSE 0
  OBVIOUS
<1>6. PICK last : last = Blocks[downloadName]
  OBVIOUS
<1>7. PICK read : read = IF client + MAX_DOWNLOAD_WINDOW <= last
                           THEN client + MAX_DOWNLOAD_WINDOW ELSE last + 1
  OBVIOUS
<1>8. PICK xmit : xmit = IF download THEN downloadXmitBlock ELSE 0
  OBVIOUS
<1>9. PICK from : from = FirstToSend(client, read, xmit)
  OBVIOUS
<1>10. PICK count : count = IF read - from < blockspersnap THEN read - from
                                                           ELSE blockspersnap
  OBVIOUS
<1>11. PICK old : old = downloadBlocks
  OBVIOUS
<1>12. PICK w : w = Filled(old, name, current, read)
  OBVIOUS
<1>13. PICK m : m = IF count > MAX_MSG_BLOCKS THEN <<>>
                    ELSE [i \in 1 .. count |->
                            [block |-> Short(from + i - 1), refused |-> FALSE,
                             data |-> w[Slot(from + i - 1)]]]
  OBVIOUS
<1>14. /\ connection = "up" /\ name # None
       /\ UNCHANGED <<toServer, clientVars, connection>>
  BY <1>3 DEF SV_WriteDownloadToClient
<1>15. /\ client < read
       /\ download' = TRUE /\ downloadClientBlock' = client
       /\ downloadCurrentBlock' = read /\ downloadBlocks' = w
       /\ downloadXmitBlock' = from + count
       /\ toClient' = Append(toClient, m)
       /\ downloadName' = name
  BY <1>3, <1>4, <1>5, <1>6, <1>7, <1>8, <1>9, <1>10, <1>11, <1>12, <1>13 DEF SendBlocks, Filled
<1>16. /\ WindowOK /\ ServerTypes /\ FlightIs(F) /\ ClientTypes(c)
       /\ FileOK(c) /\ CommandsOK(c) /\ FlightOK(c, F, 0)
  BY <1>1, <1>2, <1>14 DEF GoodInv, FlightTypes, FlightIs, ClientOK, Client
(* The numbers.                                                            *)
<1>17. /\ name \in Files /\ last = Blocks[name] /\ last \in Nat
       /\ MAX_DOWNLOAD_WINDOW \in Nat /\ 1 <= MAX_DOWNLOAD_WINDOW
       /\ Half \in Nat /\ MAX_DOWNLOAD_WINDOW <= Half
       /\ blockspersnap \in Nat /\ 1 <= blockspersnap
  BY <1>3, <1>6, <1>14, <1>16, BlocksAssumption, SizesAssumption, ShortAssumption
     DEF ServerTypes
<1>18. /\ client \in Nat /\ current \in Nat /\ xmit \in Nat
       /\ client <= current /\ current <= client + MAX_DOWNLOAD_WINDOW
       /\ client <= last /\ current <= last + 1 /\ client <= Half
       /\ xmit <= current
       /\ download => 1 <= xmit
       /\ ~download => client = 0 /\ current = 0
  <2>1. CASE download
    BY <1>3, <1>4, <1>5, <1>6, <1>8, <1>16, <2>1 DEF WindowOK, ServerTypes
  <2>2. CASE ~download
    BY <1>4, <1>5, <1>8, <1>17, <2>2
  <2> QED BY <2>1, <2>2
<1>19. /\ read \in Nat /\ read <= client + MAX_DOWNLOAD_WINDOW /\ read <= last + 1
       /\ current <= read /\ client < read
  BY <1>7, <1>15, <1>17, <1>18
<1>20. from \in Nat /\ from < read
  <2>1. from = IF xmit = read THEN client ELSE xmit
    BY <1>9 DEF FirstToSend
  <2> QED BY <1>18, <1>19, <2>1
<1>21. count \in Nat /\ count >= 1 /\ from + count <= read
  BY <1>10, <1>17, <1>19, <1>20
(* The window.                                                             *)
<1>22. /\ w \in [0 .. MAX_DOWNLOAD_WINDOW - 1 -> Data]
       /\ \A n \in client .. read - 1 : w[Slot(n)] = Block(name, n)
       /\ \A n \in 0 .. read - 1 : w[Slot(n)].file = name
  <2>1. old \in [0 .. MAX_DOWNLOAD_WINDOW - 1 -> Data]
    BY <1>11, <1>16 DEF ServerTypes
  <2>2. \A n \in client .. current - 1 : old[Slot(n)] = Block(name, n)
    <3>1. CASE download
      BY <1>3, <1>4, <1>5, <1>11, <1>16, <3>1 DEF WindowOK
    <3>2. CASE ~download
      BY <1>18, <3>2
    <3> QED BY <3>1, <3>2
  <2>3. /\ w \in [0 .. MAX_DOWNLOAD_WINDOW - 1 -> Data]
        /\ \A n \in client .. read - 1 : w[Slot(n)] = Block(name, n)
        /\ \A s \in 0 .. MAX_DOWNLOAD_WINDOW - 1 : w[s].file = name \/ w[s] = old[s]
    <3>1. Fit(client, current, read) /\ name \in Files
      BY <1>17, <1>18, <1>19 DEF Fit
    <3>2. Holds(old, name, client, current)
      BY <2>2 DEF Holds
    <3>3. /\ w \in [0 .. MAX_DOWNLOAD_WINDOW - 1 -> Data]
          /\ Holds(w, name, client, read)
          /\ Refills(w, old, name)
      <4>1. w \in [0 .. MAX_DOWNLOAD_WINDOW - 1 -> Data]
        BY ONLY <1>12, <2>1, <3>1, <3>2, WindowFilled
      <4>2. Holds(w, name, client, read)
        BY ONLY <1>12, <2>1, <3>1, <3>2, WindowFilled
      <4>3. Refills(w, old, name)
        BY ONLY <1>12, <2>1, <3>1, <3>2, WindowFilled
      <4> QED BY ONLY <4>1, <4>2, <4>3
    <3> QED BY <3>3 DEF Holds, Refills
  <2>4. ASSUME NEW n \in 0 .. read - 1 PROVE w[Slot(n)].file = name
    <3>1. n \in Nat /\ Slot(n) \in 0 .. MAX_DOWNLOAD_WINDOW - 1
      BY <1>19, SlotInWindow
    <3>2. CASE n < current
      <4>1. download /\ n \in 0 .. downloadCurrentBlock - 1
        BY <1>5, <1>16, <1>18, <3>1, <3>2 DEF ServerTypes
      <4>2. old[Slot(n)].file = name
        BY <1>3, <1>11, <1>16, <4>1 DEF WindowOK
      <4> QED BY <2>3, <3>1, <4>2
    <3>3. CASE ~(n < current)
      <4>1. n \in client .. read - 1
        BY <1>18, <1>19, <3>1, <3>3
      <4>2. w[Slot(n)] = Block(name, n)
        BY <2>3, <4>1
      <4> QED BY <4>2 DEF Block
    <3> QED BY <3>2, <3>3
  <2> QED BY <2>3, <2>4
(* The message.                                                            *)
<1>23. /\ m \in Seq(Parts)
       /\ \A i \in DOMAIN m :
            /\ i \in 1 .. count
            /\ m[i] = [block |-> Short(from + i - 1), refused |-> FALSE,
                       data |-> w[Slot(from + i - 1)]]
  <2> DEFINE P(i) == [block |-> Short(from + i - 1), refused |-> FALSE,
                      data |-> w[Slot(from + i - 1)]]
             g == [i \in 1 .. count |-> P(i)]
  <2>1. ASSUME NEW i \in 1 .. count PROVE P(i) \in Parts
    <3>1. from + i - 1 \in Nat
      BY <1>20, <1>21
    <3>2. Short(from + i - 1) \in Int /\ w[Slot(from + i - 1)] \in Data
      BY <1>22, <3>1, ShortIs, SlotInWindow
    <3> QED BY <3>2 DEF Parts
  <2>2. g \in [1 .. count -> Parts] /\ \A i \in 1 .. count : g[i] = P(i)
    <3> HIDE DEF P
    <3> QED BY <2>1
  <2>3. PICK h : h = g
    OBVIOUS
  <2>4. h \in Seq(Parts) /\ DOMAIN h = 1 .. count
    <3> HIDE DEF g
    <3>1. h \in [1 .. count -> Parts]
      BY <2>2, <2>3
    <3> QED BY <1>21, <3>1, FunctionIsSeq
  <2>5. m = <<>> \/ m = h
    BY <1>13, <2>3
  <2> HIDE DEF g
  <2>6. CASE m = <<>>
    BY <2>6, EmptySeq
  <2>7. CASE m = h
    BY <2>2, <2>3, <2>4, <2>7
  <2> QED BY <2>5, <2>6, <2>7
<1>24. ASSUME NEW i \in DOMAIN m
       PROVE  LET n == from + i - 1 IN
              /\ n \in Nat /\ from <= n /\ n < read
              /\ m[i].block = Short(n) /\ ~m[i].refused
              /\ m[i].data = w[Slot(n)] /\ m[i].data.file = name
              /\ m[i].block \in Int /\ m[i].block < Half /\ m[i].block <= n
              /\ m[i].block >= 0 => m[i].block = n
  <2>1. PICK n : n = from + i - 1
    OBVIOUS
  <2>2. n \in Nat /\ from <= n /\ n < read /\ n < 2 * Half
    BY <1>17, <1>18, <1>19, <1>20, <1>21, <1>23, <2>1
  <2>3. m[i].block = Short(n) /\ ~m[i].refused /\ m[i].data = w[Slot(n)]
    BY <1>23, <2>1
  <2>4. m[i].data.file = name
    <3>1. n \in 0 .. read - 1
      BY <1>19, <2>2
    <3> QED BY <1>22, <2>3, <3>1
  <2>5. /\ Short(n) \in Int /\ Short(n) < Half
        /\ n < Half => Short(n) = n
        /\ Half <= n => Short(n) < 0
    BY <2>2, ShortIs
  <2>6. Short(n) <= n /\ (Short(n) >= 0 => Short(n) = n)
    BY <1>17, <2>2, <2>5
  <2> QED BY <2>1, <2>2, <2>3, <2>4, <2>5, <2>6
<1>25. ServerTypes'
  BY <1>15, <1>17, <1>18, <1>19, <1>20, <1>21, <1>22 DEF ServerTypes
<1>26. WindowOK'
  <2>1. 1 <= from + count
    BY <1>20, <1>21
  <2> QED BY <1>6, <1>14, <1>15, <1>17, <1>18, <1>19, <1>21, <1>22, <2>1 DEF WindowOK, Slot
<1>27. FileOK(c)'
  BY <1>3, <1>15, <1>16 DEF FileOK, Receiving
<1>28. CommandsOK(c)'
  <2>1. AcksOK(c.commands)'
    <3>1. CASE download
      <4>1. client = downloadClientBlock /\ downloadCurrentBlock <= read
            /\ downloadCurrentBlock \in Nat
        BY <1>4, <1>5, <1>16, <1>19, <3>1 DEF ServerTypes
      <4> SUFFICES ASSUME NEW i \in DOMAIN c.commands, c.commands[i].command = "nextdl"
                   PROVE  /\ c.commands[i].block = client + i - 1
                          /\ c.commands[i].block < read
                          /\ c.commands[i].block <= Blocks[name]
                          /\ c.commands[i].block < Half
                          /\ \A j \in DOMAIN c.commands :
                               j < i => c.commands[j].command = "nextdl"
        BY <1>15 DEF AcksOK
      <4>2. /\ c.commands[i].block = downloadClientBlock + i - 1
            /\ c.commands[i].block < downloadCurrentBlock
            /\ c.commands[i].block <= Blocks[downloadName]
            /\ c.commands[i].block < Half
            /\ \A j \in DOMAIN c.commands : j < i => c.commands[j].command = "nextdl"
        BY <1>16 DEF CommandsOK, AcksOK
      <4>3. c.commands[i].block \in Int
        <5>1. c.commands \in Seq(Commands) /\ DOMAIN c.commands = 1 .. Len(c.commands)
          BY <1>16, LenProperties DEF ClientTypes
        <5>2. i \in Nat
          BY <5>1, LenProperties
        <5> QED BY <1>18, <4>1, <4>2, <5>2
      <4> QED BY <1>3, <1>19, <4>1, <4>2, <4>3
    <3>2. CASE ~download
      BY <1>16, <3>2 DEF CommandsOK, AcksOK
    <3> QED BY <3>1, <3>2
  <2>2. Asked(c) => Asked(c)'
    BY <1>3, <1>4, <1>14, <1>15 DEF Asked
  <2>3. Served(c) => Served(c)'
    <3> SUFFICES ASSUME Served(c) PROVE Served(c)'
      OBVIOUS
    <3>1. c.block = client + Len(c.commands)
      <4>1. CASE download
        BY <1>4, <4>1 DEF Served
      <4>2. CASE ~download
        BY <1>18, <4>2 DEF Served
      <4> QED BY <4>1, <4>2
    <3> QED BY <1>3, <1>15, <3>1 DEF Served
  <2> QED BY <1>16, <2>1, <2>2, <2>3 DEF CommandsOK, Receiving
<1>29. \A j \in DOMAIN m : \A i \in DOMAIN c.list : m[j].data.file # c.list[i]
  BY <1>3, <1>16, <1>24 DEF FileOK
<1>30. ASSUME Receiving(c)
       PROVE  /\ name # c.temp => c.block = 0
              /\ name = c.temp => c.block >= client /\ c.block \in Nat
  <2>1. CASE Asked(c)
    BY <1>3, <2>1 DEF Asked
  <2>2. CASE Served(c)
    <3>1. name = c.temp
      BY <1>3, <1>14, <2>2 DEF Served
    <3>2. c.commands \in Seq(Commands) /\ c.block \in Nat
      BY <1>16 DEF ClientTypes
    <3>3. Len(c.commands) \in Nat
      BY <3>2, LenProperties
    <3>4. c.block >= client
      <4>1. CASE download
        BY <1>4, <1>18, <2>2, <3>3, <4>1 DEF Served
      <4>2. CASE ~download
        BY <1>18, <3>2, <4>2
      <4> QED BY <4>1, <4>2
    <3> QED BY <3>1, <3>2, <3>4
  <2> QED BY <1>16, <1>30, <2>1, <2>2 DEF CommandsOK
<1>31. ASSUME Receiving(c), NEW p \in Places(F, 0)
       PROVE  /\ PartOK(c, Part(F, p)) /\ PartOK(c, Part(F, p))'
              /\ Part(F, p).block \in Int
  <2>1. PartOK(c, Part(F, p))
    BY <1>16, <1>31 DEF FlightOK
  <2>2. Part(F, p).block \in Int
    <3>1. p[1] \in DOMAIN F /\ p[2] \in DOMAIN F[p[1]]
      BY PlaceIs
    <3>2. Part(F, p) \in Parts
      BY <1>16, <3>1, PartNumbers DEF Part, FlightIs
    <3> QED BY <3>2, PartFields
  <2>3. PICK x : x = Part(F, p)
    OBVIOUS
  <2>4. PartOK(c, x)'
    <3>1. CASE x.data.file = c.temp
      <4>1. /\ download /\ downloadName = c.temp /\ x.block < downloadCurrentBlock
            /\ x.block >= c.block => x.data = Block(c.temp, x.block)
        BY <2>1, <2>3, <3>1 DEF PartOK
      <4>2. client = downloadClientBlock /\ current = downloadCurrentBlock
        BY <1>4, <1>5, <4>1
      <4>3. x.block < read
        BY <1>18, <1>19, <2>2, <2>3, <4>1, <4>2
      <4> QED BY <1>3, <1>15, <3>1, <4>1, <4>2, <4>3 DEF PartOK
    <3>2. CASE x.data.file # c.temp
      BY <2>1, <2>3, <3>2 DEF PartOK
    <3> QED BY <3>1, <3>2
  <2> QED BY <2>1, <2>2, <2>3, <2>4 DEF PartOK, Part
<1>32. ASSUME Receiving(c), NEW j \in DOMAIN m PROVE PartOK(c, m[j])'
  <2>1. PICK x : x = m[j]
    OBVIOUS
  <2>2. PICK n : n = from + j - 1
    OBVIOUS
  <2>3. /\ n \in Nat /\ from <= n /\ n < read
        /\ x.data = w[Slot(n)] /\ x.data.file = name
        /\ x.block \in Int /\ x.block <= n
        /\ x.block >= 0 => x.block = n
    BY <1>24, <2>1, <2>2
  <2>4. CASE name = c.temp
    <3>1. x.block < read
      BY <1>19, <2>3
    <3>3. ASSUME x.block >= c.block PROVE x.data = Block(name, x.block)
      <4>1. c.block \in Nat /\ c.block >= client
        BY <1>30, <1>32, <2>4
      <4>2. x.block = n /\ n \in client .. read - 1
        BY <1>18, <1>19, <2>3, <3>3, <4>1
      <4> QED BY <1>22, <2>3, <4>2
    <3>4. PartOK(c, x)'
      BY <1>15, <2>3, <2>4, <3>1, <3>3 DEF PartOK
    <3> QED BY <2>1, <3>4 DEF PartOK
  <2>5. CASE name # c.temp
    <3>1. c.block = 0
      BY <1>30, <1>32, <2>5
    <3>2. PartOK(c, x)'
      BY <2>3, <2>5, <3>1 DEF PartOK
    <3> QED BY <2>1, <3>2 DEF PartOK
  <2> QED BY <2>4, <2>5
<1>33. ASSUME Receiving(c), NEW p \in Places(F, 0), NEW j \in DOMAIN m, Is(F, p, c.temp)
       PROVE  m[j].data.file = c.temp
  <2>1. downloadName = c.temp
    BY <1>31, <1>33 DEF PartOK, Is
  <2> QED BY <1>3, <1>24, <2>1
<1>34. ASSUME NEW j1 \in DOMAIN m, NEW j2 \in DOMAIN m, m[j1].data.file = c.temp
       PROVE  m[j2].data.file = c.temp
  BY <1>24, <1>34
<1>35. \A j \in DOMAIN m : m[j].block < Half
  BY <1>24
<1>36. FlightOK(c, Append(F, m), 0)'
  BY <1>16, <1>23, <1>29, <1>31, <1>32, <1>33, <1>34, FlightSent
<1> QED BY <1>1, <1>2, <1>15, <1>23, <1>25, <1>26, <1>27, <1>28, <1>35, <1>36, Sent

-----------------------------------------------------------------------------
(* The theorems.                                                           *)

(* The connection starts right.                                            *)
LEMMA InitInv ==
  ASSUME Init
  PROVE  GoodInv
<1>1. PICK c : c = Client
  OBVIOUS
<1>2. PICK F : F = toClient
  OBVIOUS
<1>3. PICK e : e = [command |-> "download", file |-> Head(Wanted)]
  OBVIOUS
<1>4. /\ Head(Wanted) = Wanted[1] /\ 1 \in DOMAIN Wanted /\ Tail(Wanted) \in Seq(Files)
      /\ \A i \in DOMAIN Tail(Wanted) :
           i + 1 \in DOMAIN Wanted /\ Tail(Wanted)[i] = Wanted[i + 1]
      /\ Len(Tail(Wanted)) = Len(Wanted) - 1
      /\ DOMAIN Tail(Wanted) = 1 .. Len(Wanted) - 1 /\ Len(Wanted) \in Nat
  <2>1. Wanted \in Seq(Files) /\ Wanted # <<>>
    BY WantedAssumption
  <2>2. Tail(Wanted) \in Seq(Files) /\ Len(Tail(Wanted)) = Len(Wanted) - 1
    BY <2>1, HeadTailProperties, EmptySeq
  <2>3. DOMAIN Tail(Wanted) = 1 .. Len(Tail(Wanted))
    BY <2>2, LenProperties
  <2> QED BY <2>1, <2>2, <2>3, TailOfMessages, LenProperties
<1>5. Wanted[1] \in Files
  BY <1>4, WantedAssumption, LenProperties, ElementOfSeq
<1>6. e \in Commands /\ e.command = "download" /\ e.file = Wanted[1]
  BY <1>3, <1>4, <1>5 DEF Commands
<1>7. /\ c.temp = Wanted[1] /\ c.block = 0 /\ c.list = Tail(Wanted)
      /\ c.file = <<>> /\ c.commands = <<e>> /\ DOMAIN c.installed = {}
      /\ c.connection = "up" /\ c.restart
  BY <1>1, <1>3, <1>4 DEF Init, Client
<1>8. F = <<>> /\ DOMAIN F = {}
  BY <1>2, EmptySeq DEF Init
<1>9. ClientTypes(c) /\ Intact(c)
  <2>1. c.restart = TRUE
    BY <1>1 DEF Init, Client
  <2>2. c = [temp |-> c.temp, block |-> c.block, list |-> c.list,
             restart |-> c.restart, file |-> c.file,
             installed |-> c.installed, commands |-> c.commands,
             connection |-> c.connection]
    BY <1>1 DEF Client
  <2>3. /\ c.temp \in Files \cup {None} /\ c.block \in Nat /\ c.list \in Seq(Files)
        /\ c.restart \in BOOLEAN /\ c.file \in Seq(Data)
        /\ c.commands \in Seq(Commands)
    <3>1. c.restart \in BOOLEAN
      BY <2>1
    <3>2. c.commands \in Seq(Commands) /\ c.file \in Seq(Data)
      BY <1>6, <1>7, EmptySeq
    <3> QED BY <1>4, <1>5, <1>7, <3>1, <3>2
  <2>4. c \in [temp : Files \cup {None}, block : Nat, list : Seq(Files),
             restart : BOOLEAN, file : Seq(Data),
             installed : {c.installed}, commands : Seq(Commands),
             connection : {"up", "refused", "illegible", "loading"}]
    BY <1>7, <2>2, <2>3
  <2> QED BY <1>7, <2>4 DEF ClientTypes, Intact
<1>10. \A i, j \in DOMAIN Wanted : Wanted[i] = Wanted[j] => i = j
  BY WantedAssumption
<1>11. FileOK(c)
  <2>1. Receiving(c) => /\ c.block <= Blocks[c.temp] /\ c.block <= Half
                        /\ c.file = Contents(c.temp, c.block)
    <3>1. Blocks[Wanted[1]] \in Nat /\ 0 <= Half
      BY <1>5, BlocksAssumption, ShortAssumption
    <3>2. Contents(Wanted[1], 0) = <<>>
      BY <1>5, ContentsAre
    <3> QED BY <1>7, <3>1, <3>2
  <2>2. Receiving(c)
    BY <1>5, <1>7, WantedAssumption DEF Receiving
  <2>3. \A i, j \in DOMAIN c.list : c.list[i] = c.list[j] => i = j
    <3> TAKE i, j \in DOMAIN c.list
    <3>1. i \in Nat /\ j \in Nat
      BY <1>4, <1>7
    <3>2. i + 1 = j + 1 => i = j
      BY <3>1
    <3> QED BY <1>4, <1>7, <1>10, <3>2
  <2>4. ASSUME NEW i \in DOMAIN c.list
        PROVE  c.list[i] # c.temp /\ c.list[i] # downloadName
    <3>1. i \in Nat /\ i + 1 # 1
      BY <1>4, <1>7
    <3>2. PICK k \in DOMAIN Wanted : k = i + 1 /\ c.list[i] = Wanted[k]
      BY <1>4, <1>7
    <3>3. Wanted[k] # Wanted[1]
      BY <1>4, <1>10, <3>1, <3>2
    <3>4. Wanted[k] \in Files /\ downloadName = None
      BY WantedAssumption, LenProperties, ElementOfSeq DEF Init
    <3> QED BY <1>7, <3>2, <3>3, <3>4, WantedAssumption
  <2> QED BY <1>7, <2>1, <2>2, <2>3, <2>4 DEF FileOK
<1>12. CommandsOK(c)
  <2>1. DOMAIN c.commands = {1} /\ Len(c.commands) = 1 /\ c.commands[1] = e
        /\ c.commands # <<>>
    BY <1>7
  <2>2. AcksOK(c.commands)
    BY <1>6, <2>1 DEF AcksOK
  <2>3. Receiving(c) => Asked(c)
    BY <1>6, <1>7, <2>1 DEF Asked, Receiving, Init
  <2> QED BY <1>6, <1>7, <2>1, <2>2, <2>3 DEF CommandsOK
<1>13. FlightOK(c, F, 0)
  <2>1. Places(F, 0) = {}
    BY <1>8 DEF Places
  <2> QED BY <2>1 DEF FlightOK
<1>14. FlightTypes
  BY <1>2, <1>8, EmptySeq DEF FlightTypes
<1>15. ServerTypes
  <2>1. NoBlock \in Data
    BY DEF NoBlock, Data
  <2> QED BY <2>1 DEF ServerTypes, Init
<1>16. WindowOK
  BY DEF WindowOK, Init
<1> QED BY <1>1, <1>2, <1>9, <1>11, <1>12, <1>13, <1>14, <1>15, <1>16
        DEF GoodInv, ClientOK

(* Nothing happens.                                                        *)
LEMMA StutterStep ==
  ASSUME GoodInv, UNCHANGED vars
  PROVE  GoodInv'
<1>1. PICK c : c = Client
  OBVIOUS
<1>2. PICK F : F = toClient
  OBVIOUS
<1>3. c = Client' /\ F = toClient' /\ UNCHANGED serverVars /\ UNCHANGED connection
  BY <1>1, <1>2 DEF vars, Client, clientVars
<1>4. ClientOK(Client, toClient, 0)'
  BY <1>1, <1>2, <1>3, ServerStays, ClientNext DEF GoodInv
<1>5. ServerTypes' /\ (connection' = "up" => WindowOK')
  BY <1>3, ServerTypesStay, WindowStays DEF GoodInv
<1>6. FlightTypes'
  BY <1>2, <1>3 DEF GoodInv, FlightTypes
<1> QED BY <1>4, <1>5, <1>6 DEF GoodInv

(* Every step keeps the invariant.                                         *)
LEMMA NextInv ==
  ASSUME DownloadInv, [Next]_vars
  PROVE  DownloadInv'
<1>1. SUFFICES ASSUME ~mistaken' PROVE GoodInv'
  BY Zenon DEF DownloadInv
<1>2. mistaken => mistaken'
  BY Zenon DEF Next, vars, SV_ExecuteClientCommand, SV_WriteDownloadToClient,
               CL_ParseServerMessage, Lose
<1>3. GoodInv
  BY <1>1, <1>2, Zenon DEF DownloadInv
<1>4. CASE SV_ExecuteClientCommand
  BY <1>3, <1>4, CommandStep
<1>5. CASE SV_WriteDownloadToClient
  <2>1. RefuseDownload \/ SendBlocks
    BY <1>5 DEF SV_WriteDownloadToClient
  <2> QED BY <1>3, <1>5, <2>1, RefuseStep, SendStep
<1>6. CASE CL_ParseServerMessage
  BY <1>1, <1>3, <1>6, ReadStep
<1>7. CASE Lose
  BY <1>3, <1>7, LoseStep
<1>8. CASE UNCHANGED vars
  BY <1>3, <1>8, StutterStep
<1> QED BY <1>4, <1>5, <1>6, <1>7, <1>8 DEF Next

(* The invariant holds throughout a connection, whatever the lengths of    *)
(* the files and whichever cannot be created (SV_WriteDownloadToClient and *)
(* CL_ParseDownload), until a first block is taken for another file's.     *)
THEOREM DownloadInvariance == Spec => []DownloadInv
<1>1. Init => DownloadInv
  BY InitInv DEF DownloadInv
<1>2. DownloadInv /\ [Next]_vars => DownloadInv'
  BY NextInv
<1> QED BY <1>1, <1>2, PTL DEF Spec

(* Files arrive intact, whatever is lost or sent again, unless the first   *)
(* block of one was taken for that of another (CL_ParseDownload's test of  *)
(* the block number, against the window that SV_WriteDownloadToClient      *)
(* sends again).                                                           *)
THEOREM FilesArriveIntact == Spec => []FilesIntact
<1>1. DownloadInv => FilesIntact
  <2> SUFFICES ASSUME DownloadInv, ~mistaken PROVE FilesIntact
    BY Zenon DEF FilesIntact
  <2>1. PICK c : c = Client
    OBVIOUS
  <2>2. Intact(c) /\ c.installed = installed
    BY <2>1 DEF DownloadInv, GoodInv, ClientOK, Client
  <2> QED BY <2>2 DEF Intact, FilesIntact, Contents
<1> QED BY <1>1, DownloadInvariance, PTL

(* The server never drops a client for the block it acknowledges           *)
(* (SV_NextDownload_f, "broken download"), unless the first block of a     *)
(* file was taken for that of another.                                     *)
THEOREM AcknowledgementsMatch == Spec => []AcksMatch
<1>1. DownloadInv => AcksMatch
  <2> SUFFICES ASSUME DownloadInv, ~mistaken PROVE AcksMatch
    BY Zenon DEF AcksMatch
  <2>1. PICK c : c = Client
    OBVIOUS
  <2>2. c.connection = connection
    BY <2>1 DEF Client
  <2>3. c.connection # "broken download"
    BY <2>1 DEF DownloadInv, GoodInv, ClientOK, ClientTypes
  <2> QED BY <2>2, <2>3 DEF AcksMatch
<1> QED BY <1>1, DownloadInvariance, PTL

=============================================================================
