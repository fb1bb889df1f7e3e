------------------------ MODULE ServerCommands_proofs ------------------------
(***************************************************************************)
(* Proofs about ServerCommands, for every size of the ring, every set of   *)
(* long values, and every number of commands, values, maps and messages.   *)
(***************************************************************************)
EXTENDS ServerCommands, SequencesExt, SequenceTheorems, WellFoundedInduction,
        TLAPS

-----------------------------------------------------------------------------
(* Slots of a ring, sets of numbers and sequences.                         *)

(* Division by the size of the ring: the slot is the remainder.            *)
LEMMA SlotOf ==
  ASSUME NEW size \in Nat \ {0}, NEW n \in Nat
  PROVE  /\ n = size * (n \div size) + (n % size)
         /\ n % size \in 0 .. size - 1
         /\ n \div size \in Nat
OBVIOUS

(* The slots of two numbers less than a ring apart are different.          *)
LEMMA SlotsOfNeighbours ==
  ASSUME NEW size \in Nat \ {0}, NEW m \in Nat, NEW n \in Nat,
         m < n, n < m + size
  PROVE  m % size # n % size
<1> DEFINE a == m \div size
           b == n \div size
           r == n % size
<1> SUFFICES ASSUME m % size = n % size PROVE FALSE
  OBVIOUS
<1>1. a \in Nat /\ b \in Nat /\ r \in Nat
  <2>1. a \in Nat /\ b \in Nat
    BY SlotOf
  <2>2. r \in 0 .. size - 1
    BY SlotOf
  <2> HIDE DEF a, b, r
  <2> QED BY <2>1, <2>2
<1>2. m = size * a + r /\ n = size * b + r
  BY SlotOf
<1> HIDE DEF a, b, r
<1>3. n - m = size * (b - a)
  BY <1>1, <1>2
<1>4. b - a >= 1 => size * (b - a) >= size
  BY <1>1
<1>5. b - a <= 0 => size * (b - a) <= 0
  BY <1>1
<1> QED BY <1>1, <1>3, <1>4, <1>5

(* Max is the element that no other exceeds.                               *)
LEMMA MaxIs ==
  ASSUME NEW S, S \subseteq Nat, NEW x \in S, \A y \in S : x >= y
  PROVE  Max(S) = x
<1>1. Max(S) \in S /\ \A y \in S : Max(S) >= y
  BY DEF Max
<1>2. Max(S) \in Nat /\ x \in Nat /\ Max(S) >= x /\ x >= Max(S)
  BY <1>1
<1> QED BY <1>2

(* A set of numbers that has a bound has a largest element.                *)
LEMMA MaxExists ==
  ASSUME NEW k \in Nat, NEW S, S \subseteq 0 .. k, S # {}
  PROVE  Max(S) \in S /\ \A y \in S : Max(S) >= y
<1> DEFINE T == {j \in Nat : j <= k /\ k - j \in S}
<1>1. T # {} /\ T \subseteq Nat
  <2>1. PICK y \in S : TRUE
    OBVIOUS
  <2>2. y \in 0 .. k
    OBVIOUS
  <2>3. k - y \in Nat /\ k - y <= k /\ k - (k - y) = y
    BY <2>2
  <2> QED BY <2>1, <2>3
<1>2. PICK x \in T : \A y \in T : ~ (<<y, x>> \in OpToRel(<, Nat))
  <2> HIDE DEF T
  <2> QED BY <1>1, WFMin, NatLessThanWellFounded
<1>3. \A y \in T : ~(y < x)
  BY <1>2 DEF OpToRel
<1>4. k - x \in S /\ x \in Nat /\ x <= k
  OBVIOUS
<1>5. ASSUME NEW y \in S PROVE k - x >= y
  <2>1. y \in 0 .. k
    OBVIOUS
  <2>2. k - y \in Nat /\ k - y <= k /\ k - (k - y) = y
    BY <2>1
  <2>3. k - y \in T
    BY <2>2
  <2>4. ~(k - y < x)
    BY <1>3, <2>3
  <2> QED BY <1>4, <2>1, <2>4
<1>6. S \subseteq Nat
  OBVIOUS
<1> HIDE DEF T
<1>7. Max(S) = k - x
  BY <1>4, <1>5, <1>6, MaxIs
<1> QED BY <1>4, <1>5, <1>7

(* A function on 1 .. k is a sequence of length k.                         *)
LEMMA FunctionIsSeq ==
  ASSUME NEW S, NEW k \in Nat, NEW f \in [1 .. k -> S]
  PROVE  f \in Seq(S) /\ Len(f) = k
<1>1. f \in Seq(S)
  BY SeqDef
<1>2. DOMAIN f = 1 .. k /\ DOMAIN f = 1 .. Len(f) /\ Len(f) \in Nat
  BY <1>1, LenProperties
<1> QED BY <1>1, <1>2

(* A message that is lost leaves the others in their order.                *)
LEMMA RemoveAtProperties ==
  ASSUME NEW S, NEW s \in Seq(S), NEW i \in DOMAIN s
  PROVE  /\ RemoveAt(s, i) \in Seq(S)
         /\ Len(RemoveAt(s, i)) = Len(s) - 1
         /\ \A j \in 1 .. Len(s) - 1 :
              RemoveAt(s, i)[j] = s[IF j < i THEN j ELSE j + 1]
<1> DEFINE before == SubSeq(s, 1, i - 1)
           after == SubSeq(s, i + 1, Len(s))
<1>0. Len(s) \in Nat /\ DOMAIN s = 1 .. Len(s)
  BY LenProperties
<1>1. \A j \in 1 .. Len(s) : s[j] \in S
  BY ElementOfSeq
<1>2. /\ before \in Seq(S) /\ Len(before) = i - 1
      /\ \A j \in 1 .. i - 1 : before[j] = s[j]
  <2>1. \A j \in 1 .. i - 1 : s[j] \in S
    BY <1>0, <1>1
  <2>2. /\ before \in Seq(S)
        /\ Len(before) = IF 1 <= i - 1 THEN (i - 1) - 1 + 1 ELSE 0
        /\ \A j \in 1 .. (i - 1) - 1 + 1 : before[j] = s[1 + j - 1]
    <3> HIDE DEF before
    <3> QED BY <1>0, <2>1, SubSeqProperties DEF before
  <2> HIDE DEF before
  <2> QED BY <1>0, <2>2
<1>3. /\ after \in Seq(S) /\ Len(after) = Len(s) - i
      /\ \A j \in 1 .. Len(s) - i : after[j] = s[i + j]
  <2>1. \A j \in i + 1 .. Len(s) : s[j] \in S
    BY <1>0, <1>1
  <2>2. /\ after \in Seq(S)
        /\ Len(after) = IF i + 1 <= Len(s) THEN Len(s) - (i + 1) + 1 ELSE 0
        /\ \A j \in 1 .. Len(s) - (i + 1) + 1 : after[j] = s[i + 1 + j - 1]
    <3> HIDE DEF after
    <3> QED BY <1>0, <2>1, SubSeqProperties DEF after
  <2> HIDE DEF after
  <2>3. ASSUME NEW j \in 1 .. Len(s) - i PROVE after[j] = s[i + j]
    <3>1. j \in 1 .. Len(s) - (i + 1) + 1 /\ i + 1 + j - 1 = i + j
      BY <1>0
    <3> QED BY <2>2, <3>1
  <2>4. Len(after) = Len(s) - i
    BY <1>0, <2>2
  <2> QED BY <2>2, <2>3, <2>4
<1>4. RemoveAt(s, i) = before \o after
  BY DEF RemoveAt
<1> HIDE DEF before, after
<1>5. /\ RemoveAt(s, i) \in Seq(S)
      /\ Len(RemoveAt(s, i)) = Len(before) + Len(after)
      /\ \A j \in 1 .. Len(before) + Len(after) :
           RemoveAt(s, i)[j] = IF j <= Len(before) THEN before[j]
                               ELSE after[j - Len(before)]
  <2>1. before \in Seq(S) /\ after \in Seq(S)
    BY <1>2, <1>3
  <2> QED BY <1>4, <2>1, ConcatProperties
<1>6. ASSUME NEW j \in 1 .. Len(s) - 1
      PROVE  RemoveAt(s, i)[j] = s[IF j < i THEN j ELSE j + 1]
  <2>1. CASE j < i
    <3>1. j \in 1 .. i - 1 /\ j \in 1 .. Len(before) + Len(after)
      BY <1>0, <1>2, <1>3, <2>1
    <3> QED BY <1>2, <1>5, <2>1, <3>1
  <2>2. CASE ~(j < i)
    <3>1. /\ j - (i - 1) \in 1 .. Len(s) - i
          /\ ~(j <= i - 1) /\ i + (j - (i - 1)) = j + 1
          /\ j \in 1 .. Len(before) + Len(after)
      BY <1>0, <1>2, <1>3, <2>2
    <3>2. RemoveAt(s, i)[j] = after[j - (i - 1)]
      BY <1>2, <1>5, <3>1
    <3>3. after[j - (i - 1)] = s[j + 1]
      BY <1>3, <3>1
    <3> QED BY <2>2, <3>2, <3>3
  <2> QED BY <2>1, <2>2
<1>7. Len(RemoveAt(s, i)) = Len(s) - 1
  BY <1>0, <1>2, <1>3, <1>5
<1> QED BY <1>5, <1>6, <1>7

(* Taking the oldest message.                                              *)
LEMMA TailOfMessages ==
  ASSUME NEW S, NEW s \in Seq(S), s # <<>>
  PROVE  /\ Head(s) = s[1] /\ 1 \in DOMAIN s /\ Tail(s) \in Seq(S)
         /\ \A i \in DOMAIN Tail(s) : i + 1 \in DOMAIN s /\ Tail(s)[i] = s[i + 1]
<1>1. /\ Len(s) \in Nat \ {0} /\ DOMAIN s = 1 .. Len(s)
      /\ Tail(s) \in Seq(S) /\ Len(Tail(s)) = Len(s) - 1
      /\ \A i \in 1 .. Len(Tail(s)) : Tail(s)[i] = s[i + 1]
  BY LenProperties, EmptySeq, HeadTailProperties
<1>2. DOMAIN Tail(s) = 1 .. Len(Tail(s))
  BY <1>1, LenProperties
<1>3. Head(s) = s[1]
  OBVIOUS
<1> QED BY <1>1, <1>2, <1>3

(* A message that is sent comes after those in flight.                     *)
LEMMA AppendedMessage ==
  ASSUME NEW S, NEW s \in Seq(S), NEW e \in S
  PROVE  /\ Append(s, e) \in Seq(S)
         /\ DOMAIN s = 1 .. Len(s) /\ Len(s) \in Nat
         /\ DOMAIN Append(s, e) = 1 .. Len(s) + 1
         /\ \A i \in 1 .. Len(s) : Append(s, e)[i] = s[i]
         /\ Append(s, e)[Len(s) + 1] = e
<1>1. Append(s, e) \in Seq(S) /\ Len(Append(s, e)) = Len(s) + 1
  BY AppendProperties
<1>2. DOMAIN Append(s, e) = 1 .. Len(s) + 1
  BY <1>1, LenProperties
<1>3. DOMAIN s = 1 .. Len(s) /\ Len(s) \in Nat
  BY LenProperties
<1> QED BY <1>1, <1>2, <1>3, AppendProperties

(* t is what is left of s when messages have been taken or lost.           *)
InOrderFrom(t, s) ==
  /\ \A i \in DOMAIN t : \E j \in DOMAIN s : t[i] = s[j]
  /\ \A i1, i2 \in DOMAIN t : i1 < i2 =>
       \E j1, j2 \in DOMAIN s : j1 < j2 /\ t[i1] = s[j1] /\ t[i2] = s[j2]

(* Taking the oldest message leaves the others in their order.             *)
LEMMA TakenInOrder ==
  ASSUME NEW S, NEW s \in Seq(S), s # <<>>
  PROVE  InOrderFrom(Tail(s), s)
<1>1. \A i \in DOMAIN Tail(s) : i + 1 \in DOMAIN s /\ Tail(s)[i] = s[i + 1]
  BY TailOfMessages
<1>2. \A i \in DOMAIN Tail(s) : i \in Nat
  <2>1. Tail(s) \in Seq(S)
    BY TailOfMessages
  <2> QED BY <2>1, LenProperties
<1>3. ASSUME NEW i1 \in DOMAIN Tail(s), NEW i2 \in DOMAIN Tail(s), i1 < i2
      PROVE  \E j1, j2 \in DOMAIN s :
                j1 < j2 /\ Tail(s)[i1] = s[j1] /\ Tail(s)[i2] = s[j2]
  <2>1. i1 + 1 < i2 + 1
    BY <1>2, <1>3
  <2> QED BY <1>1, <2>1
<1> QED BY <1>1, <1>3 DEF InOrderFrom

(* A message that is lost leaves the others in their order.                *)
LEMMA LostInOrder ==
  ASSUME NEW S, NEW s \in Seq(S), NEW i \in DOMAIN s
  PROVE  RemoveAt(s, i) \in Seq(S) /\ InOrderFrom(RemoveAt(s, i), s)
<1> DEFINE t == RemoveAt(s, i)
           From(j) == IF j < i THEN j ELSE j + 1
<1>1. /\ t \in Seq(S) /\ Len(t) = Len(s) - 1
      /\ \A j \in 1 .. Len(s) - 1 : t[j] = s[From(j)]
  BY RemoveAtProperties
<1>2. /\ Len(s) \in Nat /\ DOMAIN s = 1 .. Len(s)
      /\ DOMAIN t = 1 .. Len(s) - 1
  <2>1. DOMAIN t = 1 .. Len(t)
    <3> HIDE DEF t
    <3> QED BY <1>1, LenProperties
  <2> HIDE DEF t
  <2> QED BY <1>1, <2>1, LenProperties
<1> HIDE DEF t
<1>3. ASSUME NEW j \in DOMAIN t PROVE From(j) \in DOMAIN s /\ t[j] = s[From(j)]
  BY <1>1, <1>2
<1>4. ASSUME NEW i1 \in DOMAIN t, NEW i2 \in DOMAIN t, i1 < i2
      PROVE  From(i1) < From(i2)
  BY <1>2, <1>4
<1>5. \A i1, i2 \in DOMAIN t : i1 < i2 =>
        \E j1, j2 \in DOMAIN s : j1 < j2 /\ t[i1] = s[j1] /\ t[i2] = s[j2]
  <2> HIDE DEF From
  <2> QED BY <1>3, <1>4
<1>6. \A j \in DOMAIN t : \E k \in DOMAIN s : t[j] = s[k]
  BY <1>3
<1> HIDE DEF From
<1> QED BY <1>1, <1>5, <1>6 DEF t, InOrderFrom

-----------------------------------------------------------------------------
Text == [number : Nat, configstring : Nat, chunk : Nat]
Numbered == [number : Nat, text : Text]
Gamestate == [commands : Seq(Numbered), kind : {"gamestate"}, sequence : Nat,
              configstring : Nat, serverId : Nat]
Snapshot == [commands : Seq(Numbered), kind : {"snapshot"}, after : Nat,
             configstring : Nat, active : BOOLEAN]
Message == Gamestate \cup Snapshot
Packet == [serverId : Nat, reliableAcknowledge : Nat, key : Text]

(* The last command a message to the client follows.                       *)
After(m) == IF m.kind = "gamestate" THEN m.sequence ELSE m.after

TypeInv ==
    /\ TypeOK
    /\ toClient \in Seq(Message)
    /\ toServer \in Seq(Packet)

-----------------------------------------------------------------------------
(* The rings.                                                              *)

(* Every number has a slot.                                                *)
LEMMA SlotInRing == ASSUME NEW n \in Nat PROVE Slot(n) \in Slots
BY RingAssumption, SlotOf DEF Slot, Slots

(* The slots of two commands less than a ring apart are different.         *)
LEMMA SlotsDiffer ==
  ASSUME NEW m \in Nat, NEW n \in Nat, m < n, n < m + MAX_RELIABLE_COMMANDS
  PROVE  Slot(m) # Slot(n)
BY RingAssumption, SlotsOfNeighbours DEF Slot

(* What a command is about, without its number.                            *)
Subject == [configstring : Nat, chunk : Nat]

(* A command with its number is a text.                                    *)
LEMMA CommandType ==
  ASSUME NEW n \in Nat, NEW text \in Subject
  PROVE  Command(n, text) \in Text /\ Command(n, text).number = n
         /\ Command(n, text).configstring = text.configstring
         /\ Command(n, text).chunk = text.chunk
<1>1. text.configstring \in Nat /\ text.chunk \in Nat
  BY DEF Subject
<1> QED BY <1>1 DEF Command, Text

(* Commands that are added take no slot of another type.                   *)
LEMMA PutType ==
  ASSUME NEW ring \in [Slots -> Text], NEW last \in Nat,
         NEW texts \in Seq(Subject)
  PROVE  Put(ring, last, texts) \in [Slots -> Text]
<1> DEFINE Here(s) == {i \in DOMAIN texts : Slot(last + i) = s}
<1>1. Len(texts) \in Nat /\ DOMAIN texts = 1 .. Len(texts)
  BY LenProperties
<1>2. ASSUME NEW s \in Slots, Here(s) # {}
      PROVE  Command(last + Max(Here(s)), texts[Max(Here(s))]) \in Text
  <2>1. Here(s) \subseteq 0 .. Len(texts) /\ Here(s) \subseteq DOMAIN texts
    BY <1>1
  <2> HIDE DEF Here
  <2>2. Max(Here(s)) \in Here(s)
    BY <1>1, <1>2, <2>1, MaxExists
  <2>3. Max(Here(s)) \in 1 .. Len(texts)
    BY <1>1, <2>1, <2>2
  <2>4. texts[Max(Here(s))] \in Subject
    BY <2>3, ElementOfSeq
  <2>5. last + Max(Here(s)) \in Nat
    BY <1>1, <2>3
  <2> QED BY <2>4, <2>5, CommandType
<1>3. Put(ring, last, texts) =
        [s \in Slots |-> IF Here(s) = {} THEN ring[s]
                         ELSE Command(last + Max(Here(s)), texts[Max(Here(s))])]
  BY DEF Put
<1> HIDE DEF Here
<1>4. ASSUME NEW s \in Slots
      PROVE  (IF Here(s) = {} THEN ring[s]
              ELSE Command(last + Max(Here(s)), texts[Max(Here(s))])) \in Text
  BY <1>2
<1> QED BY <1>3, <1>4

(* Commands that fit in the ring are each in their own slot, and the       *)
(* commands before them that are less than a ring away keep theirs.        *)
LEMMA PutSlots ==
  ASSUME NEW ring \in [Slots -> Text], NEW last \in Nat,
         NEW texts \in Seq(Subject), Len(texts) <= MAX_RELIABLE_COMMANDS
  PROVE  /\ \A i \in 1 .. Len(texts) :
              Put(ring, last, texts)[Slot(last + i)] = Command(last + i, texts[i])
         /\ \A n \in 0 .. last :
              n + MAX_RELIABLE_COMMANDS > last + Len(texts) =>
                Put(ring, last, texts)[Slot(n)] = ring[Slot(n)]
<1> DEFINE Here(s) == {i \in DOMAIN texts : Slot(last + i) = s}
<1>1. Len(texts) \in Nat /\ DOMAIN texts = 1 .. Len(texts)
  BY LenProperties
<1>2. Put(ring, last, texts) =
        [s \in Slots |-> IF Here(s) = {} THEN ring[s]
                         ELSE Command(last + Max(Here(s)), texts[Max(Here(s))])]
  BY DEF Put
<1>3. ASSUME NEW i \in 1 .. Len(texts)
      PROVE  Put(ring, last, texts)[Slot(last + i)] = Command(last + i, texts[i])
  <2>1. last + i \in Nat /\ Slot(last + i) \in Slots
    BY <1>1, SlotInRing
  <2>2. ASSUME NEW j \in 1 .. Len(texts), i # j
        PROVE  Slot(last + j) # Slot(last + i)
    <3>1. CASE i < j
      BY <1>1, <3>1, SlotsDiffer, RingAssumption
    <3>2. CASE j < i
      BY <1>1, <3>2, SlotsDiffer, RingAssumption
    <3> QED BY <2>2, <3>1, <3>2
  <2>3. Here(Slot(last + i)) = {i}
    BY <1>1, <2>2
  <2>4. Max({i}) = i
    <3>1. {i} \subseteq Nat /\ i \in {i} /\ \A y \in {i} : i >= y
      BY <1>1
    <3> QED BY <3>1, MaxIs
  <2> HIDE DEF Here
  <2> QED BY <1>2, <2>1, <2>3, <2>4
<1>4. ASSUME NEW n \in 0 .. last, n + MAX_RELIABLE_COMMANDS > last + Len(texts)
      PROVE  Put(ring, last, texts)[Slot(n)] = ring[Slot(n)]
  <2>1. Slot(n) \in Slots
    BY SlotInRing
  <2>2. ASSUME NEW j \in 1 .. Len(texts) PROVE Slot(last + j) # Slot(n)
    BY <1>1, <1>4, SlotsDiffer, RingAssumption
  <2>3. Here(Slot(n)) = {}
    BY <1>1, <2>2
  <2> HIDE DEF Here
  <2> QED BY <1>2, <2>1, <2>3
<1> QED BY <1>3, <1>4

-----------------------------------------------------------------------------
(* Messages and packets.                                                   *)

(* What a message is made of.                                              *)
LEMMA MessageFields ==
  ASSUME NEW m \in Message
  PROVE  /\ m.commands \in Seq(Numbered) /\ After(m) \in Nat
         /\ m.kind \in {"gamestate", "snapshot"}
         /\ m.kind = "gamestate" => /\ m.sequence = After(m)
                                    /\ m.configstring \in Nat
                                    /\ m.serverId \in Nat
         /\ m.kind = "snapshot" => /\ m.after = After(m)
                                   /\ m.configstring \in Nat
                                   /\ m.active \in BOOLEAN
<1>1. CASE m \in Gamestate
  BY <1>1 DEF Gamestate, After
<1>2. CASE m \in Snapshot
  BY <1>2 DEF Snapshot, After
<1> QED BY <1>1, <1>2 DEF Message

(* The commands after an acknowledgement, each with what its slot holds.   *)
LEMMA PendingCommands ==
  ASSUME reliableSequence \in Nat, reliableCommands \in [Slots -> Text],
         NEW a \in Nat
  PROVE  /\ Pending(a) \in Seq(Numbered)
         /\ a <= reliableSequence => Len(Pending(a)) = reliableSequence - a
         /\ DOMAIN Pending(a) = 1 .. reliableSequence - a
         /\ \A j \in 1 .. reliableSequence - a :
              /\ Pending(a)[j].number = a + j
              /\ Pending(a)[j].text = reliableCommands[Slot(a + j)]
<1> DEFINE k == IF a <= reliableSequence THEN reliableSequence - a ELSE 0
<1>1. k \in Nat /\ 1 .. reliableSequence - a = 1 .. k
  OBVIOUS
<1>2. ASSUME NEW j \in 1 .. reliableSequence - a
      PROVE  [number |-> a + j, text |-> reliableCommands[Slot(a + j)]] \in Numbered
  <2>1. a + j \in Nat
    OBVIOUS
  <2>2. reliableCommands[Slot(a + j)] \in Text
    BY <2>1, SlotInRing
  <2> HIDE DEF k
  <2> QED BY <2>1, <2>2 DEF Numbered
<1>3. Pending(a) = [j \in 1 .. reliableSequence - a |->
                     [number |-> a + j, text |-> reliableCommands[Slot(a + j)]]]
  BY DEF Pending
<1>4. Pending(a) \in [1 .. reliableSequence - a -> Numbered]
  BY <1>2, <1>3
<1>5. a <= reliableSequence => k = reliableSequence - a
  OBVIOUS
<1> HIDE DEF k
<1>6. Pending(a) \in Seq(Numbered) /\ Len(Pending(a)) = k
  BY <1>1, <1>4, FunctionIsSeq
<1>7. DOMAIN Pending(a) = 1 .. reliableSequence - a
  BY <1>3
<1>8. ASSUME NEW j \in 1 .. reliableSequence - a
      PROVE  /\ Pending(a)[j].number = a + j
             /\ Pending(a)[j].text = reliableCommands[Slot(a + j)]
  BY <1>3
<1> QED BY <1>5, <1>6, <1>7, <1>8

(* A message is made of what the server has, and nothing else.             *)
LEMMA MessageTypes ==
  ASSUME NEW commands \in Seq(Numbered), NEW n \in Nat, NEW c \in Nat
  PROVE  /\ \A id \in Nat :
              [commands |-> commands, kind |-> "gamestate", sequence |-> n,
               configstring |-> c, serverId |-> id] \in Message
         /\ \A b \in BOOLEAN :
              [commands |-> commands, kind |-> "snapshot", after |-> n,
               configstring |-> c, active |-> b] \in Message
BY DEF Message, Gamestate, Snapshot

-----------------------------------------------------------------------------
(* What the handlers do to the rings.                                      *)

(* Adding commands, whether they fit or not.                               *)
LEMMA AddType ==
  ASSUME NEW texts \in Seq(Subject), texts # <<>>, SV_AddServerCommand(texts),
         state \in {"CONNECTED", "PRIMED", "ACTIVE", "ZOMBIE"},
         reliableSequence \in Nat, reliableAcknowledge \in Nat,
         reliableCommands \in [Slots -> Text],
         reliableSequence <= reliableAcknowledge + MAX_RELIABLE_COMMANDS
  PROVE  /\ reliableSequence' \in Nat
         /\ reliableCommands' \in [Slots -> Text]
         /\ state' = state \/ state' = "ZOMBIE"
         /\ state' # "ZOMBIE" =>
              /\ reliableSequence' = reliableSequence + Len(texts)
              /\ reliableSequence' <= reliableAcknowledge + MAX_RELIABLE_COMMANDS
              /\ reliableCommands' = Put(reliableCommands, reliableSequence, texts)
<1>1. /\ Len(texts) \in Nat /\ DOMAIN texts = 1 .. Len(texts)
      /\ \A i \in 1 .. Len(texts) : texts[i] \in Subject
  BY LenProperties, ElementOfSeq
<1>2. MAX_RELIABLE_COMMANDS \in Nat /\ Room \in Nat
      /\ Room = reliableAcknowledge + MAX_RELIABLE_COMMANDS - reliableSequence
  BY RingAssumption DEF Room
<1>3. CASE Len(texts) <= Room
  <2>1. /\ reliableSequence' = reliableSequence + Len(texts)
        /\ reliableCommands' = Put(reliableCommands, reliableSequence, texts)
        /\ state' = state
    BY <1>3 DEF SV_AddServerCommand
  <2>2. reliableCommands' \in [Slots -> Text]
    BY <2>1, PutType
  <2> QED BY <1>1, <1>2, <1>3, <2>1, <2>2
<1>4. CASE ~(Len(texts) <= Room)
  <2> DEFINE full == reliableSequence + Room
             fit == SubSeq(texts, 1, Room)
             rest == SubSeq(texts, Room + 2, Len(texts))
             after == SV_DropClient \o rest
  <2>1. /\ reliableSequence' = full + 1 + Len(after)
        /\ reliableCommands' =
             Put(Put(reliableCommands, reliableSequence, fit), full + 1, after)
        /\ state' = "ZOMBIE"
    BY <1>4 DEF SV_AddServerCommand
  <2>2. full \in Nat /\ full + 1 \in Nat
    BY <1>2
  <2>3. fit \in Seq(Subject)
    BY <1>1, <1>2, <1>4, SubSeqProperties
  <2>4. rest \in Seq(Subject)
    <3>1. \A i \in Room + 2 .. Len(texts) : texts[i] \in Subject
      BY <1>1, <1>2
    <3> QED BY <1>1, <1>2, <3>1, SubSeqProperties
  <2>5. Other \in Subject
    BY DEF Other, Subject
  <2>6. SV_DropClient \in Seq(Subject)
    BY <2>5 DEF SV_DropClient
  <2>7. after \in Seq(Subject) /\ Len(after) \in Nat
    <3>1. after \in Seq(Subject)
      <4> HIDE DEF rest
      <4> QED BY <2>4, <2>6, ConcatProperties
    <3> HIDE DEF after
    <3> QED BY <3>1, LenProperties
  <2> HIDE DEF full, fit, after
  <2>8. Put(reliableCommands, reliableSequence, fit) \in [Slots -> Text]
    BY <2>3, PutType
  <2>9. reliableCommands' \in [Slots -> Text]
    BY <2>1, <2>2, <2>7, <2>8, PutType
  <2> QED BY <2>1, <2>2, <2>7, <2>9
<1> QED BY <1>3, <1>4

(* Parsing the commands of any message.                                    *)
LEMMA ParseType ==
  ASSUME TypeOK, NEW commands \in Seq(Numbered)
  PROVE  LET c == CL_ParseCommandString(commands) IN
         /\ c.serverCommandSequence \in Nat
         /\ c.serverCommands \in [Slots -> Text]
         /\ c.serverCommandsBad \in [Slots -> BOOLEAN]
         /\ c.lastExecutedServerCommand = clc.lastExecutedServerCommand
         /\ c = [serverCommandSequence |-> c.serverCommandSequence,
                 serverCommands |-> c.serverCommands,
                 serverCommandsBad |-> c.serverCommandsBad,
                 lastExecutedServerCommand |-> clc.lastExecutedServerCommand]
<1> DEFINE c == CL_ParseCommandString(commands)
           seq == IF New(commands) = {} THEN clc.serverCommandSequence
                  ELSE commands[Max(New(commands))].number
           ring == [s \in Slots |->
                      IF InSlot(commands, s) = {} THEN clc.serverCommands[s]
                      ELSE commands[Max(InSlot(commands, s))].text]
           bad == [s \in Slots |->
                     clc.serverCommandsBad[s] /\ InSlot(commands, s) = {}]
<1>1. clc \in [serverCommandSequence : Nat, serverCommands : [Slots -> Text],
               serverCommandsBad : [Slots -> BOOLEAN],
               lastExecutedServerCommand : Nat]
  BY DEF TypeOK, Text
<1>2. c = [serverCommandSequence |-> seq, serverCommands |-> ring,
           serverCommandsBad |-> bad,
           lastExecutedServerCommand |-> clc.lastExecutedServerCommand]
  <2>1. c = [clc EXCEPT !.serverCommandSequence = seq,
                        !.serverCommands = ring, !.serverCommandsBad = bad]
    BY <1>1, Zenon DEF CL_ParseCommandString
  <2> HIDE DEF c, seq, ring, bad
  <2> QED BY <1>1, <2>1
<1>3. /\ Len(commands) \in Nat /\ DOMAIN commands = 1 .. Len(commands)
      /\ \A i \in 1 .. Len(commands) : commands[i] \in Numbered
  BY LenProperties, ElementOfSeq
<1>4. \A i \in 1 .. Len(commands) : commands[i].number \in Nat
                                    /\ commands[i].text \in Text
  BY <1>3 DEF Numbered
<1>5. seq \in Nat
  <2>1. New(commands) \subseteq 1 .. Len(commands)
    BY <1>3 DEF New
  <2>2. New(commands) \subseteq 0 .. Len(commands)
    BY <2>1
  <2>3. New(commands) # {} => Max(New(commands)) \in 1 .. Len(commands)
    BY <1>3, <2>1, <2>2, MaxExists
  <2>4. clc.serverCommandSequence \in Nat
    BY <1>1
  <2> QED BY <1>4, <2>3, <2>4
<1>6. ring \in [Slots -> Text]
  <2>1. ASSUME NEW s \in Slots, InSlot(commands, s) # {}
        PROVE  commands[Max(InSlot(commands, s))].text \in Text
    <3>1. InSlot(commands, s) \subseteq 1 .. Len(commands)
      BY <1>3 DEF InSlot, New
    <3>2. InSlot(commands, s) \subseteq 0 .. Len(commands)
      BY <3>1
    <3>3. Max(InSlot(commands, s)) \in 1 .. Len(commands)
      BY <1>3, <2>1, <3>1, <3>2, MaxExists
    <3> QED BY <1>4, <3>3
  <2>2. \A s \in Slots : clc.serverCommands[s] \in Text
    BY <1>1
  <2> QED BY <2>1, <2>2
<1>7. bad \in [Slots -> BOOLEAN]
  OBVIOUS
<1> HIDE DEF seq, ring, bad
<1> QED BY <1>2, <1>5, <1>6, <1>7

-----------------------------------------------------------------------------
(* The inductive invariant.  It speaks of a client that has not been       *)
(* dropped: a ring that has overflowed keeps no promise.                   *)

(* Every command that can still be asked for has its slot.                 *)
RingHolds ==
    \A n \in 0 .. reliableSequence :
        n + MAX_RELIABLE_COMMANDS > reliableSequence =>
            reliableCommands[Slot(n)].number = n

Window ==
    /\ reliableAcknowledge <= clc.serverCommandSequence
    /\ clc.serverCommandSequence <= reliableSequence
    /\ reliableSequence <= reliableAcknowledge + MAX_RELIABLE_COMMANDS

(* A message to a client that has the commands up to c carries those after *)
(* b, each with the text that a ring whose last command is r has for it.   *)
Carries(m, b, r, ring) ==
    /\ b + Len(m.commands) = After(m)
    /\ \A j \in DOMAIN m.commands :
          /\ m.commands[j].number = b + j
          /\ m.commands[j].text.number = b + j
          /\ b + j + MAX_RELIABLE_COMMANDS > r =>
                m.commands[j].text = ring[Slot(b + j)]

GenuineMessage(m, c, a, r, ring) ==
    /\ c <= After(m) /\ After(m) <= r
    /\ \E b \in 0 .. a : Carries(m, b, r, ring)

MessagesGenuine ==
    \A i \in DOMAIN toClient :
        GenuineMessage(toClient[i], clc.serverCommandSequence,
                       reliableAcknowledge, reliableSequence, reliableCommands)

MessagesAscend ==
    \A i, j \in DOMAIN toClient : i < j => After(toClient[i]) <= After(toClient[j])

(* An acknowledgement in flight is between what the server knows and what  *)
(* the client has, and the packet's key is in the server's ring.           *)
GenuinePacket(p, a, c, r, ring) ==
    /\ a <= p.reliableAcknowledge /\ p.reliableAcknowledge <= c
    /\ p.reliableAcknowledge + MAX_RELIABLE_COMMANDS > r =>
          p.key = ring[Slot(p.reliableAcknowledge)]

PacketsGenuine ==
    \A i \in DOMAIN toServer :
        GenuinePacket(toServer[i], reliableAcknowledge,
                      clc.serverCommandSequence, reliableSequence, reliableCommands)

PacketsAscend ==
    \A i, j \in DOMAIN toServer :
        i < j => toServer[i].reliableAcknowledge <= toServer[j].reliableAcknowledge

(* The client's ring holds the last commands it has had.                   *)
RingAgrees(c, mine, r, ring) ==
    \A n \in 0 .. c :
        n + MAX_RELIABLE_COMMANDS > c =>
            /\ mine[Slot(n)].number = n
            /\ n + MAX_RELIABLE_COMMANDS > r => mine[Slot(n)] = ring[Slot(n)]

ClientRingHolds ==
    RingAgrees(clc.serverCommandSequence, clc.serverCommands,
               reliableSequence, reliableCommands)

SnapshotsFollow ==
    /\ cl.snap.valid => cl.snap.serverCommandNum >= cl.snap.after
    /\ cgame.snap.valid => cgame.serverCommandSequence >= cgame.snap.after

Story ==
    /\ RingHolds /\ Window /\ MessagesGenuine /\ MessagesAscend
    /\ PacketsGenuine /\ PacketsAscend /\ ClientRingHolds /\ SnapshotsFollow

Inv == TypeInv /\ (state # "ZOMBIE" => Story)

(* A client that has just connected.                                       *)
LEMMA InvInit == Init => Inv
<1> SUFFICES ASSUME Init PROVE Inv
  OBVIOUS
<1>1. /\ Slots # {} /\ MAX_RELIABLE_COMMANDS \in Nat \ {0} /\ 0 \in Slots
      /\ Slot(0) \in Slots
  BY RingAssumption, SlotInRing DEF Slots
<1>2. NoCommand \in Text /\ NoCommand.number = 0
  BY DEF NoCommand, Command, Other, Text
<1>3. NoSnapshot \in [valid : BOOLEAN, serverCommandNum : Nat, after : Nat,
                      configstring : Nat, active : BOOLEAN]
      /\ NoSnapshot.valid = FALSE
  BY DEF NoSnapshot
<1>4. toClient \in Seq(Message) /\ toServer \in Seq(Packet)
      /\ DOMAIN toClient = {} /\ DOMAIN toServer = {}
  BY EmptySeq DEF Init
<1>5. reliableCommands \in [Slots -> Text]
  BY <1>2 DEF Init
<1>6. clc \in [serverCommandSequence : Nat, serverCommands : [Slots -> Text],
               serverCommandsBad : [Slots -> BOOLEAN],
               lastExecutedServerCommand : Nat]
  BY <1>2 DEF Init
<1>7. cl \in [serverId : Nat, configstring : Nat,
              snap : [valid : BOOLEAN, serverCommandNum : Nat, after : Nat,
                      configstring : Nat, active : BOOLEAN]]
      /\ cl.snap.valid = FALSE
  BY <1>3 DEF Init, CL_ClearState
<1>8. cgame \in [running : BOOLEAN, serverCommandSequence : Nat,
                 snap : [valid : BOOLEAN, serverCommandNum : Nat, after : Nat,
                         configstring : Nat, active : BOOLEAN]]
      /\ cgame.snap.valid = FALSE
  BY <1>3 DEF Init
<1>9. /\ state = "CONNECTED" /\ reliableSequence = 0 /\ reliableAcknowledge = 0
      /\ configstring \in Nat /\ serverId \in Nat /\ clientError \in BOOLEAN
      /\ bigConfigString \in [configstring : Nat, chunk : Nat]
  BY DEF Init, Other
<1>10. TypeOK
  BY <1>5, <1>6, <1>7, <1>8, <1>9 DEF TypeOK, Text
<1>11. /\ reliableCommands[Slot(0)] = NoCommand
       /\ clc.serverCommandSequence = 0
       /\ clc.serverCommands[Slot(0)] = NoCommand
  BY <1>1 DEF Init
<1>12. 0 .. 0 = {0}
  OBVIOUS
<1>13. RingHolds /\ Window /\ ClientRingHolds
  BY <1>1, <1>2, <1>9, <1>11, <1>12 DEF RingHolds, Window, ClientRingHolds,
       RingAgrees
<1>14. /\ MessagesGenuine /\ MessagesAscend /\ PacketsGenuine /\ PacketsAscend
       /\ SnapshotsFollow
  BY <1>4, <1>7, <1>8 DEF MessagesGenuine, MessagesAscend, PacketsGenuine,
       PacketsAscend, SnapshotsFollow
<1> QED BY <1>4, <1>10, <1>13, <1>14 DEF Inv, TypeInv, Story

(* What the types say of each variable.                                    *)
LEMMA TypeFacts ==
  ASSUME TypeInv
  PROVE  /\ reliableSequence \in Nat /\ reliableAcknowledge \in Nat
         /\ reliableCommands \in [Slots -> Text]
         /\ configstring \in Nat /\ serverId \in Nat
         /\ toClient \in Seq(Message) /\ toServer \in Seq(Packet)
         /\ clc.serverCommandSequence \in Nat
         /\ clc.serverCommands \in [Slots -> Text]
         /\ clc.serverCommandsBad \in [Slots -> BOOLEAN]
         /\ clc.lastExecutedServerCommand \in Nat
         /\ cl.snap.serverCommandNum \in Nat /\ cl.snap.after \in Nat
         /\ cl.configstring \in Nat /\ cl.serverId \in Nat
         /\ cgame.serverCommandSequence \in Nat /\ cgame.snap.after \in Nat
         /\ state \in {"CONNECTED", "PRIMED", "ACTIVE", "ZOMBIE"}
         /\ MAX_RELIABLE_COMMANDS \in Nat \ {0}
<1>1. /\ reliableSequence \in Nat /\ reliableAcknowledge \in Nat
      /\ configstring \in Nat /\ serverId \in Nat
      /\ state \in {"CONNECTED", "PRIMED", "ACTIVE", "ZOMBIE"}
      /\ reliableCommands \in [Slots -> Text]
  BY DEF TypeInv, TypeOK, Text
<1>2. clc \in [serverCommandSequence : Nat, serverCommands : [Slots -> Text],
               serverCommandsBad : [Slots -> BOOLEAN],
               lastExecutedServerCommand : Nat]
  BY DEF TypeInv, TypeOK, Text
<1>3. cl \in [serverId : Nat, configstring : Nat,
              snap : [valid : BOOLEAN, serverCommandNum : Nat, after : Nat,
                      configstring : Nat, active : BOOLEAN]]
  BY DEF TypeInv, TypeOK
<1>4. cgame \in [running : BOOLEAN, serverCommandSequence : Nat,
                 snap : [valid : BOOLEAN, serverCommandNum : Nat, after : Nat,
                         configstring : Nat, active : BOOLEAN]]
  BY DEF TypeInv, TypeOK
<1>5. toClient \in Seq(Message) /\ toServer \in Seq(Packet)
  BY DEF TypeInv
<1> QED BY <1>1, <1>2, <1>3, <1>4, <1>5, RingAssumption

(* The fields of messages and packets in flight.                           *)
LEMMA InFlight ==
  ASSUME TypeInv
  PROVE  /\ Len(toClient) \in Nat /\ DOMAIN toClient = 1 .. Len(toClient)
         /\ Len(toServer) \in Nat /\ DOMAIN toServer = 1 .. Len(toServer)
         /\ \A i \in DOMAIN toClient :
              toClient[i] \in Message /\ After(toClient[i]) \in Nat
         /\ \A i \in DOMAIN toServer :
              /\ toServer[i] \in Packet
              /\ toServer[i].reliableAcknowledge \in Nat
              /\ toServer[i].serverId \in Nat /\ toServer[i].key \in Text
<1>1. toClient \in Seq(Message) /\ toServer \in Seq(Packet)
  BY DEF TypeInv
<1>2. /\ Len(toClient) \in Nat /\ DOMAIN toClient = 1 .. Len(toClient)
      /\ Len(toServer) \in Nat /\ DOMAIN toServer = 1 .. Len(toServer)
  BY <1>1, LenProperties
<1>3. /\ \A i \in DOMAIN toClient : toClient[i] \in Message
      /\ \A i \in DOMAIN toServer : toServer[i] \in Packet
  BY <1>1, <1>2, ElementOfSeq
<1>4. \A i \in DOMAIN toClient : After(toClient[i]) \in Nat
  BY <1>3, MessageFields
<1>5. \A p \in Packet : /\ p.reliableAcknowledge \in Nat
                        /\ p.serverId \in Nat /\ p.key \in Text
  BY DEF Packet
<1> QED BY <1>2, <1>3, <1>4, <1>5

-----------------------------------------------------------------------------
(* What is in flight stays genuine.                                        *)

(* A ring keeps, of the commands up to r, those that newer ones up to r2   *)
(* leave their slots.                                                      *)
Keeps(ring, r, ring2, r2) ==
    \A n \in 0 .. r : n + MAX_RELIABLE_COMMANDS > r2 => ring2[Slot(n)] = ring[Slot(n)]

(* A message stays genuine while both ends move on.                        *)
LEMMA MessageStays ==
  ASSUME NEW m \in Message, NEW c, NEW a \in Nat, NEW r \in Nat, NEW ring,
         NEW c2, NEW a2 \in Nat, NEW r2 \in Nat, NEW ring2,
         GenuineMessage(m, c, a, r, ring),
         c2 <= After(m), a <= a2, r <= r2, Keeps(ring, r, ring2, r2)
  PROVE  GenuineMessage(m, c2, a2, r2, ring2)
<1>1. m.commands \in Seq(Numbered) /\ After(m) \in Nat /\ After(m) <= r
  BY MessageFields DEF GenuineMessage
<1>2. DOMAIN m.commands = 1 .. Len(m.commands) /\ Len(m.commands) \in Nat
  BY <1>1, LenProperties
<1>3. PICK b \in 0 .. a : Carries(m, b, r, ring)
  BY DEF GenuineMessage
<1>4. b + Len(m.commands) = After(m)
  BY <1>3 DEF Carries
<1>5. ASSUME NEW j \in DOMAIN m.commands, b + j + MAX_RELIABLE_COMMANDS > r2
      PROVE  m.commands[j].text = ring2[Slot(b + j)]
  <2>1. b + j \in 0 .. r /\ b + j + MAX_RELIABLE_COMMANDS > r
    BY <1>1, <1>2, <1>4, <1>5, RingAssumption
  <2>2. m.commands[j].text = ring[Slot(b + j)]
    BY <1>3, <2>1 DEF Carries
  <2> QED BY <1>5, <2>1, <2>2 DEF Keeps
<1>6. Carries(m, b, r2, ring2)
  BY <1>3, <1>5 DEF Carries
<1>7. b \in 0 .. a2 /\ After(m) <= r2
  BY <1>1
<1> QED BY <1>6, <1>7 DEF GenuineMessage

(* A packet stays genuine while the client moves on.                       *)
LEMMA PacketStays ==
  ASSUME NEW p \in Packet, NEW a \in Nat, NEW c \in Nat, NEW r \in Nat,
         NEW ring, NEW a2 \in Nat, NEW c2 \in Nat, NEW r2 \in Nat, NEW ring2,
         GenuinePacket(p, a, c, r, ring), a2 <= p.reliableAcknowledge,
         c <= c2, c <= r, r <= r2, Keeps(ring, r, ring2, r2)
  PROVE  GenuinePacket(p, a2, c2, r2, ring2)
<1>1. p.reliableAcknowledge \in Nat
  BY DEF Packet
<1>2. p.reliableAcknowledge <= c /\ p.reliableAcknowledge <= c2
  BY <1>1 DEF GenuinePacket
<1>3. ASSUME p.reliableAcknowledge + MAX_RELIABLE_COMMANDS > r2
      PROVE  p.key = ring2[Slot(p.reliableAcknowledge)]
  <2>1. /\ p.reliableAcknowledge \in 0 .. r
        /\ p.reliableAcknowledge + MAX_RELIABLE_COMMANDS > r
    BY <1>1, <1>2, <1>3, RingAssumption
  <2> QED BY <1>3, <2>1 DEF GenuinePacket, Keeps
<1> QED BY <1>2, <1>3 DEF GenuinePacket

(* What the client's ring has in common with the server's, it keeps when   *)
(* the server adds commands.                                               *)
LEMMA AgreementStays ==
  ASSUME NEW c \in Nat, NEW mine, NEW r \in Nat, NEW ring, NEW r2 \in Nat,
         NEW ring2, RingAgrees(c, mine, r, ring), c <= r, r <= r2,
         Keeps(ring, r, ring2, r2)
  PROVE  RingAgrees(c, mine, r2, ring2)
<1>1. ASSUME NEW n \in 0 .. c, n + MAX_RELIABLE_COMMANDS > c,
             n + MAX_RELIABLE_COMMANDS > r2
      PROVE  mine[Slot(n)] = ring2[Slot(n)]
  <2>1. n \in 0 .. r /\ n + MAX_RELIABLE_COMMANDS > r
    BY <1>1, RingAssumption
  <2> QED BY <1>1, <2>1 DEF RingAgrees, Keeps
<1> QED BY <1>1 DEF RingAgrees

(* The commands after an acknowledgement that the client has sent.         *)
LEMMA MessageMade ==
  ASSUME reliableSequence \in Nat, reliableCommands \in [Slots -> Text],
         RingHolds, NEW b \in Nat, b <= reliableSequence,
         reliableSequence <= b + MAX_RELIABLE_COMMANDS,
         NEW a \in Nat, b <= a, NEW c \in Nat, c <= reliableSequence,
         NEW m \in Message, After(m) = reliableSequence,
         m.commands = Pending(b)
  PROVE  GenuineMessage(m, c, a, reliableSequence, reliableCommands)
<1>1. /\ Len(m.commands) = reliableSequence - b
      /\ DOMAIN m.commands = 1 .. reliableSequence - b
      /\ \A j \in 1 .. reliableSequence - b :
           /\ m.commands[j].number = b + j
           /\ m.commands[j].text = reliableCommands[Slot(b + j)]
  BY PendingCommands
<1>2. b + Len(m.commands) = After(m)
  BY <1>1
<1>3. ASSUME NEW j \in 1 .. reliableSequence - b
      PROVE  reliableCommands[Slot(b + j)].number = b + j
  BY RingAssumption DEF RingHolds
<1>4. Carries(m, b, reliableSequence, reliableCommands)
  BY <1>1, <1>2, <1>3 DEF Carries
<1>5. b \in 0 .. a
  OBVIOUS
<1> QED BY <1>4, <1>5 DEF GenuineMessage

(* Adding commands that fit in the ring.                                   *)
LEMMA AddKeeps ==
  ASSUME TypeInv, Window, RingHolds, NEW texts \in Seq(Subject),
         reliableSequence + Len(texts) <= reliableAcknowledge + MAX_RELIABLE_COMMANDS
  PROVE  LET r2 == reliableSequence + Len(texts)
             ring2 == Put(reliableCommands, reliableSequence, texts)
         IN /\ Keeps(reliableCommands, reliableSequence, ring2, r2)
            /\ \A n \in 0 .. r2 :
                 n + MAX_RELIABLE_COMMANDS > r2 => ring2[Slot(n)].number = n
<1> DEFINE r2 == reliableSequence + Len(texts)
           ring2 == Put(reliableCommands, reliableSequence, texts)
<1>1. /\ reliableSequence \in Nat /\ reliableAcknowledge \in Nat
      /\ reliableCommands \in [Slots -> Text]
      /\ MAX_RELIABLE_COMMANDS \in Nat \ {0} /\ clc.serverCommandSequence \in Nat
  BY TypeFacts
<1>2. /\ Len(texts) \in Nat /\ reliableAcknowledge <= reliableSequence
      /\ \A i \in 1 .. Len(texts) : texts[i] \in Subject
  BY <1>1, LenProperties, ElementOfSeq DEF Window
<1>3. Len(texts) <= MAX_RELIABLE_COMMANDS
  BY <1>1, <1>2
<1>4. /\ \A i \in 1 .. Len(texts) : ring2[Slot(reliableSequence + i)] =
                                      Command(reliableSequence + i, texts[i])
      /\ \A n \in 0 .. reliableSequence :
           n + MAX_RELIABLE_COMMANDS > r2 =>
             ring2[Slot(n)] = reliableCommands[Slot(n)]
  BY <1>1, <1>3, PutSlots
<1>5. Keeps(reliableCommands, reliableSequence, ring2, r2)
  BY <1>4 DEF Keeps
<1>6. ASSUME NEW n \in 0 .. r2, n + MAX_RELIABLE_COMMANDS > r2
      PROVE  ring2[Slot(n)].number = n
  <2>1. CASE n <= reliableSequence
    <3>1. n \in 0 .. reliableSequence
      BY <1>1, <1>2, <2>1
    <3>2. n + MAX_RELIABLE_COMMANDS > reliableSequence
      BY <1>1, <1>2, <1>6
    <3> QED BY <1>4, <1>6, <3>1, <3>2 DEF RingHolds
  <2>2. CASE ~(n <= reliableSequence)
    <3> DEFINE i == n - reliableSequence
    <3>1. i \in 1 .. Len(texts) /\ reliableSequence + i = n /\ n \in Nat
      BY <1>1, <1>2, <2>2
    <3>2. ring2[Slot(n)] = Command(n, texts[i])
      BY <1>4, <3>1
    <3> HIDE DEF i
    <3>3. Command(n, texts[i]).number = n
      BY <1>2, <3>1, CommandType
    <3> QED BY <3>2, <3>3
  <2> QED BY <2>1, <2>2
<1> QED BY <1>5, <1>6

(* Parsing a message: what it makes of the connection is what the message  *)
(* follows.  The commands up to c the client had already; the others go to *)
(* their slots.                                                            *)
LEMMA ParseContent ==
  ASSUME TypeInv, NEW m \in Message, NEW b \in Nat, NEW r, NEW ring,
         b <= clc.serverCommandSequence, clc.serverCommandSequence <= After(m),
         Carries(m, b, r, ring)
  PROVE  LET c == CL_ParseCommandString(m.commands)
             had == clc.serverCommandSequence
         IN /\ c.serverCommandSequence = After(m)
            /\ \A n \in 0 .. After(m) : n + MAX_RELIABLE_COMMANDS > After(m) =>
                 IF n <= had
                   THEN /\ c.serverCommands[Slot(n)] = clc.serverCommands[Slot(n)]
                        /\ c.serverCommandsBad[Slot(n)] = clc.serverCommandsBad[Slot(n)]
                   ELSE /\ n - b \in DOMAIN m.commands
                        /\ c.serverCommands[Slot(n)] = m.commands[n - b].text
                        /\ c.serverCommandsBad[Slot(n)] = FALSE
<1> DEFINE c == CL_ParseCommandString(m.commands)
           had == clc.serverCommandSequence
           cs == m.commands
<1>1. /\ had \in Nat /\ After(m) \in Nat /\ cs \in Seq(Numbered)
      /\ MAX_RELIABLE_COMMANDS \in Nat \ {0}
  BY TypeFacts, MessageFields
<1>2. DOMAIN cs = 1 .. Len(cs) /\ Len(cs) \in Nat /\ b + Len(cs) = After(m)
  BY <1>1, LenProperties DEF Carries
<1>3. \A j \in 1 .. Len(cs) : cs[j].number = b + j
  BY <1>2 DEF Carries
<1>4. /\ clc.serverCommands \in [Slots -> Text]
      /\ clc.serverCommandsBad \in [Slots -> BOOLEAN]
      /\ clc \in [serverCommandSequence : Nat, serverCommands : [Slots -> Text],
               serverCommandsBad : [Slots -> BOOLEAN],
               lastExecutedServerCommand : Nat]
  BY TypeFacts DEF TypeInv, TypeOK, Text
<1>5. /\ c.serverCommandSequence =
           IF New(cs) = {} THEN had ELSE cs[Max(New(cs))].number
      /\ \A s \in Slots :
           c.serverCommands[s] = IF InSlot(cs, s) = {} THEN clc.serverCommands[s]
                                 ELSE cs[Max(InSlot(cs, s))].text
      /\ \A s \in Slots :
           c.serverCommandsBad[s] = (clc.serverCommandsBad[s] /\ InSlot(cs, s) = {})
  <2> DEFINE seq == IF New(cs) = {} THEN clc.serverCommandSequence
                    ELSE cs[Max(New(cs))].number
             slots == [s \in Slots |->
                        IF InSlot(cs, s) = {} THEN clc.serverCommands[s]
                        ELSE cs[Max(InSlot(cs, s))].text]
             bad == [s \in Slots |->
                       clc.serverCommandsBad[s] /\ InSlot(cs, s) = {}]
  <2>1. c = [clc EXCEPT !.serverCommandSequence = seq,
                        !.serverCommands = slots, !.serverCommandsBad = bad]
    BY <1>4, Zenon DEF CL_ParseCommandString
  <2>2. /\ c.serverCommandSequence = seq /\ c.serverCommands = slots
        /\ c.serverCommandsBad = bad
    <3> HIDE DEF c, seq, slots, bad
    <3> QED BY <1>4, <2>1
  <2> HIDE DEF c, cs
  <2> QED BY <2>2
<1> HIDE DEF c
<1>6. New(cs) = {j \in 1 .. Len(cs) : b + j > had}
  BY <1>2, <1>3 DEF New
<1>7. c.serverCommandSequence = After(m)
  <2>1. CASE had = After(m)
    <3>1. New(cs) = {}
      BY <1>1, <1>2, <1>6, <2>1
    <3> QED BY <1>5, <2>1, <3>1
  <2>2. CASE had # After(m)
    <3>1. Len(cs) \in New(cs) /\ \A j \in New(cs) : Len(cs) >= j
      BY <1>1, <1>2, <1>6, <2>2
    <3>2. New(cs) \subseteq Nat
      BY <1>6
    <3>3. Max(New(cs)) = Len(cs)
      BY <3>1, <3>2, MaxIs
    <3>4. cs[Len(cs)].number = After(m)
      BY <1>2, <1>3, <1>6, <3>1
    <3> QED BY <1>5, <3>1, <3>3, <3>4
  <2> QED BY <2>1, <2>2
<1>8. ASSUME NEW n \in 0 .. After(m), n + MAX_RELIABLE_COMMANDS > After(m), n <= had
      PROVE  InSlot(cs, Slot(n)) = {}
  <2> SUFFICES ASSUME NEW j \in InSlot(cs, Slot(n)) PROVE FALSE
    OBVIOUS
  <2>1. j \in 1 .. Len(cs) /\ b + j > had /\ Slot(b + j) = Slot(n)
    BY <1>3, <1>6 DEF InSlot
  <2>2. b + j \in Nat /\ n < b + j /\ b + j < n + MAX_RELIABLE_COMMANDS
    BY <1>1, <1>2, <1>8, <2>1
  <2> QED BY <2>1, <2>2, SlotsDiffer
<1>9. ASSUME NEW n \in 0 .. After(m), n + MAX_RELIABLE_COMMANDS > After(m), n > had
      PROVE  /\ n - b \in DOMAIN cs /\ InSlot(cs, Slot(n)) # {}
             /\ Max(InSlot(cs, Slot(n))) = n - b
  <2>0. n - b \in 1 .. Len(cs) /\ b + (n - b) = n
    BY <1>1, <1>2, <1>9
  <2>1. n - b \in InSlot(cs, Slot(n))
    BY <1>3, <1>6, <1>9, <2>0 DEF InSlot
  <2>2. ASSUME NEW j \in InSlot(cs, Slot(n)) PROVE n - b >= j /\ j \in Nat
    <3>1. j \in 1 .. Len(cs) /\ Slot(b + j) = Slot(n)
      BY <1>3, <1>6 DEF InSlot
    <3>2. CASE n < b + j
      <4>1. b + j \in Nat /\ b + j < n + MAX_RELIABLE_COMMANDS
        BY <1>1, <1>2, <1>9, <3>1
      <4> QED BY <3>1, <3>2, <4>1, SlotsDiffer
    <3> QED BY <1>2, <3>1, <3>2
  <2>3. Max(InSlot(cs, Slot(n))) = n - b
    BY <2>1, <2>2, MaxIs
  <2> QED BY <1>2, <2>0, <2>1, <2>3
<1>10. ASSUME NEW n \in 0 .. After(m), n + MAX_RELIABLE_COMMANDS > After(m)
       PROVE  IF n <= had
                THEN /\ c.serverCommands[Slot(n)] = clc.serverCommands[Slot(n)]
                     /\ c.serverCommandsBad[Slot(n)] = clc.serverCommandsBad[Slot(n)]
                ELSE /\ n - b \in DOMAIN m.commands
                     /\ c.serverCommands[Slot(n)] = m.commands[n - b].text
                     /\ c.serverCommandsBad[Slot(n)] = FALSE
  <2>1. Slot(n) \in Slots
    BY SlotInRing
  <2>2. CASE n <= had
    <3>1. InSlot(cs, Slot(n)) = {}
      BY <1>8, <1>10, <2>2
    <3> HIDE DEF cs
    <3>2. c.serverCommands[Slot(n)] = clc.serverCommands[Slot(n)]
      BY <1>5, <2>1, <3>1
    <3>3. c.serverCommandsBad[Slot(n)] = clc.serverCommandsBad[Slot(n)]
      <4>1. clc.serverCommandsBad[Slot(n)] \in BOOLEAN
        BY <1>4, <2>1
      <4>2. c.serverCommandsBad[Slot(n)] =
              (clc.serverCommandsBad[Slot(n)] /\ InSlot(cs, Slot(n)) = {})
        BY <1>5, <2>1
      <4> QED BY <3>1, <4>1, <4>2
    <3> QED BY <2>2, <3>2, <3>3
  <2>3. CASE ~(n <= had)
    <3>1. n > had
      BY <1>1, <2>3
    <3>2. /\ n - b \in DOMAIN cs /\ InSlot(cs, Slot(n)) # {}
          /\ Max(InSlot(cs, Slot(n))) = n - b
      BY <1>9, <1>10, <3>1
    <3>3. c.serverCommands[Slot(n)] = cs[n - b].text
      BY <1>5, <2>1, <3>2
    <3>4. c.serverCommandsBad[Slot(n)] = FALSE
      <4>1. c.serverCommandsBad[Slot(n)] =
              (clc.serverCommandsBad[Slot(n)] /\ InSlot(cs, Slot(n)) = {})
        BY <1>5, <2>1
      <4> QED BY <3>2, <4>1
    <3> QED BY <2>3, <3>2, <3>3, <3>4
  <2> QED BY <2>2, <2>3
<1> QED BY <1>7, <1>10 DEF c

-----------------------------------------------------------------------------
(* The steps of the server.                                                *)

(* Commands are added: SV_SendServerCommand and SV_SetConfigstring.        *)
LEMMA AddStep ==
  ASSUME Inv, state # "ZOMBIE", NEW texts \in Seq(Subject), texts # <<>>,
         SV_AddServerCommand(texts), configstring' \in Nat,
         UNCHANGED <<reliableAcknowledge, serverId, toClient, toServer, clientVars>>
  PROVE  Inv'
<1>1. TypeInv /\ Story
  BY DEF Inv
<1>2. /\ RingHolds /\ Window /\ MessagesGenuine /\ MessagesAscend
      /\ PacketsGenuine /\ PacketsAscend /\ ClientRingHolds /\ SnapshotsFollow
  BY <1>1 DEF Story
<1>3. /\ reliableSequence \in Nat /\ reliableAcknowledge \in Nat
      /\ reliableCommands \in [Slots -> Text] /\ clc.serverCommandSequence \in Nat
      /\ state \in {"CONNECTED", "PRIMED", "ACTIVE", "ZOMBIE"}
      /\ Len(texts) \in Nat /\ MAX_RELIABLE_COMMANDS \in Nat
  BY <1>1, TypeFacts, LenProperties
<1>4. /\ reliableSequence' \in Nat
      /\ reliableCommands' \in [Slots -> Text]
      /\ state' = state \/ state' = "ZOMBIE"
      /\ state' # "ZOMBIE" =>
           /\ reliableSequence' = reliableSequence + Len(texts)
           /\ reliableSequence' <= reliableAcknowledge + MAX_RELIABLE_COMMANDS
           /\ reliableCommands' = Put(reliableCommands, reliableSequence, texts)
  BY <1>2, <1>3, AddType DEF Window
<1>5. TypeInv'
  <2>1. TypeOK
    BY <1>1 DEF TypeInv
  <2>2. TypeOK'
    BY <1>3, <1>4, <2>1 DEF TypeOK, Text, clientVars
  <2> QED BY <1>1, <2>2 DEF TypeInv
<1>6. ASSUME state' # "ZOMBIE" PROVE Story'
  <2>1. /\ reliableSequence' = reliableSequence + Len(texts)
        /\ reliableSequence' <= reliableAcknowledge + MAX_RELIABLE_COMMANDS
        /\ reliableCommands' = Put(reliableCommands, reliableSequence, texts)
        /\ reliableSequence <= reliableSequence'
    BY <1>3, <1>4, <1>6
  <2>2. /\ Keeps(reliableCommands, reliableSequence, reliableCommands', reliableSequence')
        /\ \A n \in 0 .. reliableSequence' :
             n + MAX_RELIABLE_COMMANDS > reliableSequence' =>
               reliableCommands'[Slot(n)].number = n
    <3>1. reliableSequence + Len(texts) <= reliableAcknowledge + MAX_RELIABLE_COMMANDS
      BY <2>1
    <3> QED BY <1>1, <1>2, <2>1, <3>1, AddKeeps
  <2>3. /\ clc' = clc /\ reliableAcknowledge' = reliableAcknowledge
        /\ toClient' = toClient /\ toServer' = toServer
        /\ cl' = cl /\ cgame' = cgame
    BY DEF clientVars
  <2>4. RingHolds'
    BY <2>2 DEF RingHolds
  <2>5. Window'
    BY <1>2, <1>3, <1>4, <2>1, <2>3 DEF Window
  <2>6. MessagesGenuine'
    <3> SUFFICES ASSUME NEW i \in DOMAIN toClient
                 PROVE  GenuineMessage(toClient[i], clc.serverCommandSequence,
                          reliableAcknowledge, reliableSequence', reliableCommands')
      BY <2>3 DEF MessagesGenuine
    <3>1. GenuineMessage(toClient[i], clc.serverCommandSequence,
                         reliableAcknowledge, reliableSequence, reliableCommands)
      BY <1>2 DEF MessagesGenuine
    <3>2. toClient[i] \in Message
      BY <1>1, InFlight
    <3>3. clc.serverCommandSequence <= After(toClient[i])
      BY <3>1 DEF GenuineMessage
    <3> QED BY <1>3, <1>4, <2>1, <2>2, <3>1, <3>2, <3>3, MessageStays
  <2>7. PacketsGenuine'
    <3> SUFFICES ASSUME NEW i \in DOMAIN toServer
                 PROVE  GenuinePacket(toServer[i], reliableAcknowledge,
                          clc.serverCommandSequence, reliableSequence',
                          reliableCommands')
      BY <2>3 DEF PacketsGenuine
    <3>1. GenuinePacket(toServer[i], reliableAcknowledge,
            clc.serverCommandSequence, reliableSequence, reliableCommands)
      BY <1>2 DEF PacketsGenuine
    <3>2. toServer[i] \in Packet
      BY <1>1, InFlight
    <3>3. reliableAcknowledge <= toServer[i].reliableAcknowledge
      BY <3>1 DEF GenuinePacket
    <3>4. clc.serverCommandSequence <= reliableSequence
      BY <1>2 DEF Window
    <3> QED BY <1>3, <1>4, <2>1, <2>2, <3>1, <3>2, <3>3, <3>4, PacketStays
  <2>8. ClientRingHolds'
    <3>1. clc.serverCommandSequence <= reliableSequence
      BY <1>2 DEF Window
    <3>2. RingAgrees(clc.serverCommandSequence, clc.serverCommands,
                     reliableSequence, reliableCommands)
      BY <1>2 DEF ClientRingHolds
    <3>3. RingAgrees(clc.serverCommandSequence, clc.serverCommands,
                     reliableSequence', reliableCommands')
      BY <1>3, <1>4, <2>1, <2>2, <3>1, <3>2, AgreementStays
    <3> QED BY <2>3, <3>3 DEF ClientRingHolds
  <2>9. MessagesAscend' /\ PacketsAscend' /\ SnapshotsFollow'
    BY <1>2, <2>3 DEF MessagesAscend, PacketsAscend, SnapshotsFollow
  <2> QED BY <2>4, <2>5, <2>6, <2>7, <2>8, <2>9 DEF Story
<1> QED BY <1>5, <1>6 DEF Inv

(* The commands that set the configstring are commands.                    *)
LEMMA ChunksType ==
  ASSUME NEW value \in Nat
  PROVE  Chunks(value) \in Seq(Subject) /\ Chunks(value) # <<>>
<1> DEFINE k == IF value \in LongValues THEN MaxChunks ELSE 1
<1>1. k \in Nat \ {0}
  BY ChunksAssumption
<1>2. Chunks(value) = [i \in 1 .. k |-> [configstring |-> value, chunk |-> i]]
  BY DEF Chunks
<1> HIDE DEF k
<1>3. Chunks(value) \in [1 .. k -> Subject]
  BY <1>1, <1>2 DEF Subject
<1>4. Chunks(value) \in Seq(Subject) /\ Len(Chunks(value)) = k
  BY <1>1, <1>3, FunctionIsSeq
<1>5. Len(<<>>) = 0
  BY EmptySeq
<1> QED BY <1>1, <1>4, <1>5

(* SV_SendServerCommand.                                                   *)
LEMMA SendCommandStep == Inv /\ SV_SendServerCommand => Inv'
<1> SUFFICES ASSUME Inv, SV_SendServerCommand PROVE Inv'
  OBVIOUS
<1>1. <<Other>> \in Seq(Subject) /\ <<Other>> # <<>>
  BY DEF Other, Subject
<1>2. configstring \in Nat
  BY TypeFacts DEF Inv
<1>3. /\ state # "ZOMBIE" /\ SV_AddServerCommand(<<Other>>)
      /\ UNCHANGED <<reliableAcknowledge, configstring, serverId, toClient,
                     toServer, clientVars>>
  BY DEF SV_SendServerCommand
<1> QED BY <1>1, <1>2, <1>3, AddStep

(* A step that changes neither the channels nor the rings.                 *)
LEMMA QuietStep ==
  ASSUME Inv, state # "ZOMBIE", configstring' \in Nat, serverId' \in Nat,
         state' \in {"CONNECTED", "PRIMED", "ACTIVE"},
         UNCHANGED <<reliableSequence, reliableAcknowledge, reliableCommands,
                     toClient, toServer, clientVars>>
  PROVE  Inv'
<1>1. TypeInv /\ TypeOK /\ Story
  BY DEF Inv, TypeInv
<1>2. TypeOK'
  BY <1>1 DEF TypeOK, clientVars
<1>3. TypeInv'
  BY <1>1, <1>2 DEF TypeInv
<1>4. Story'
  BY <1>1 DEF Story, RingHolds, Window, MessagesGenuine, MessagesAscend,
     PacketsGenuine, PacketsAscend, ClientRingHolds, SnapshotsFollow, clientVars
<1> QED BY <1>3, <1>4 DEF Inv

(* SV_SetConfigstring.                                                     *)
LEMMA SetConfigstringStep == Inv /\ SV_SetConfigstring => Inv'
<1> SUFFICES ASSUME Inv, SV_SetConfigstring PROVE Inv'
  OBVIOUS
<1>1. configstring \in Nat /\ serverId \in Nat
      /\ state \in {"CONNECTED", "PRIMED", "ACTIVE", "ZOMBIE"}
  BY TypeFacts DEF Inv
<1>2. /\ state # "ZOMBIE" /\ configstring' = configstring + 1
      /\ UNCHANGED <<reliableAcknowledge, serverId, toClient, toServer, clientVars>>
      /\ IF ToldOfChanges THEN SV_AddServerCommand(Chunks(configstring'))
         ELSE UNCHANGED <<state, reliableSequence, reliableCommands>>
  BY DEF SV_SetConfigstring
<1>3. configstring' \in Nat
  BY <1>1, <1>2
<1>4. CASE ToldOfChanges
  <2>1. Chunks(configstring') \in Seq(Subject) /\ Chunks(configstring') # <<>>
    BY <1>3, ChunksType
  <2> QED BY <1>2, <1>3, <1>4, <2>1, AddStep
<1>5. CASE ~ToldOfChanges
  BY <1>1, <1>2, <1>3, <1>5, QuietStep
<1> QED BY <1>4, <1>5

(* SV_SpawnServer.                                                         *)
LEMMA SpawnServerStep == Inv /\ SV_SpawnServer => Inv'
<1> SUFFICES ASSUME Inv, SV_SpawnServer PROVE Inv'
  OBVIOUS
<1>1. configstring \in Nat /\ serverId \in Nat
  BY TypeFacts DEF Inv
<1>2. /\ state # "ZOMBIE" /\ state' = "CONNECTED"
      /\ configstring' = configstring + 1 /\ serverId' = serverId + 1
      /\ UNCHANGED <<reliableSequence, reliableAcknowledge, reliableCommands,
                     toClient, toServer, clientVars>>
  BY DEF SV_SpawnServer
<1> QED BY <1>1, <1>2, QuietStep

(* A message joins those in flight.                                        *)
LEMMA MessageJoins ==
  ASSUME TypeInv, MessagesGenuine, MessagesAscend, NEW m \in Message,
         NEW a \in Nat, reliableAcknowledge <= a,
         GenuineMessage(m, clc.serverCommandSequence, a, reliableSequence,
                        reliableCommands),
         After(m) = reliableSequence,
         toClient' = Append(toClient, m), reliableAcknowledge' = a,
         UNCHANGED <<reliableSequence, reliableCommands, clc>>
  PROVE  toClient' \in Seq(Message) /\ MessagesGenuine' /\ MessagesAscend'
<1>1. /\ toClient' \in Seq(Message)
      /\ DOMAIN toClient = 1 .. Len(toClient) /\ Len(toClient) \in Nat
      /\ DOMAIN toClient' = 1 .. Len(toClient) + 1
      /\ \A i \in 1 .. Len(toClient) : toClient'[i] = toClient[i]
      /\ toClient'[Len(toClient) + 1] = m
  BY TypeFacts, AppendedMessage
<1>2. /\ reliableSequence \in Nat /\ reliableAcknowledge \in Nat
      /\ clc.serverCommandSequence \in Nat
  BY TypeFacts
<1>3. ASSUME NEW i \in 1 .. Len(toClient)
      PROVE  /\ GenuineMessage(toClient[i], clc.serverCommandSequence, a,
                               reliableSequence, reliableCommands)
             /\ After(toClient[i]) <= reliableSequence
             /\ After(toClient[i]) \in Nat
  <2>1. GenuineMessage(toClient[i], clc.serverCommandSequence,
                       reliableAcknowledge, reliableSequence, reliableCommands)
    BY <1>1 DEF MessagesGenuine
  <2>2. toClient[i] \in Message /\ After(toClient[i]) \in Nat
    BY <1>1, InFlight
  <2>3. Keeps(reliableCommands, reliableSequence, reliableCommands, reliableSequence)
    BY DEF Keeps
  <2>4. /\ clc.serverCommandSequence <= After(toClient[i])
        /\ After(toClient[i]) <= reliableSequence
    BY <2>1 DEF GenuineMessage
  <2> QED BY <1>2, <2>1, <2>2, <2>3, <2>4, MessageStays
<1>4. MessagesGenuine'
  <2> SUFFICES ASSUME NEW i \in DOMAIN toClient'
               PROVE  GenuineMessage(toClient'[i], clc.serverCommandSequence, a,
                                     reliableSequence, reliableCommands)
    BY DEF MessagesGenuine
  <2>1. CASE i = Len(toClient) + 1
    BY <1>1, <2>1
  <2>2. CASE i # Len(toClient) + 1
    <3>1. i \in 1 .. Len(toClient)
      BY <1>1, <2>2
    <3> QED BY <1>1, <1>3, <3>1
  <2> QED BY <2>1, <2>2
<1>5. MessagesAscend'
  <2> SUFFICES ASSUME NEW i \in DOMAIN toClient', NEW j \in DOMAIN toClient', i < j
               PROVE  After(toClient'[i]) <= After(toClient'[j])
    BY DEF MessagesAscend
  <2>1. i \in 1 .. Len(toClient)
    BY <1>1
  <2>2. CASE j = Len(toClient) + 1
    BY <1>1, <1>3, <2>1, <2>2
  <2>3. CASE j # Len(toClient) + 1
    <3>1. j \in 1 .. Len(toClient)
      BY <1>1, <2>3
    <3> QED BY <1>1, <2>1, <3>1 DEF MessagesAscend
  <2> QED BY <2>2, <2>3
<1> QED BY <1>1, <1>4, <1>5

(* SV_SendClientSnapshot.                                                  *)
LEMMA SnapshotStep == Inv /\ SV_SendClientSnapshot => Inv'
<1> SUFFICES ASSUME Inv, SV_SendClientSnapshot PROVE Inv'
  OBVIOUS
<1> DEFINE m == [commands |-> Pending(reliableAcknowledge), kind |-> "snapshot",
                 after |-> reliableSequence, configstring |-> configstring,
                 active |-> state = "ACTIVE"]
<1>1. TypeInv /\ TypeOK
  BY DEF Inv, TypeInv
<1>2. /\ reliableSequence \in Nat /\ reliableAcknowledge \in Nat
      /\ reliableCommands \in [Slots -> Text] /\ configstring \in Nat
      /\ clc.serverCommandSequence \in Nat
      /\ toClient \in Seq(Message) /\ toServer \in Seq(Packet)
  BY <1>1, TypeFacts
<1>3. /\ toClient' = Append(toClient, m)
      /\ UNCHANGED <<serverVars, toServer, clientVars>>
  BY DEF SV_SendClientSnapshot
<1>4. m \in Message
  <2>1. Pending(reliableAcknowledge) \in Seq(Numbered)
    BY <1>2, PendingCommands
  <2>2. (state = "ACTIVE") \in BOOLEAN
    OBVIOUS
  <2> QED BY <1>2, <2>1, <2>2, MessageTypes
<1>5. After(m) = reliableSequence /\ m.commands = Pending(reliableAcknowledge)
  BY DEF After
<1> HIDE DEF m
<1>6. TypeInv'
  <2>1. TypeOK'
    BY <1>1, <1>3 DEF TypeOK, serverVars, clientVars
  <2>2. toClient' \in Seq(Message) /\ toServer' \in Seq(Packet)
    BY <1>2, <1>3, <1>4, AppendedMessage
  <2> QED BY <2>1, <2>2 DEF TypeInv
<1>7. ASSUME state # "ZOMBIE" PROVE Story'
  <2>1. /\ RingHolds /\ Window /\ MessagesGenuine /\ MessagesAscend
        /\ PacketsGenuine /\ PacketsAscend /\ ClientRingHolds /\ SnapshotsFollow
    BY <1>7 DEF Inv, Story
  <2>2. /\ reliableAcknowledge <= reliableSequence
        /\ clc.serverCommandSequence <= reliableSequence
        /\ reliableSequence <= reliableAcknowledge + MAX_RELIABLE_COMMANDS
    BY <1>2, <2>1 DEF Window
  <2>3. GenuineMessage(m, clc.serverCommandSequence, reliableAcknowledge,
                       reliableSequence, reliableCommands)
    BY <1>2, <1>4, <1>5, <2>1, <2>2, MessageMade
  <2>4. reliableAcknowledge <= reliableAcknowledge
    BY <1>2
  <2>5. MessagesGenuine' /\ MessagesAscend'
    BY <1>1, <1>2, <1>3, <1>4, <1>5, <2>1, <2>3, <2>4, MessageJoins
       DEF serverVars, clientVars
  <2>6. /\ RingHolds' /\ Window' /\ PacketsGenuine' /\ PacketsAscend'
        /\ ClientRingHolds' /\ SnapshotsFollow'
    BY <1>3, <2>1 DEF RingHolds, Window, PacketsGenuine, PacketsAscend,
       ClientRingHolds, SnapshotsFollow, serverVars, clientVars
  <2> QED BY <2>5, <2>6 DEF Story
<1>8. state' = state
  BY <1>3 DEF serverVars
<1> QED BY <1>6, <1>7, <1>8 DEF Inv

(* The server takes a packet: what it acknowledges is in range, and the    *)
(* server may answer with a gamestate.                                     *)
LEMMA ExecuteStep == Inv /\ SV_ExecuteClientMessage => Inv'
<1> SUFFICES ASSUME Inv, SV_ExecuteClientMessage PROVE Inv'
  OBVIOUS
<1> DEFINE p == toServer[1]
           b == p.reliableAcknowledge
           m == [commands |-> Pending(b), kind |-> "gamestate",
                 sequence |-> reliableSequence, configstring |-> configstring,
                 serverId |-> serverId]
<1>1. toServer # <<>> /\ state # "ZOMBIE"
  BY DEF SV_ExecuteClientMessage
<1>2. TypeInv /\ TypeOK /\ Story
  BY <1>1 DEF Inv, TypeInv
<1>3. /\ RingHolds /\ Window /\ MessagesGenuine /\ MessagesAscend
      /\ PacketsGenuine /\ PacketsAscend /\ ClientRingHolds /\ SnapshotsFollow
  BY <1>2 DEF Story
<1>4. /\ reliableSequence \in Nat /\ reliableAcknowledge \in Nat
      /\ reliableCommands \in [Slots -> Text] /\ configstring \in Nat
      /\ clc.serverCommandSequence \in Nat /\ serverId \in Nat
      /\ toClient \in Seq(Message) /\ toServer \in Seq(Packet)
      /\ MAX_RELIABLE_COMMANDS \in Nat
      /\ state \in {"CONNECTED", "PRIMED", "ACTIVE", "ZOMBIE"}
  BY <1>2, TypeFacts
<1>5. /\ Head(toServer) = p /\ 1 \in DOMAIN toServer /\ Tail(toServer) \in Seq(Packet)
      /\ \A i \in DOMAIN Tail(toServer) :
           i + 1 \in DOMAIN toServer /\ Tail(toServer)[i] = toServer[i + 1]
  BY <1>1, <1>4, TailOfMessages
<1>6. b \in Nat /\ p \in Packet
  BY <1>2, <1>5, InFlight
<1>7. GenuinePacket(p, reliableAcknowledge, clc.serverCommandSequence,
                    reliableSequence, reliableCommands)
  BY <1>3, <1>5 DEF PacketsGenuine
<1>8. /\ reliableAcknowledge <= b /\ b <= clc.serverCommandSequence
      /\ clc.serverCommandSequence <= reliableSequence
      /\ b <= reliableSequence
      /\ reliableSequence <= reliableAcknowledge + MAX_RELIABLE_COMMANDS
      /\ reliableSequence <= b + MAX_RELIABLE_COMMANDS
  <2>1. reliableAcknowledge <= b /\ b <= clc.serverCommandSequence
    BY <1>7 DEF GenuinePacket
  <2>2. /\ clc.serverCommandSequence <= reliableSequence
        /\ reliableSequence <= reliableAcknowledge + MAX_RELIABLE_COMMANDS
    BY <1>3 DEF Window
  <2> HIDE DEF b
  <2> QED BY <1>4, <1>6, <2>1, <2>2
<1>9. ~AcknowledgeOutOfRange(p)
  <2> HIDE DEF p
  <2> QED BY <1>4, <1>6, <1>8 DEF AcknowledgeOutOfRange, b
<1>10. /\ ExecuteInRange(p) /\ toServer' = Tail(toServer)
       /\ UNCHANGED <<reliableSequence, reliableCommands, configstring, serverId,
                      clientVars>>
  BY <1>5, <1>9 DEF SV_ExecuteClientMessage
<1>11. /\ reliableAcknowledge' = b
       /\ \/ state' = state /\ toClient' = toClient
          \/ state' = "ACTIVE" /\ toClient' = toClient
          \/ state' = "PRIMED" /\ toClient' = Append(toClient, m)
  BY <1>10 DEF ExecuteInRange, EnterWorld, SV_SendClientGameState
<1>12. m \in Message
  <2> HIDE DEF b
  <2>1. Pending(b) \in Seq(Numbered)
    BY <1>4, <1>6, PendingCommands
  <2> QED BY <1>4, <2>1, MessageTypes
<1>13. After(m) = reliableSequence /\ m.commands = Pending(b)
  BY DEF After
<1> HIDE DEF m, b, p
<1>14. GenuineMessage(m, clc.serverCommandSequence, b, reliableSequence,
                      reliableCommands)
  <2>1. b <= b
    BY <1>6
  <2> QED BY <1>3, <1>4, <1>6, <1>8, <1>12, <1>13, <2>1, MessageMade
<1>15. /\ clc' = clc /\ cl' = cl /\ cgame' = cgame
       /\ reliableSequence' = reliableSequence
       /\ reliableCommands' = reliableCommands
  BY <1>10 DEF clientVars
<1>16. toClient' \in Seq(Message) /\ MessagesGenuine' /\ MessagesAscend'
  <2>1. CASE toClient' = Append(toClient, m)
    BY <1>2, <1>3, <1>6, <1>8, <1>11, <1>12, <1>13, <1>14, <1>15, <2>1, MessageJoins
  <2>2. CASE toClient' = toClient
    <3> SUFFICES ASSUME NEW i \in DOMAIN toClient
                 PROVE  GenuineMessage(toClient[i], clc.serverCommandSequence,
                                       b, reliableSequence, reliableCommands)
      BY <1>3, <1>4, <1>11, <1>15, <2>2 DEF MessagesGenuine, MessagesAscend
    <3>1. GenuineMessage(toClient[i], clc.serverCommandSequence,
            reliableAcknowledge, reliableSequence, reliableCommands)
      BY <1>3 DEF MessagesGenuine
    <3>2. toClient[i] \in Message
      BY <1>2, InFlight
    <3>3. Keeps(reliableCommands, reliableSequence, reliableCommands, reliableSequence)
      BY DEF Keeps
    <3>4. clc.serverCommandSequence <= After(toClient[i])
      BY <3>1 DEF GenuineMessage
    <3>5. reliableSequence <= reliableSequence
      BY <1>4
    <3> QED BY <1>4, <1>6, <1>8, <3>1, <3>2, <3>3, <3>4, <3>5, MessageStays
  <2> QED BY <1>11, <2>1, <2>2
<1>17. PacketsGenuine' /\ PacketsAscend'
  <2>1. InOrderFrom(Tail(toServer), toServer)
    BY <1>1, <1>4, TakenInOrder
  <2>2. PacketsAscend'
    BY <1>3, <1>10, <2>1 DEF PacketsAscend, InOrderFrom
  <2>3. ASSUME NEW i \in DOMAIN Tail(toServer)
        PROVE  GenuinePacket(toServer[i + 1], b, clc.serverCommandSequence,
                             reliableSequence, reliableCommands)
    <3>1. i + 1 \in DOMAIN toServer /\ 1 < i + 1
      <4>1. i \in Nat /\ i + 1 \in DOMAIN toServer /\ i > 0
        BY <1>5, LenProperties
      <4> QED BY <4>1
    <3>2. b <= toServer[i + 1].reliableAcknowledge
      BY <1>3, <1>5, <3>1 DEF PacketsAscend, b, p
    <3>3. GenuinePacket(toServer[i + 1], reliableAcknowledge,
            clc.serverCommandSequence, reliableSequence, reliableCommands)
      BY <1>3, <3>1 DEF PacketsGenuine
    <3> QED BY <3>2, <3>3 DEF GenuinePacket
  <2>4. PacketsGenuine'
    BY <1>5, <1>10, <1>11, <1>15, <2>3 DEF PacketsGenuine
  <2> QED BY <2>2, <2>4
<1>18. TypeInv'
  <2>1. TypeOK'
    BY <1>2, <1>6, <1>10, <1>11 DEF TypeOK, clientVars
  <2> QED BY <1>5, <1>10, <1>16, <2>1 DEF TypeInv
<1>19. RingHolds' /\ ClientRingHolds' /\ SnapshotsFollow' /\ Window'
  BY <1>3, <1>4, <1>6, <1>8, <1>11, <1>15 DEF RingHolds, ClientRingHolds,
     SnapshotsFollow, Window
<1> QED BY <1>16, <1>17, <1>18, <1>19 DEF Inv, Story

-----------------------------------------------------------------------------
(* The steps of the client.                                                *)

(* What the client's connection is after a message.                        *)
LEMMA ParsedConnection ==
  ASSUME TypeInv, toClient # <<>>, CL_ParseServerMessage
  PROVE  LET m == toClient[1]
             c == CL_ParseCommandString(m.commands)
         IN /\ TypeInv' /\ toClient' = Tail(toClient)
            /\ 1 \in DOMAIN toClient /\ m \in Message
            /\ clc'.serverCommands = c.serverCommands
            /\ clc'.serverCommandSequence =
                 IF m.kind = "gamestate" THEN After(m) ELSE c.serverCommandSequence
            /\ clc'.lastExecutedServerCommand = clc.lastExecutedServerCommand
            /\ clc'.serverCommandsBad =
                 IF m.kind = "gamestate" THEN BadAfterGamestate(c)
                 ELSE c.serverCommandsBad
            /\ m.kind = "gamestate" =>
                 /\ cl' = [CL_ClearState EXCEPT !.serverId = m.serverId,
                                                !.configstring = m.configstring]
                 /\ cgame' = [running |-> FALSE,
                              serverCommandSequence |-> clc.lastExecutedServerCommand,
                              snap |-> NoSnapshot]
            /\ m.kind = "snapshot" =>
                 /\ \/ cl' = [cl EXCEPT !.snap =
                                [valid |-> TRUE, after |-> m.after, active |-> m.active,
                                 serverCommandNum |-> clc'.serverCommandSequence,
                                 configstring |-> m.configstring]]
                    \/ cl' = cl
                 /\ cgame' = cgame
            /\ UNCHANGED <<serverVars, toServer, bigConfigString, clientError>>
<1> DEFINE m == toClient[1]
           c == CL_ParseCommandString(m.commands)
<1>1. /\ TypeOK /\ toClient \in Seq(Message) /\ toServer \in Seq(Packet)
      /\ clc.serverCommandSequence \in Nat /\ clc.lastExecutedServerCommand \in Nat
  BY TypeFacts DEF TypeInv
<1>2. /\ Head(toClient) = m /\ 1 \in DOMAIN toClient
      /\ Tail(toClient) \in Seq(Message)
  BY <1>1, TailOfMessages
<1>3. /\ toClient' = Tail(toClient) /\ m \in Message
      /\ \/ m.kind = "gamestate" /\ CL_ParseGamestate(m)
         \/ m.kind = "snapshot" /\ CL_ParseSnapshot(m)
      /\ UNCHANGED <<serverVars, toServer, bigConfigString, clientError>>
  BY <1>2, InFlight DEF CL_ParseServerMessage
<1>4. /\ m.commands \in Seq(Numbered) /\ After(m) \in Nat
      /\ m.kind = "gamestate" => /\ m.sequence = After(m)
                                 /\ m.configstring \in Nat
                                 /\ m.serverId \in Nat
      /\ m.kind = "snapshot" => /\ m.after = After(m)
                                /\ m.configstring \in Nat
                                /\ m.active \in BOOLEAN
  BY <1>3, MessageFields
<1> HIDE DEF m
<1>5. /\ c.serverCommandSequence \in Nat
      /\ c.serverCommands \in [Slots -> Text]
      /\ c.serverCommandsBad \in [Slots -> BOOLEAN]
      /\ c.lastExecutedServerCommand = clc.lastExecutedServerCommand
      /\ c = [serverCommandSequence |-> c.serverCommandSequence,
              serverCommands |-> c.serverCommands,
              serverCommandsBad |-> c.serverCommandsBad,
              lastExecutedServerCommand |-> clc.lastExecutedServerCommand]
  BY <1>1, <1>4, ParseType
<1>6. CASE m.kind = "gamestate"
  <2>1. /\ clc' = [c EXCEPT !.serverCommandSequence = SequenceOf(m),
                            !.serverCommandsBad = BadAfterGamestate(c)]
        /\ cl' = [CL_ClearState EXCEPT !.serverId = m.serverId,
                                       !.configstring = m.configstring]
        /\ cgame' = [running |-> FALSE,
                     serverCommandSequence |-> clc.lastExecutedServerCommand,
                     snap |-> NoSnapshot]
    BY <1>3, <1>6 DEF CL_ParseGamestate
  <2>2. SequenceOf(m) = After(m)
    BY <1>4, <1>6 DEF SequenceOf
  <2>3. BadAfterGamestate(c) \in [Slots -> BOOLEAN]
    <3>1. \A s \in Slots : c.serverCommandsBad[s] \in BOOLEAN
      BY <1>5
    <3> QED BY <3>1 DEF BadAfterGamestate
  <2> HIDE DEF c
  <2>4. clc' = [serverCommandSequence |-> After(m),
                serverCommands |-> c.serverCommands,
                serverCommandsBad |-> BadAfterGamestate(c),
                lastExecutedServerCommand |-> clc.lastExecutedServerCommand]
    BY <1>5, <2>1, <2>2
  <2>5. clc' \in [serverCommandSequence : Nat, serverCommands : [Slots -> Text],
                  serverCommandsBad : [Slots -> BOOLEAN],
                  lastExecutedServerCommand : Nat]
    BY <1>1, <1>4, <1>5, <2>3, <2>4
  <2>6. NoSnapshot \in [valid : BOOLEAN, serverCommandNum : Nat, after : Nat,
                        configstring : Nat, active : BOOLEAN]
    BY DEF NoSnapshot
  <2>7. cl' \in [serverId : Nat, configstring : Nat,
                 snap : [valid : BOOLEAN, serverCommandNum : Nat, after : Nat,
                         configstring : Nat, active : BOOLEAN]]
    BY <1>4, <1>6, <2>1, <2>6 DEF CL_ClearState
  <2>8. cgame' \in [running : BOOLEAN, serverCommandSequence : Nat,
                    snap : [valid : BOOLEAN, serverCommandNum : Nat, after : Nat,
                            configstring : Nat, active : BOOLEAN]]
    BY <1>1, <2>1, <2>6
  <2>9. TypeOK'
    BY <1>1, <1>3, <2>5, <2>7, <2>8 DEF TypeOK, Text, serverVars
  <2>10. TypeInv'
    BY <1>1, <1>2, <1>3, <2>9 DEF TypeInv
  <2>11. /\ clc'.serverCommands = c.serverCommands
         /\ clc'.serverCommandSequence = After(m)
         /\ clc'.lastExecutedServerCommand = clc.lastExecutedServerCommand
         /\ clc'.serverCommandsBad = BadAfterGamestate(c)
         /\ m.kind # "snapshot"
    BY <1>6, <2>4
  <2>12. 1 \in DOMAIN toClient /\ m \in Message /\ toClient' = Tail(toClient)
         /\ UNCHANGED <<serverVars, toServer, bigConfigString, clientError>>
    BY <1>2, <1>3
  <2> QED BY <1>6, <2>1, <2>10, <2>11, <2>12 DEF m, c
<1>7. CASE m.kind = "snapshot"
  <2>1. /\ clc' = c /\ cgame' = cgame
        /\ \/ cl' = [cl EXCEPT !.snap =
                       [valid |-> TRUE, after |-> m.after, active |-> m.active,
                        serverCommandNum |-> clc'.serverCommandSequence,
                        configstring |-> m.configstring]]
           \/ cl' = cl
    BY <1>3, <1>7 DEF CL_ParseSnapshot
  <2> HIDE DEF c
  <2>2. clc' \in [serverCommandSequence : Nat, serverCommands : [Slots -> Text],
                  serverCommandsBad : [Slots -> BOOLEAN],
                  lastExecutedServerCommand : Nat]
    BY <1>1, <1>5, <2>1
  <2>3. cl' \in [serverId : Nat, configstring : Nat,
                 snap : [valid : BOOLEAN, serverCommandNum : Nat, after : Nat,
                         configstring : Nat, active : BOOLEAN]]
    <3>1. clc'.serverCommandSequence \in Nat
      BY <2>2
    <3>2. [valid |-> TRUE, after |-> m.after, active |-> m.active,
           serverCommandNum |-> clc'.serverCommandSequence,
           configstring |-> m.configstring]
          \in [valid : BOOLEAN, serverCommandNum : Nat, after : Nat,
               configstring : Nat, active : BOOLEAN]
      BY <1>4, <1>7, <3>1
    <3>3. cl \in [serverId : Nat, configstring : Nat,
                  snap : [valid : BOOLEAN, serverCommandNum : Nat, after : Nat,
                          configstring : Nat, active : BOOLEAN]]
      BY <1>1 DEF TypeOK
    <3> QED BY <2>1, <3>2, <3>3
  <2>4. TypeOK'
    BY <1>1, <1>3, <2>1, <2>2, <2>3 DEF TypeOK, Text, serverVars
  <2>5. TypeInv'
    BY <1>1, <1>2, <1>3, <2>4 DEF TypeInv
  <2>6. /\ clc'.serverCommands = c.serverCommands
        /\ clc'.serverCommandSequence = c.serverCommandSequence
        /\ clc'.lastExecutedServerCommand = clc.lastExecutedServerCommand
        /\ clc'.serverCommandsBad = c.serverCommandsBad
        /\ m.kind # "gamestate"
    BY <1>5, <1>7, <2>1
  <2>7. 1 \in DOMAIN toClient /\ m \in Message /\ toClient' = Tail(toClient)
        /\ UNCHANGED <<serverVars, toServer, bigConfigString, clientError>>
    BY <1>2, <1>3
  <2> HIDE DEF m
  <2> QED BY <1>7, <2>1, <2>5, <2>6, <2>7 DEF m, c
<1> QED BY <1>3, <1>6, <1>7

(* The client parses a message: it has then what the message follows.      *)
LEMMA ParseStep == Inv /\ CL_ParseServerMessage => Inv'
<1> SUFFICES ASSUME Inv, CL_ParseServerMessage PROVE Inv'
  OBVIOUS
<1> DEFINE m == toClient[1]
           c == CL_ParseCommandString(m.commands)
           had == clc.serverCommandSequence
<1>1. toClient # <<>> /\ TypeInv
  BY DEF CL_ParseServerMessage, Inv
<1>2. /\ TypeInv' /\ toClient' = Tail(toClient)
      /\ 1 \in DOMAIN toClient /\ m \in Message
      /\ clc'.serverCommands = c.serverCommands
      /\ clc'.serverCommandSequence =
           IF m.kind = "gamestate" THEN After(m) ELSE c.serverCommandSequence
      /\ m.kind = "gamestate" =>
           /\ cl' = [CL_ClearState EXCEPT !.serverId = m.serverId,
                                          !.configstring = m.configstring]
           /\ cgame' = [running |-> FALSE,
                        serverCommandSequence |-> clc.lastExecutedServerCommand,
                        snap |-> NoSnapshot]
      /\ m.kind = "snapshot" =>
           /\ \/ cl' = [cl EXCEPT !.snap =
                          [valid |-> TRUE, after |-> m.after, active |-> m.active,
                           serverCommandNum |-> clc'.serverCommandSequence,
                           configstring |-> m.configstring]]
              \/ cl' = cl
           /\ cgame' = cgame
      /\ UNCHANGED <<serverVars, toServer, bigConfigString, clientError>>
  BY <1>1, ParsedConnection
<1>3. /\ state' = state /\ reliableSequence' = reliableSequence
      /\ reliableAcknowledge' = reliableAcknowledge
      /\ reliableCommands' = reliableCommands /\ toServer' = toServer
  BY <1>2 DEF serverVars
<1> SUFFICES ASSUME state # "ZOMBIE" PROVE Story'
  BY <1>2, <1>3 DEF Inv
<1>4. /\ RingHolds /\ Window /\ MessagesGenuine /\ MessagesAscend
      /\ PacketsGenuine /\ PacketsAscend /\ ClientRingHolds /\ SnapshotsFollow
  BY DEF Inv, Story
<1>5. /\ reliableSequence \in Nat /\ reliableAcknowledge \in Nat
      /\ reliableCommands \in [Slots -> Text] /\ had \in Nat
      /\ toClient \in Seq(Message) /\ After(m) \in Nat
      /\ m.kind \in {"gamestate", "snapshot"} /\ MAX_RELIABLE_COMMANDS \in Nat
      /\ m.kind = "snapshot" => m.after = After(m)
  BY <1>1, <1>2, TypeFacts, MessageFields
<1>6. GenuineMessage(m, had, reliableAcknowledge, reliableSequence, reliableCommands)
  BY <1>2, <1>4 DEF MessagesGenuine
<1>7. PICK b \in 0 .. reliableAcknowledge :
        Carries(m, b, reliableSequence, reliableCommands)
  BY <1>6 DEF GenuineMessage
<1>8. /\ had <= After(m) /\ After(m) <= reliableSequence /\ b \in Nat
      /\ reliableAcknowledge <= had /\ b <= had
      /\ reliableSequence <= reliableAcknowledge + MAX_RELIABLE_COMMANDS
  BY <1>4, <1>5, <1>6, <1>7 DEF GenuineMessage, Window
<1>9. /\ c.serverCommandSequence = After(m)
      /\ \A n \in 0 .. After(m) : n + MAX_RELIABLE_COMMANDS > After(m) =>
           IF n <= had
             THEN /\ c.serverCommands[Slot(n)] = clc.serverCommands[Slot(n)]
                  /\ c.serverCommandsBad[Slot(n)] = clc.serverCommandsBad[Slot(n)]
             ELSE /\ n - b \in DOMAIN m.commands
                  /\ c.serverCommands[Slot(n)] = m.commands[n - b].text
                  /\ c.serverCommandsBad[Slot(n)] = FALSE
  BY <1>1, <1>2, <1>7, <1>8, ParseContent
<1> HIDE DEF m, c, had
<1>10. clc'.serverCommandSequence = After(m)
  BY <1>2, <1>9
<1>11. ClientRingHolds'
  <2> SUFFICES RingAgrees(After(m), c.serverCommands, reliableSequence, reliableCommands)
    BY <1>2, <1>3, <1>10 DEF ClientRingHolds
  <2> SUFFICES ASSUME NEW n \in 0 .. After(m), n + MAX_RELIABLE_COMMANDS > After(m)
               PROVE  /\ c.serverCommands[Slot(n)].number = n
                      /\ n + MAX_RELIABLE_COMMANDS > reliableSequence =>
                           c.serverCommands[Slot(n)] = reliableCommands[Slot(n)]
    BY DEF RingAgrees
  <2>1. CASE n <= had
    <3>1. n \in 0 .. had /\ n + MAX_RELIABLE_COMMANDS > had
      BY <1>5, <1>8, <2>1
    <3>2. /\ clc.serverCommands[Slot(n)].number = n
          /\ n + MAX_RELIABLE_COMMANDS > reliableSequence =>
               clc.serverCommands[Slot(n)] = reliableCommands[Slot(n)]
      BY <1>4, <3>1 DEF ClientRingHolds, RingAgrees, had
    <3> QED BY <1>9, <2>1, <3>2
  <2>2. CASE ~(n <= had)
    <3>1. /\ n - b \in DOMAIN m.commands /\ b + (n - b) = n
          /\ c.serverCommands[Slot(n)] = m.commands[n - b].text
      BY <1>5, <1>8, <1>9, <2>2
    <3> QED BY <1>7, <3>1 DEF Carries
  <2> QED BY <2>1, <2>2
<1>12. Window'
  BY <1>3, <1>4, <1>5, <1>8, <1>10 DEF Window
<1>13. InOrderFrom(toClient', toClient)
  BY <1>1, <1>2, <1>5, TakenInOrder
<1>14. MessagesAscend'
  BY <1>4, <1>13 DEF MessagesAscend, InOrderFrom
<1>15. MessagesGenuine'
  <2> SUFFICES ASSUME NEW i \in DOMAIN toClient'
               PROVE  GenuineMessage(toClient'[i], After(m), reliableAcknowledge,
                                     reliableSequence, reliableCommands)
    BY <1>3, <1>10 DEF MessagesGenuine
  <2>1. /\ i + 1 \in DOMAIN toClient /\ toClient'[i] = toClient[i + 1]
        /\ 1 < i + 1
    <3>1. /\ i + 1 \in DOMAIN toClient /\ toClient'[i] = toClient[i + 1]
      BY <1>1, <1>2, <1>5, TailOfMessages
    <3>2. toClient' \in Seq(Message)
      BY <1>2 DEF TypeInv
    <3>3. i \in Nat /\ i > 0
      BY <3>2, LenProperties
    <3> QED BY <3>1, <3>3
  <2>2. After(m) <= After(toClient[i + 1])
    BY <1>2, <1>4, <2>1 DEF MessagesAscend, m
  <2>3. GenuineMessage(toClient[i + 1], had, reliableAcknowledge,
                       reliableSequence, reliableCommands)
    BY <1>4, <2>1 DEF MessagesGenuine, had
  <2> QED BY <2>1, <2>2, <2>3 DEF GenuineMessage
<1>16. PacketsGenuine' /\ PacketsAscend'
  <2>1. PacketsAscend'
    BY <1>3, <1>4 DEF PacketsAscend
  <2>2. ASSUME NEW i \in DOMAIN toServer
        PROVE  GenuinePacket(toServer[i], reliableAcknowledge, After(m),
                             reliableSequence, reliableCommands)
    <3>1. GenuinePacket(toServer[i], reliableAcknowledge, had,
                        reliableSequence, reliableCommands)
      BY <1>4 DEF PacketsGenuine, had
    <3>2. toServer[i].reliableAcknowledge \in Nat
      BY <1>1, InFlight
    <3>3. toServer[i].reliableAcknowledge <= After(m)
      BY <1>5, <1>8, <3>1, <3>2 DEF GenuinePacket
    <3> QED BY <3>1, <3>3 DEF GenuinePacket
  <2> QED BY <1>3, <1>10, <2>1, <2>2 DEF PacketsGenuine
<1>17. SnapshotsFollow'
  <2>1. CASE m.kind = "gamestate"
    <3>1. cl'.snap = NoSnapshot
      <4>1. cl' = [CL_ClearState EXCEPT !.serverId = m.serverId,
                                        !.configstring = m.configstring]
        BY <1>2, <2>1
      <4> QED BY <4>1 DEF CL_ClearState
    <3>2. cgame'.snap = NoSnapshot
      BY <1>2, <2>1
    <3> QED BY <3>1, <3>2 DEF SnapshotsFollow, NoSnapshot
  <2>2. CASE m.kind = "snapshot"
    <3>1. cgame' = cgame
      BY <1>2, <2>2
    <3>2. \/ /\ cl'.snap.serverCommandNum = After(m)
             /\ cl'.snap.after = After(m)
          \/ cl' = cl
      <4>1. cl \in [serverId : Nat, configstring : Nat,
                    snap : [valid : BOOLEAN, serverCommandNum : Nat, after : Nat,
                            configstring : Nat, active : BOOLEAN]]
        BY <1>1 DEF TypeInv, TypeOK
      <4> QED BY <1>2, <1>5, <1>10, <2>2, <4>1
    <3>3. cl'.snap.valid => cl'.snap.serverCommandNum >= cl'.snap.after
      BY <1>4, <1>5, <3>2 DEF SnapshotsFollow
    <3> QED BY <1>4, <3>1, <3>3 DEF SnapshotsFollow
  <2> QED BY <1>5, <2>1, <2>2
<1>18. RingHolds'
  BY <1>3, <1>4 DEF RingHolds
<1> QED BY <1>11, <1>12, <1>14, <1>15, <1>16, <1>17, <1>18 DEF Story

(* The client sends a packet, scrambled with the last command it has.      *)
LEMMA WriteStep == Inv /\ CL_WritePacket => Inv'
<1> SUFFICES ASSUME Inv, CL_WritePacket PROVE Inv'
  OBVIOUS
<1> DEFINE n == clc.serverCommandSequence
           p == [serverId |-> cl.serverId, reliableAcknowledge |-> n,
                 key |-> clc.serverCommands[Slot(n)]]
<1>1. TypeInv /\ TypeOK
  BY DEF Inv, TypeInv
<1>2. /\ n \in Nat /\ clc.serverCommands \in [Slots -> Text] /\ cl.serverId \in Nat
      /\ toServer \in Seq(Packet) /\ toClient \in Seq(Message)
      /\ reliableSequence \in Nat /\ reliableAcknowledge \in Nat
      /\ MAX_RELIABLE_COMMANDS \in Nat \ {0}
  BY <1>1, TypeFacts
<1>3. toServer' = Append(toServer, p) /\ UNCHANGED <<serverVars, toClient, clientVars>>
  BY DEF CL_WritePacket
<1>4. p \in Packet
  <2>1. clc.serverCommands[Slot(n)] \in Text
    BY <1>2, SlotInRing
  <2> HIDE DEF n
  <2> QED BY <1>2, <2>1 DEF Packet
<1>5. p.reliableAcknowledge = n /\ p.key = clc.serverCommands[Slot(n)]
  OBVIOUS
<1> HIDE DEF p
<1>6. /\ toServer' \in Seq(Packet)
      /\ DOMAIN toServer = 1 .. Len(toServer) /\ Len(toServer) \in Nat
      /\ DOMAIN toServer' = 1 .. Len(toServer) + 1
      /\ \A i \in 1 .. Len(toServer) : toServer'[i] = toServer[i]
      /\ toServer'[Len(toServer) + 1] = p
  BY <1>2, <1>3, <1>4, AppendedMessage
<1>7. TypeInv'
  <2>1. TypeOK'
    BY <1>1, <1>3 DEF TypeOK, serverVars, clientVars
  <2> QED BY <1>2, <1>3, <1>6, <2>1 DEF TypeInv
<1>8. /\ state' = state /\ clc' = clc /\ cl' = cl /\ cgame' = cgame
      /\ toClient' = toClient /\ reliableSequence' = reliableSequence
      /\ reliableAcknowledge' = reliableAcknowledge
      /\ reliableCommands' = reliableCommands
  BY <1>3 DEF serverVars, clientVars
<1>9. ASSUME state # "ZOMBIE" PROVE Story'
  <2>1. /\ RingHolds /\ Window /\ MessagesGenuine /\ MessagesAscend
        /\ PacketsGenuine /\ PacketsAscend /\ ClientRingHolds /\ SnapshotsFollow
    BY <1>9 DEF Inv, Story
  <2>2. GenuinePacket(p, reliableAcknowledge, n, reliableSequence, reliableCommands)
    <3>1. reliableAcknowledge <= n /\ n <= n
      BY <1>2, <2>1 DEF Window
    <3>2. n \in 0 .. n /\ n + MAX_RELIABLE_COMMANDS > n
      BY <1>2
    <3>3. n + MAX_RELIABLE_COMMANDS > reliableSequence =>
            clc.serverCommands[Slot(n)] = reliableCommands[Slot(n)]
      BY <2>1, <3>2 DEF ClientRingHolds, RingAgrees
    <3> HIDE DEF n
    <3> QED BY <1>5, <3>1, <3>3 DEF GenuinePacket
  <2>3. PacketsGenuine'
    <3> SUFFICES ASSUME NEW i \in DOMAIN toServer'
                 PROVE  GenuinePacket(toServer'[i], reliableAcknowledge, n,
                                      reliableSequence, reliableCommands)
      BY <1>8 DEF PacketsGenuine
    <3>1. CASE i = Len(toServer) + 1
      BY <1>6, <2>2, <3>1
    <3>2. CASE i # Len(toServer) + 1
      <4>1. i \in 1 .. Len(toServer)
        BY <1>6, <3>2
      <4> QED BY <1>6, <2>1, <4>1 DEF PacketsGenuine
    <3> QED BY <3>1, <3>2
  <2>4. PacketsAscend'
    <3> SUFFICES ASSUME NEW i \in DOMAIN toServer', NEW j \in DOMAIN toServer', i < j
                 PROVE  toServer'[i].reliableAcknowledge <= toServer'[j].reliableAcknowledge
      BY DEF PacketsAscend
    <3>1. i \in 1 .. Len(toServer)
      BY <1>6
    <3>2. CASE j = Len(toServer) + 1
      <4>1. GenuinePacket(toServer[i], reliableAcknowledge, n,
                          reliableSequence, reliableCommands)
        BY <1>6, <2>1, <3>1 DEF PacketsGenuine
      <4> QED BY <1>5, <1>6, <3>1, <3>2, <4>1 DEF GenuinePacket
    <3>3. CASE j # Len(toServer) + 1
      <4>1. j \in 1 .. Len(toServer)
        BY <1>6, <3>3
      <4> QED BY <1>6, <2>1, <3>1, <4>1 DEF PacketsAscend
    <3> QED BY <3>2, <3>3
  <2>5. /\ RingHolds' /\ Window' /\ MessagesGenuine' /\ MessagesAscend'
        /\ ClientRingHolds' /\ SnapshotsFollow'
    BY <1>8, <2>1 DEF RingHolds, Window, MessagesGenuine, MessagesAscend,
       ClientRingHolds, SnapshotsFollow
  <2> QED BY <2>3, <2>4, <2>5 DEF Story
<1> QED BY <1>7, <1>8, <1>9 DEF Inv

(* A step of the cgame, which leaves the channels and the client's ring.   *)
LEMMA CgameStep ==
  ASSUME Inv, TypeOK', UNCHANGED <<serverVars, toClient, toServer>>,
         clc'.serverCommandSequence = clc.serverCommandSequence,
         clc'.serverCommands = clc.serverCommands, SnapshotsFollow => SnapshotsFollow'
  PROVE  Inv'
<1>1. TypeInv'
  BY DEF Inv, TypeInv
<1>2. ASSUME state # "ZOMBIE" PROVE Story'
  BY <1>2 DEF Inv, Story, RingHolds, Window, MessagesGenuine, MessagesAscend,
     PacketsGenuine, PacketsAscend, ClientRingHolds, serverVars
<1> QED BY <1>1, <1>2 DEF Inv, serverVars

(* What a chunk makes of the configstring and of what is put together.     *)
LEMMA ConfigstringType ==
  ASSUME TypeOK, NEW text \in Text, ConfigstringCommand(text)
  PROVE  /\ cl' \in [serverId : Nat, configstring : Nat,
                     snap : [valid : BOOLEAN, serverCommandNum : Nat, after : Nat,
                             configstring : Nat, active : BOOLEAN]]
         /\ cl'.snap = cl.snap /\ cl'.serverId = cl.serverId
         /\ bigConfigString' \in [configstring : Nat, chunk : Nat]
<1>1. cl \in [serverId : Nat, configstring : Nat,
              snap : [valid : BOOLEAN, serverCommandNum : Nat, after : Nat,
                      configstring : Nat, active : BOOLEAN]]
      /\ bigConfigString \in [configstring : Nat, chunk : Nat]
  BY DEF TypeOK
<1>2. text.configstring \in Nat /\ text.chunk \in Nat
  BY DEF Text
<1>3. Appended(text) \in [configstring : Nat, chunk : Nat]
  BY <1>2 DEF Appended, Other
<1>4. bigConfigString' \in [configstring : Nat, chunk : Nat]
  BY <1>1, <1>3 DEF ConfigstringCommand
<1>5. \/ cl' = cl
      \/ \E v \in Nat : cl' = [cl EXCEPT !.configstring = v]
  <2>1. bigConfigString'.configstring \in Nat
    BY <1>4
  <2> QED BY <1>2, <2>1 DEF ConfigstringCommand
<1> QED BY <1>1, <1>4, <1>5

(* The cgame asks for a command.                                           *)
LEMMA GetStep == Inv /\ CL_GetServerCommand => Inv'
<1> SUFFICES ASSUME Inv, CL_GetServerCommand PROVE Inv'
  OBVIOUS
<1> DEFINE n == cgame.serverCommandSequence + 1
           text == clc.serverCommands[Slot(n)]
<1>1. TypeOK /\ TypeInv
  BY DEF Inv, TypeInv
<1>2. /\ clc \in [serverCommandSequence : Nat, serverCommands : [Slots -> Text],
                  serverCommandsBad : [Slots -> BOOLEAN],
                  lastExecutedServerCommand : Nat]
      /\ cgame \in [running : BOOLEAN, serverCommandSequence : Nat,
                    snap : [valid : BOOLEAN, serverCommandNum : Nat, after : Nat,
                            configstring : Nat, active : BOOLEAN]]
  BY <1>1 DEF TypeOK, Text
<1>3. /\ cgame' = [cgame EXCEPT !.serverCommandSequence = n, !.running = TRUE]
      /\ UNCHANGED <<serverVars, toClient, toServer>>
  BY DEF CL_GetServerCommand
<1>4. n \in Nat /\ n = cgame.serverCommandSequence + 1
      /\ cgame.serverCommandSequence \in Nat /\ text \in Text
      /\ cgame.snap.after \in Nat
  <2>1. n \in Nat /\ cgame.serverCommandSequence \in Nat /\ cgame.snap.after \in Nat
    BY <1>2
  <2> HIDE DEF n
  <2>2. text \in Text
    BY <1>2, <2>1, SlotInRing
  <2> QED BY <2>1, <2>2 DEF n
<1>5. /\ clc' = clc \/ clc' = [clc EXCEPT !.lastExecutedServerCommand = n]
      /\ \/ cl' = cl /\ bigConfigString' = bigConfigString
         \/ ConfigstringCommand(text)
      /\ clientError' \in BOOLEAN
  BY <1>1 DEF CL_GetServerCommand, TypeOK
<1> HIDE DEF n, text
<1>6. cl' \in [serverId : Nat, configstring : Nat,
               snap : [valid : BOOLEAN, serverCommandNum : Nat, after : Nat,
                       configstring : Nat, active : BOOLEAN]]
      /\ cl'.snap = cl.snap
      /\ bigConfigString' \in [configstring : Nat, chunk : Nat]
  BY <1>1, <1>4, <1>5, ConfigstringType DEF TypeOK
<1>7. cgame' \in [running : BOOLEAN, serverCommandSequence : Nat,
                  snap : [valid : BOOLEAN, serverCommandNum : Nat, after : Nat,
                          configstring : Nat, active : BOOLEAN]]
      /\ cgame'.snap = cgame.snap /\ cgame'.serverCommandSequence = n
  BY <1>2, <1>3, <1>4
<1>8. clc' \in [serverCommandSequence : Nat, serverCommands : [Slots -> Text],
                serverCommandsBad : [Slots -> BOOLEAN],
                lastExecutedServerCommand : Nat]
      /\ clc'.serverCommandSequence = clc.serverCommandSequence
      /\ clc'.serverCommands = clc.serverCommands
  BY <1>2, <1>4, <1>5
<1>9. TypeOK'
  BY <1>1, <1>3, <1>5, <1>6, <1>7, <1>8 DEF TypeOK, Text, serverVars
<1>10. SnapshotsFollow => SnapshotsFollow'
  BY <1>4, <1>6, <1>7 DEF SnapshotsFollow
<1> QED BY <1>3, <1>8, <1>9, <1>10, CgameStep

(* The cgame runs the snapshot.                                            *)
LEMMA RunStep == Inv /\ RunSnapshot => Inv'
<1> SUFFICES ASSUME Inv, RunSnapshot PROVE Inv'
  OBVIOUS
<1>1. TypeOK /\ TypeInv
  BY DEF Inv, TypeInv
<1>2. /\ cgame' = [cgame EXCEPT !.snap = cl.snap, !.running = TRUE]
      /\ cgame.serverCommandSequence >= cl.snap.serverCommandNum
      /\ UNCHANGED <<serverVars, toClient, toServer, clc, cl, bigConfigString,
                     clientError>>
  BY DEF RunSnapshot
<1>3. /\ cgame \in [running : BOOLEAN, serverCommandSequence : Nat,
                    snap : [valid : BOOLEAN, serverCommandNum : Nat, after : Nat,
                            configstring : Nat, active : BOOLEAN]]
      /\ cl.snap \in [valid : BOOLEAN, serverCommandNum : Nat, after : Nat,
                      configstring : Nat, active : BOOLEAN]
  BY <1>1 DEF TypeOK
<1>4. /\ cgame' \in [running : BOOLEAN, serverCommandSequence : Nat,
                     snap : [valid : BOOLEAN, serverCommandNum : Nat, after : Nat,
                             configstring : Nat, active : BOOLEAN]]
      /\ cgame'.snap = cl.snap
      /\ cgame'.serverCommandSequence = cgame.serverCommandSequence
  BY <1>2, <1>3
<1>5. TypeOK'
  BY <1>1, <1>2, <1>4 DEF TypeOK, serverVars
<1>6. SnapshotsFollow => SnapshotsFollow'
  <2>1. /\ cl.snap.serverCommandNum \in Nat /\ cl.snap.after \in Nat
        /\ cgame.serverCommandSequence \in Nat
    BY <1>3
  <2> QED BY <1>2, <1>4, <2>1 DEF SnapshotsFollow
<1> QED BY <1>2, <1>5, <1>6, CgameStep

-----------------------------------------------------------------------------
(* The network.                                                            *)

(* Messages and packets may be lost.                                       *)
LEMMA LoseStep == Inv /\ Lose /\ UNCHANGED <<serverVars, clientVars>> => Inv'
<1> SUFFICES ASSUME Inv, Lose, UNCHANGED <<serverVars, clientVars>> PROVE Inv'
  OBVIOUS
<1>1. TypeOK /\ TypeInv /\ toClient \in Seq(Message) /\ toServer \in Seq(Packet)
  BY TypeFacts DEF Inv, TypeInv
<1>2. /\ toClient' \in Seq(Message)
      /\ toClient' = toClient \/ InOrderFrom(toClient', toClient)
  <2>1. CASE \E i \in DOMAIN toClient : toClient' = RemoveAt(toClient, i)
    BY <1>1, <2>1, LostInOrder
  <2>2. CASE toClient' = toClient
    BY <1>1, <2>2
  <2> QED BY <2>1, <2>2 DEF Lose
<1>3. /\ toServer' \in Seq(Packet)
      /\ toServer' = toServer \/ InOrderFrom(toServer', toServer)
  <2>1. CASE \E i \in DOMAIN toServer : toServer' = RemoveAt(toServer, i)
    BY <1>1, <2>1, LostInOrder
  <2>2. CASE toServer' = toServer
    BY <1>1, <2>2
  <2> QED BY <2>1, <2>2 DEF Lose
<1>4. TypeInv'
  <2>1. TypeOK'
    BY <1>1 DEF TypeOK, serverVars, clientVars
  <2> QED BY <1>2, <1>3, <2>1 DEF TypeInv
<1>5. /\ state' = state /\ clc' = clc /\ cl' = cl /\ cgame' = cgame
      /\ reliableSequence' = reliableSequence
      /\ reliableAcknowledge' = reliableAcknowledge
      /\ reliableCommands' = reliableCommands
  BY DEF serverVars, clientVars
<1>6. ASSUME state # "ZOMBIE" PROVE Story'
  <2>1. /\ RingHolds /\ Window /\ MessagesGenuine /\ MessagesAscend
        /\ PacketsGenuine /\ PacketsAscend /\ ClientRingHolds /\ SnapshotsFollow
    BY <1>6 DEF Inv, Story
  <2>2. MessagesAscend' /\ PacketsAscend'
    BY <1>2, <1>3, <2>1 DEF MessagesAscend, PacketsAscend, InOrderFrom
  <2>3. MessagesGenuine'
    BY <1>2, <1>5, <2>1 DEF MessagesGenuine, InOrderFrom
  <2>4. PacketsGenuine'
    BY <1>3, <1>5, <2>1 DEF PacketsGenuine, InOrderFrom
  <2>5. RingHolds' /\ Window' /\ ClientRingHolds' /\ SnapshotsFollow'
    BY <1>5, <2>1 DEF RingHolds, Window, ClientRingHolds, SnapshotsFollow
  <2> QED BY <2>2, <2>3, <2>4, <2>5 DEF Story
<1> QED BY <1>4, <1>5, <1>6 DEF Inv

-----------------------------------------------------------------------------
(* The theorems.                                                           *)

(* A step of nobody.                                                       *)
LEMMA StutterStep == Inv /\ UNCHANGED vars => Inv'
BY DEF Inv, TypeInv, TypeOK, Story, RingHolds, Window, MessagesGenuine,
   MessagesAscend, PacketsGenuine, PacketsAscend, ClientRingHolds,
   SnapshotsFollow, vars, serverVars, clientVars

(* The invariant is inductive.                                             *)
LEMMA InvStep == Inv /\ [Next]_vars => Inv'
<1> SUFFICES ASSUME Inv, [Next]_vars PROVE Inv'
  OBVIOUS
<1>1. CASE SV_SendServerCommand
  BY <1>1, SendCommandStep
<1>2. CASE SV_SetConfigstring
  BY <1>2, SetConfigstringStep
<1>3. CASE SV_SpawnServer
  BY <1>3, SpawnServerStep
<1>4. CASE SV_SendClientSnapshot
  BY <1>4, SnapshotStep
<1>5. CASE SV_ExecuteClientMessage
  BY <1>5, ExecuteStep
<1>6. CASE CL_ParseServerMessage
  BY <1>6, ParseStep
<1>7. CASE CL_WritePacket
  BY <1>7, WriteStep
<1>8. CASE CL_GetServerCommand
  BY <1>8, GetStep
<1>9. CASE RunSnapshot
  BY <1>9, RunStep
<1>10. CASE Lose /\ UNCHANGED <<serverVars, clientVars>>
  BY <1>10, LoseStep
<1>11. CASE UNCHANGED vars
  BY <1>11, StutterStep
<1> QED
  BY <1>1, <1>2, <1>3, <1>4, <1>5, <1>6, <1>7, <1>8, <1>9, <1>10, <1>11 DEF Next

LEMMA Invariant == Spec => []Inv
BY InvInit, InvStep, PTL DEF Spec

(* The variables of both ends keep their types.                            *)
THEOREM TypeCorrect == Spec => []TypeOK
<1>1. Inv => TypeOK
  BY DEF Inv, TypeInv
<1> QED BY <1>1, Invariant, PTL

(* The two ends agree on what is outstanding, so the server never finds    *)
(* the acknowledgement of a packet out of range (SV_ExecuteClientMessage). *)
THEOREM Agreement == Spec => []AcknowledgesAgree
<1>1. ASSUME Inv PROVE AcknowledgesAgree
  <2> SUFFICES ASSUME state # "ZOMBIE"
               PROVE  /\ reliableAcknowledge <= clc.serverCommandSequence
                      /\ clc.serverCommandSequence <= reliableSequence
                      /\ \A i \in DOMAIN toServer :
                           toServer[i].reliableAcknowledge + MAX_RELIABLE_COMMANDS
                             >= reliableSequence
    BY DEF AcknowledgesAgree
  <2>1. TypeInv /\ Window /\ PacketsGenuine
    BY <1>1 DEF Inv, Story
  <2>2. ASSUME NEW i \in DOMAIN toServer
        PROVE  toServer[i].reliableAcknowledge + MAX_RELIABLE_COMMANDS
                 >= reliableSequence
    <3>1. reliableAcknowledge <= toServer[i].reliableAcknowledge
      BY <2>1 DEF PacketsGenuine, GenuinePacket
    <3>2. /\ toServer[i].reliableAcknowledge \in Nat
          /\ reliableAcknowledge \in Nat /\ reliableSequence \in Nat
          /\ MAX_RELIABLE_COMMANDS \in Nat
      BY <2>1, InFlight, TypeFacts
    <3> QED BY <2>1, <3>1, <3>2 DEF Window
  <2> QED BY <2>1, <2>2 DEF Window
<1> QED BY <1>1, Invariant, PTL

(* The cgame runs no snapshot before the commands that it follows          *)
(* (CL_GetSnapshot and CL_GetServerCommand).                               *)
THEOREM CommandsFirst == Spec => []CommandsBeforeSnapshot
<1>1. Inv => CommandsBeforeSnapshot
  BY DEF Inv, Story, SnapshotsFollow, CommandsBeforeSnapshot
<1> QED BY <1>1, Invariant, PTL

(* Below the limit the server unscrambles the next packet with the command *)
(* that the client scrambled it with (SV_Netchan_Decode).                  *)
THEOREM Unscrambles == Spec => []UnscramblesBelowLimit
<1>1. ASSUME Inv PROVE UnscramblesBelowLimit
  <2> SUFFICES ASSUME state # "ZOMBIE", toServer # <<>>,
                      reliableSequence < reliableAcknowledge + MAX_RELIABLE_COMMANDS
               PROVE  UnscrambledAsScrambled
    BY DEF UnscramblesBelowLimit
  <2>1. TypeInv /\ PacketsGenuine
    BY <1>1 DEF Inv, Story
  <2>2. toServer \in Seq(Packet)
    BY <2>1 DEF TypeInv
  <2>3. Head(toServer) = toServer[1] /\ 1 \in DOMAIN toServer
    BY <2>2, TailOfMessages
  <2>4. GenuinePacket(toServer[1], reliableAcknowledge,
          clc.serverCommandSequence, reliableSequence, reliableCommands)
    BY <2>1, <2>3 DEF PacketsGenuine
  <2>5. /\ toServer[1].reliableAcknowledge \in Nat
        /\ reliableAcknowledge \in Nat /\ reliableSequence \in Nat
        /\ MAX_RELIABLE_COMMANDS \in Nat
    BY <2>1, <2>3, InFlight, TypeFacts
  <2>6. toServer[1].reliableAcknowledge + MAX_RELIABLE_COMMANDS > reliableSequence
    BY <2>4, <2>5 DEF GenuinePacket
  <2> QED BY <2>3, <2>4, <2>6 DEF GenuinePacket, UnscrambledAsScrambled
<1> QED BY <1>1, Invariant, PTL

-----------------------------------------------------------------------------
(* The refinement.                                                         *)

(* What the client has taken, as ImplementsReliableCommands counts it.     *)
Taken(c, mine) ==
    [n \in 1 .. c |-> IF n + MAX_RELIABLE_COMMANDS > c THEN mine[Slot(n)].number
                      ELSE n]

(* The client has taken the commands in the order of their numbers.        *)
LEMMA TakenIsAll ==
  ASSUME NEW c \in Nat, NEW mine, NEW r, NEW ring, RingAgrees(c, mine, r, ring)
  PROVE  Taken(c, mine) = [n \in 1 .. c |-> n]
<1>1. ASSUME NEW n \in 1 .. c, n + MAX_RELIABLE_COMMANDS > c
      PROVE  mine[Slot(n)].number = n
  <2>1. n \in 0 .. c
    OBVIOUS
  <2> QED BY <1>1, <2>1 DEF RingAgrees
<1> QED BY <1>1 DEF Taken

(* Parsing a message takes no command back.                                *)
LEMMA ParseForward ==
  ASSUME Inv, state # "ZOMBIE", CL_ParseServerMessage
  PROVE  clc.serverCommandSequence <= clc'.serverCommandSequence
<1> DEFINE m == toClient[1]
           c == CL_ParseCommandString(m.commands)
<1>1. toClient # <<>> /\ TypeInv
  BY DEF CL_ParseServerMessage, Inv
<1>2. /\ 1 \in DOMAIN toClient /\ m \in Message
      /\ clc'.serverCommandSequence =
           IF m.kind = "gamestate" THEN After(m) ELSE c.serverCommandSequence
  BY <1>1, ParsedConnection
<1>3. /\ Window /\ GenuineMessage(m, clc.serverCommandSequence, reliableAcknowledge,
                                  reliableSequence, reliableCommands)
  BY <1>2 DEF Inv, Story, MessagesGenuine
<1>4. clc.serverCommandSequence <= After(m)
  BY <1>3 DEF GenuineMessage
<1>5. PICK b \in 0 .. reliableAcknowledge :
        Carries(m, b, reliableSequence, reliableCommands)
  BY <1>3 DEF GenuineMessage
<1>6. b \in Nat /\ b <= clc.serverCommandSequence
  BY <1>1, <1>3, <1>5, TypeFacts DEF Window
<1>7. c.serverCommandSequence = After(m)
  BY <1>1, <1>2, <1>4, <1>5, <1>6, ParseContent
<1> QED BY <1>2, <1>4, <1>7

(* What a step that drops nobody does to the counters of both ends.        *)
LEMMA CountersStep ==
  ASSUME Inv, [Next]_vars, state # "ZOMBIE", state' # "ZOMBIE"
  PROVE  \/ /\ reliableSequence' > reliableSequence
            /\ clc' = clc
         \/ /\ reliableSequence' = reliableSequence
            /\ clc.serverCommandSequence <= clc'.serverCommandSequence
<1>1. /\ TypeInv /\ reliableSequence \in Nat /\ reliableAcknowledge \in Nat
      /\ reliableCommands \in [Slots -> Text] /\ clc.serverCommandSequence \in Nat
      /\ state \in {"CONNECTED", "PRIMED", "ACTIVE", "ZOMBIE"}
      /\ reliableSequence <= reliableAcknowledge + MAX_RELIABLE_COMMANDS
      /\ configstring \in Nat
  BY TypeFacts DEF Inv, Story, Window
<1>2. ASSUME NEW texts \in Seq(Subject), texts # <<>>, SV_AddServerCommand(texts)
      PROVE  reliableSequence' > reliableSequence
  <2>1. reliableSequence' = reliableSequence + Len(texts)
    BY <1>1, <1>2, AddType
  <2>2. Len(texts) \in Nat /\ Len(texts) # 0
    BY <1>2, LenProperties, EmptySeq
  <2> QED BY <1>1, <2>1, <2>2
<1>3. CASE SV_SendServerCommand
  <2>1. <<Other>> \in Seq(Subject) /\ <<Other>> # <<>>
    BY DEF Other, Subject
  <2>2. SV_AddServerCommand(<<Other>>) /\ clc' = clc
    BY <1>3 DEF SV_SendServerCommand, clientVars
  <2> QED BY <1>2, <2>1, <2>2
<1>4. CASE SV_SetConfigstring
  <2>1. /\ configstring' = configstring + 1 /\ clc' = clc
        /\ IF ToldOfChanges THEN SV_AddServerCommand(Chunks(configstring'))
           ELSE reliableSequence' = reliableSequence
    BY <1>4 DEF SV_SetConfigstring, clientVars
  <2>2. configstring' \in Nat
    BY <1>1, <2>1
  <2>3. Chunks(configstring') \in Seq(Subject) /\ Chunks(configstring') # <<>>
    BY <2>2, ChunksType
  <2> QED BY <1>1, <1>2, <2>1, <2>3
<1>5. CASE CL_ParseServerMessage
  <2>1. reliableSequence' = reliableSequence
    BY <1>5 DEF CL_ParseServerMessage, serverVars
  <2> QED BY <1>5, <2>1, ParseForward
<1>6. CASE \/ SV_SpawnServer \/ SV_SendClientSnapshot \/ CL_WritePacket
           \/ SV_ExecuteClientMessage \/ RunSnapshot
           \/ Lose /\ UNCHANGED <<serverVars, clientVars>>
           \/ UNCHANGED vars
  <2>1. reliableSequence' = reliableSequence /\ clc' = clc
    BY <1>6 DEF SV_SpawnServer, SV_SendClientSnapshot, CL_WritePacket,
       SV_ExecuteClientMessage, RunSnapshot, vars, serverVars, clientVars
  <2> QED BY <1>1, <2>1
<1>7. CASE CL_GetServerCommand
  <2>1. /\ reliableSequence' = reliableSequence
        /\ \/ clc' = clc
           \/ clc' = [clc EXCEPT !.lastExecutedServerCommand =
                                     cgame.serverCommandSequence + 1]
    BY <1>7 DEF CL_GetServerCommand, serverVars
  <2>2. clc'.serverCommandSequence = clc.serverCommandSequence
    <3>1. clc \in [serverCommandSequence : Nat, serverCommands : [Slots -> Text],
                   serverCommandsBad : [Slots -> BOOLEAN],
                   lastExecutedServerCommand : Nat]
      BY <1>1 DEF TypeInv, TypeOK, Text
    <3> QED BY <2>1, <3>1
  <2> QED BY <1>1, <2>1, <2>2
<1> QED BY <1>3, <1>4, <1>5, <1>6, <1>7 DEF Next

(* Every step adds commands, takes some, gives up, or is none.             *)
LEMMA StepRefines ==
  Inv /\ Inv' /\ [Next]_vars => [Reliable!Next]_Reliable!vars
<1> SUFFICES ASSUME Inv, Inv', [Next]_vars
             PROVE  [Reliable!Next]_Reliable!vars
  OBVIOUS
<1>1. CASE state = "ZOMBIE"
  BY <1>1 DEF Reliable!Next
<1>2. CASE state # "ZOMBIE" /\ state' = "ZOMBIE"
  BY <1>2 DEF Reliable!Next, Reliable!GiveUp
<1>3. CASE state # "ZOMBIE" /\ state' # "ZOMBIE"
  <2> DEFINE c == clc.serverCommandSequence
             mine == clc.serverCommands
  <2>1. (state # "ZOMBIE")' = (state # "ZOMBIE")
    BY <1>3
  <2>2. /\ c \in Nat /\ c' \in Nat
        /\ reliableSequence \in Nat /\ reliableSequence' \in Nat
        /\ c' <= reliableSequence'
        /\ RingAgrees(c, mine, reliableSequence, reliableCommands)
        /\ RingAgrees(c', mine', reliableSequence', reliableCommands')
    <3>1. TypeOK /\ TypeOK'
      BY DEF Inv, TypeInv
    <3>2. Story /\ Story'
      BY <1>3 DEF Inv
    <3>3. reliableSequence \in Nat /\ reliableSequence' \in Nat
      BY <3>1 DEF TypeOK
    <3>4. c \in Nat /\ c' \in Nat
      BY <3>1 DEF TypeOK
    <3>5. RingAgrees(c, mine, reliableSequence, reliableCommands)
      BY <3>2 DEF Story, ClientRingHolds
    <3>6. RingAgrees(c', mine', reliableSequence', reliableCommands')
      BY <3>2 DEF Story, ClientRingHolds
    <3>7. c' <= reliableSequence'
      BY <3>2 DEF Story, Window
    <3> QED BY <3>3, <3>4, <3>5, <3>6, <3>7
  <2>3. /\ Taken(c, mine) = [n \in 1 .. c |-> n]
        /\ Taken(c', mine') = [n \in 1 .. c' |-> n]
    BY <2>2, TakenIsAll
  <2>4. Len(Taken(c, mine)) = c
    <3>1. [n \in 1 .. c |-> n] \in [1 .. c -> Nat]
      OBVIOUS
    <3> HIDE DEF c, mine
    <3>2. Len([n \in 1 .. c |-> n]) = c
      BY <2>2, <3>1, FunctionIsSeq
    <3> QED BY <2>3, <3>2
  <2>5. \/ reliableSequence' > reliableSequence /\ clc' = clc
        \/ reliableSequence' = reliableSequence /\ c <= c'
    BY <1>3, CountersStep
  <2>6. CASE reliableSequence' > reliableSequence /\ clc' = clc
    <3>1. Reliable!Add
      BY <2>1, <2>6 DEF Reliable!Add
    <3> QED BY <1>3, <3>1 DEF Reliable!Next
  <2>7. CASE reliableSequence' = reliableSequence /\ c <= c'
    <3>1. CASE c' = c
      <4>1. Taken(c', mine') = Taken(c, mine)
        BY <2>3, <3>1
      <4> QED BY <2>1, <2>7, <4>1 DEF Reliable!vars, Taken
    <3>2. CASE c' # c
      <4>1. c' \in c + 1 .. reliableSequence
        BY <2>2, <2>7, <3>2
      <4>2. \E n \in Len(Taken(c, mine)) + 1 .. reliableSequence :
              Taken(c', mine') = [i \in 1 .. n |-> i]
        BY <2>3, <2>4, <4>1
      <4>3. Reliable!Take
        BY <2>1, <2>7, <4>2 DEF Reliable!Take, Taken
      <4> QED BY <1>3, <4>3 DEF Reliable!Next
    <3> QED BY <3>1, <3>2
  <2> QED BY <2>5, <2>6, <2>7
<1> QED BY <1>1, <1>2, <1>3

(* The rings, the repeated commands and the gamestates in between          *)
(* implement a stream of reliable commands.                                *)
THEOREM Refinement == Spec => ImplementsReliableCommands
<1>1. Init => Reliable!Init
  <2> SUFFICES ASSUME Init PROVE Reliable!Init
    OBVIOUS
  <2>1. clc.serverCommandSequence = 0 /\ 1 .. 0 = {}
    BY DEF Init
  <2>2. Taken(clc.serverCommandSequence, clc.serverCommands) = <<>>
    BY <2>1 DEF Taken
  <2>3. reliableSequence = 0 /\ (state # "ZOMBIE") = TRUE
    BY DEF Init
  <2> QED BY <2>2, <2>3 DEF Reliable!Init, Taken
<1> QED
  BY <1>1, StepRefines, Invariant, PTL
     DEF Spec, Reliable!Spec, ImplementsReliableCommands

-----------------------------------------------------------------------------
(* The configstring.  The client may yet execute the commands that are     *)
(* due: those it has and has not marked as bad, and those it has not had.  *)

TextOf(n) ==
    IF n <= clc.serverCommandSequence THEN clc.serverCommands[Slot(n)]
    ELSE reliableCommands[Slot(n)]

Told == [n \in 1 .. reliableSequence |-> TextOf(n)]

Due ==
    {n \in 1 .. reliableSequence :
       /\ n + MAX_RELIABLE_COMMANDS > clc.serverCommandSequence
       /\ n <= clc.serverCommandSequence => ~clc.serverCommandsBad[Slot(n)]
       /\ Told[n].configstring # 0}

(* The chunks of a long value are due together, one after the other.       *)
Linked(due, told, had) ==
    \A n \in due : told[n].configstring \in LongValues =>
        /\ told[n].chunk \in 1 .. MaxChunks
        /\ told[n].chunk < MaxChunks =>
              /\ n + 1 \in due
              /\ told[n + 1].configstring = told[n].configstring
              /\ told[n + 1].chunk = told[n].chunk + 1
        /\ (told[n].chunk > 1 /\ n > 1 /\ n - 1 + MAX_RELIABLE_COMMANDS > had) =>
              /\ n - 1 \in due
              /\ told[n - 1].configstring = told[n].configstring
              /\ told[n - 1].chunk = told[n].chunk - 1

(* Later commands bring later values, and none is newer than value.        *)
Rising(due, told, value) ==
    /\ \A m, n \in due : m < n => told[m].configstring <= told[n].configstring
    /\ \A n \in due : told[n].configstring <= value

(* No value is cut in two after command n.                                 *)
Whole(due, told, n) ==
    (n + 1 \in due /\ told[n + 1].configstring \in LongValues)
        => told[n + 1].chunk = 1

(* The commands due after n bring nothing older than value.                *)
Newer(due, told, n, value) ==
    \A k \in due : k > n => value <= told[k].configstring

(* What has been put together is what the next chunk goes on from.         *)
PutTogether(due, told, n, big) ==
    (/\ n + 1 \in due /\ told[n + 1].configstring \in LongValues
     /\ told[n + 1].chunk > 1)
        => big = [configstring |-> told[n + 1].configstring,
                  chunk |-> told[n + 1].chunk - 1]

(* The last command of a value, or the only one.                           *)
Ends(text) == text.configstring \in LongValues => text.chunk = MaxChunks

(* One of the commands due after n, up to last, brings value or a later.   *)
Brings(due, told, n, last, value) ==
    \E k \in due : n < k /\ k <= last /\ Ends(told[k]) /\ value <= told[k].configstring

(* The client has value or a later when it has executed command last; or   *)
(* it never gets there, as a command it would need has left its ring.      *)
Comes(due, told, had, n, mine, last, value) ==
    \/ value <= mine
    \/ Brings(due, told, n, last, value)
    \/ n < last /\ n + 1 + MAX_RELIABLE_COMMANDS <= had

(* The same of a client that starts from gamestate m.                      *)
ComesAfter(due, told, m, last, value) ==
    value <= m.configstring \/ Brings(due, told, m.sequence, last, value)

CgameBehind ==
    /\ clc.lastExecutedServerCommand <= cgame.serverCommandSequence
    /\ cgame.serverCommandSequence <= clc.serverCommandSequence
    /\ cl.snap.valid => cl.snap.serverCommandNum <= clc.serverCommandSequence

ValuesInOrder ==
    /\ Linked(Due, Told, clc.serverCommandSequence)
    /\ Rising(Due, Told, configstring)
    /\ Whole(Due, Told, clc.serverCommandSequence)
    /\ Newer(Due, Told, cgame.serverCommandSequence, cl.configstring)
    /\ cl.configstring <= configstring
    /\ PutTogether(Due, Told, cgame.serverCommandSequence, bigConfigString)

IsGamestate(m) == m.kind = "gamestate"
IsActive(m) == m.kind = "snapshot" /\ m.active

(* A message in flight: it cuts no value in two, and a gamestate is not    *)
(* newer than what follows it, nor of a map before the client's.           *)
GoodMessage(m, due, told, value, from, id) ==
    /\ Whole(due, told, After(m))
    /\ IsGamestate(m) => /\ Newer(due, told, m.sequence, m.configstring)
                         /\ m.configstring <= value
                         /\ from <= m.serverId /\ m.serverId <= id

GoodMessages ==
    /\ \A i \in DOMAIN toClient :
          GoodMessage(toClient[i], Due, Told, configstring, cl.serverId, serverId)
    /\ \A i, j \in DOMAIN toClient :
          (i < j /\ IsGamestate(toClient[i]) /\ IsGamestate(toClient[j])) =>
              toClient[i].serverId <= toClient[j].serverId

(* Who plays this map, and who may.                                        *)
MapsAgree ==
    /\ cl.serverId <= serverId
    /\ \A i \in DOMAIN toServer : toServer[i].serverId <= cl.serverId
    /\ state = "ACTIVE" => cl.serverId = serverId
    /\ state = "CONNECTED" =>
          /\ cl.serverId # serverId
          /\ \A i \in DOMAIN toClient :
                IsGamestate(toClient[i]) => toClient[i].serverId # serverId

(* A client that has this map's gamestate, or is about to, is told of      *)
(* every change.                                                           *)
ToldOfThis ==
    state # "CONNECTED" =>
        /\ cl.serverId = serverId =>
              Comes(Due, Told, clc.serverCommandSequence,
                    cgame.serverCommandSequence, cl.configstring,
                    reliableSequence, configstring)
        /\ \A i \in DOMAIN toClient :
              (IsGamestate(toClient[i]) /\ toClient[i].serverId = serverId) =>
                  ComesAfter(Due, Told, toClient[i], reliableSequence, configstring)

(* Before an active snapshot is run, its configstring has come.            *)
SnapshotsToCome ==
    /\ \A i \in DOMAIN toClient : IsActive(toClient[i]) =>
          Comes(Due, Told, clc.serverCommandSequence,
                cgame.serverCommandSequence, cl.configstring,
                After(toClient[i]), toClient[i].configstring)
    /\ \A i, j \in DOMAIN toClient :
          (i < j /\ IsGamestate(toClient[i]) /\ IsActive(toClient[j])) =>
              ComesAfter(Due, Told, toClient[i], After(toClient[j]),
                         toClient[j].configstring)
    /\ (cl.snap.valid /\ cl.snap.active) =>
          Comes(Due, Told, clc.serverCommandSequence,
                cgame.serverCommandSequence, cl.configstring,
                cl.snap.serverCommandNum, cl.snap.configstring)

Current ==
    /\ CgameBehind /\ ValuesInOrder /\ GoodMessages /\ MapsAgree
    /\ ToldOfThis /\ SnapshotsToCome

CurrentInv ==
    /\ Inv
    /\ ConfigstringCurrent
    /\ (state # "ZOMBIE" /\ ~clientError) => Current

(* What is due is a command that sets the configstring.                    *)
LEMMA DueFacts ==
  ASSUME TypeInv
  PROVE  /\ Due \subseteq 1 .. reliableSequence
         /\ \A n \in 1 .. reliableSequence : Told[n] \in Text
         /\ \A n \in Due :
              /\ n \in Nat /\ n >= 1 /\ n <= reliableSequence
              /\ n + MAX_RELIABLE_COMMANDS > clc.serverCommandSequence
              /\ Told[n].configstring \in Nat /\ Told[n].configstring # 0
              /\ Told[n].chunk \in Nat
<1>1. /\ reliableSequence \in Nat /\ clc.serverCommandSequence \in Nat
      /\ reliableCommands \in [Slots -> Text] /\ clc.serverCommands \in [Slots -> Text]
  BY TypeFacts
<1>2. ASSUME NEW n \in 1 .. reliableSequence PROVE Told[n] \in Text
  <2>1. Slot(n) \in Slots
    BY SlotInRing
  <2>2. Told[n] = TextOf(n)
    BY DEF Told
  <2> QED BY <1>1, <2>1, <2>2 DEF TextOf
<1>3. Due \subseteq 1 .. reliableSequence
  BY DEF Due
<1>4. \A t \in Text : t.configstring \in Nat /\ t.chunk \in Nat
  BY DEF Text
<1>5. ASSUME NEW n \in Due
      PROVE  /\ n \in Nat /\ n >= 1 /\ n <= reliableSequence
             /\ n + MAX_RELIABLE_COMMANDS > clc.serverCommandSequence
             /\ Told[n].configstring \in Nat /\ Told[n].configstring # 0
             /\ Told[n].chunk \in Nat
  <2>1. n \in 1 .. reliableSequence
    BY <1>3
  <2>2. n + MAX_RELIABLE_COMMANDS > clc.serverCommandSequence /\ Told[n].configstring # 0
    BY DEF Due
  <2> QED BY <1>1, <1>2, <1>4, <2>1, <2>2
<1> QED BY <1>2, <1>3, <1>5

(* Steps that leave the rings leave what is due.                           *)
LEMMA SameDue ==
  ASSUME UNCHANGED <<reliableSequence, reliableCommands>>,
         clc'.serverCommandSequence = clc.serverCommandSequence,
         clc'.serverCommands = clc.serverCommands,
         clc'.serverCommandsBad = clc.serverCommandsBad
  PROVE  Told' = Told /\ Due' = Due
<1>1. \A n \in 1 .. reliableSequence : TextOf(n)' = TextOf(n)
  BY DEF TextOf
<1>2. Told' = Told
  BY <1>1 DEF Told
<1> QED BY <1>2 DEF Due

(* Commands that fit in the ring are due if they set the configstring, and *)
(* nothing else changes.                                                   *)
LEMMA AddedDue ==
  ASSUME TypeInv, Window, NEW texts \in Seq(Subject),
         reliableSequence' = reliableSequence + Len(texts),
         reliableSequence' <= reliableAcknowledge + MAX_RELIABLE_COMMANDS,
         reliableCommands' = Put(reliableCommands, reliableSequence, texts),
         clc' = clc
  PROVE  /\ \A n \in 1 .. reliableSequence : n \in Due' <=> n \in Due
         /\ \A n \in Due : Told'[n] = Told[n]
         /\ \A i \in 1 .. Len(texts) :
              /\ Told'[reliableSequence + i] =
                   Command(reliableSequence + i, texts[i])
              /\ reliableSequence + i \in Due' <=> texts[i].configstring # 0
         /\ Due' \subseteq 1 .. reliableSequence + Len(texts)
<1>1. /\ reliableSequence \in Nat /\ clc.serverCommandSequence \in Nat
      /\ reliableCommands \in [Slots -> Text] /\ reliableAcknowledge \in Nat
      /\ MAX_RELIABLE_COMMANDS \in Nat \ {0} /\ Len(texts) \in Nat
      /\ \A i \in 1 .. Len(texts) : texts[i] \in Subject
  BY TypeFacts, LenProperties, ElementOfSeq
<1>2. /\ reliableAcknowledge <= clc.serverCommandSequence
      /\ clc.serverCommandSequence <= reliableSequence
      /\ Len(texts) <= MAX_RELIABLE_COMMANDS
  BY <1>1 DEF Window
<1>3. /\ \A i \in 1 .. Len(texts) :
           reliableCommands'[Slot(reliableSequence + i)] =
             Command(reliableSequence + i, texts[i])
      /\ \A n \in 0 .. reliableSequence :
           n + MAX_RELIABLE_COMMANDS > reliableSequence + Len(texts) =>
             reliableCommands'[Slot(n)] = reliableCommands[Slot(n)]
  BY <1>1, <1>2, PutSlots
<1>4. ASSUME NEW n \in 1 .. reliableSequence PROVE TextOf(n)' = TextOf(n)
  <2>1. CASE n <= clc.serverCommandSequence
    BY <2>1 DEF TextOf
  <2>2. CASE ~(n <= clc.serverCommandSequence)
    <3>1. n \in 0 .. reliableSequence
      OBVIOUS
    <3>2. n + MAX_RELIABLE_COMMANDS > reliableSequence + Len(texts)
      BY <1>1, <1>2, <2>2
    <3> QED BY <1>3, <2>2, <3>1, <3>2 DEF TextOf
  <2> QED BY <2>1, <2>2
<1>5. ASSUME NEW n \in 1 .. reliableSequence PROVE Told'[n] = Told[n]
  <2>1. n \in 1 .. reliableSequence'
    BY <1>1
  <2> QED BY <1>4, <2>1 DEF Told
<1>6. ASSUME NEW n \in 1 .. reliableSequence PROVE n \in Due' <=> n \in Due
  <2>1. n \in 1 .. reliableSequence'
    BY <1>1
  <2> QED BY <1>5, <2>1 DEF Due
<1>7. ASSUME NEW i \in 1 .. Len(texts)
      PROVE  /\ Told'[reliableSequence + i] = Command(reliableSequence + i, texts[i])
             /\ reliableSequence + i \in Due' <=> texts[i].configstring # 0
  <2>1. /\ reliableSequence + i \in 1 .. reliableSequence'
        /\ ~(reliableSequence + i <= clc.serverCommandSequence)
        /\ reliableSequence + i + MAX_RELIABLE_COMMANDS > clc.serverCommandSequence
    BY <1>1, <1>2
  <2>2. ASSUME NEW n \in 1 .. reliableSequence', ~(n <= clc.serverCommandSequence)
        PROVE  Told'[n] = reliableCommands'[Slot(n)]
    BY <2>2 DEF Told, TextOf
  <2>3. Told'[reliableSequence + i] = Command(reliableSequence + i, texts[i])
    BY <1>3, <2>1, <2>2
  <2>4. Command(reliableSequence + i, texts[i]).configstring = texts[i].configstring
    BY <1>1, CommandType
  <2> QED BY <2>1, <2>3, <2>4 DEF Due
<1>8. Due' \subseteq 1 .. reliableSequence + Len(texts)
  BY DEF Due
<1> QED BY <1>5, <1>6, <1>7, <1>8 DEF Due

(* A message brings what was on its way; a gamestate makes what came       *)
(* before it undue.                                                        *)
LEMMA ParsedDue ==
  ASSUME Inv, state # "ZOMBIE", CL_ParseServerMessage
  PROVE  LET m == toClient[1] IN
         /\ clc'.serverCommandSequence = After(m)
         /\ clc.serverCommandSequence <= After(m) /\ After(m) <= reliableSequence
         /\ m.kind = "gamestate" => Due' = {n \in Due : n > After(m)}
         /\ m.kind = "snapshot" =>
              Due' = {n \in Due : n + MAX_RELIABLE_COMMANDS > After(m)}
         /\ \A n \in Due' : Told'[n] = Told[n]
<1> DEFINE m == toClient[1]
           c == CL_ParseCommandString(m.commands)
           had == clc.serverCommandSequence
<1>1. toClient # <<>> /\ TypeInv
  BY DEF CL_ParseServerMessage, Inv
<1>2. /\ TypeInv' /\ 1 \in DOMAIN toClient /\ m \in Message
      /\ clc'.serverCommands = c.serverCommands
      /\ clc'.serverCommandSequence =
           IF m.kind = "gamestate" THEN After(m) ELSE c.serverCommandSequence
      /\ clc'.serverCommandsBad =
           IF m.kind = "gamestate" THEN BadAfterGamestate(c) ELSE c.serverCommandsBad
      /\ UNCHANGED serverVars
  BY <1>1, ParsedConnection
<1>3. reliableSequence' = reliableSequence /\ reliableCommands' = reliableCommands
  BY <1>2 DEF serverVars
<1>4. /\ reliableSequence \in Nat /\ reliableAcknowledge \in Nat /\ had \in Nat
      /\ After(m) \in Nat /\ m.kind \in {"gamestate", "snapshot"}
      /\ MAX_RELIABLE_COMMANDS \in Nat \ {0}
  BY <1>1, <1>2, TypeFacts, MessageFields
<1>5. /\ Window /\ GenuineMessage(m, had, reliableAcknowledge, reliableSequence,
                                  reliableCommands)
  BY <1>2 DEF Inv, Story, MessagesGenuine
<1>6. PICK b \in 0 .. reliableAcknowledge :
        Carries(m, b, reliableSequence, reliableCommands)
  BY <1>5 DEF GenuineMessage
<1>7. /\ had <= After(m) /\ After(m) <= reliableSequence /\ b \in Nat
      /\ reliableAcknowledge <= had /\ b <= had
      /\ reliableSequence <= reliableAcknowledge + MAX_RELIABLE_COMMANDS
  BY <1>4, <1>5, <1>6 DEF GenuineMessage, Window
<1>8. /\ c.serverCommandSequence = After(m)
      /\ \A n \in 0 .. After(m) : n + MAX_RELIABLE_COMMANDS > After(m) =>
           IF n <= had
             THEN /\ c.serverCommands[Slot(n)] = clc.serverCommands[Slot(n)]
                  /\ c.serverCommandsBad[Slot(n)] = clc.serverCommandsBad[Slot(n)]
             ELSE /\ n - b \in DOMAIN m.commands
                  /\ c.serverCommands[Slot(n)] = m.commands[n - b].text
                  /\ c.serverCommandsBad[Slot(n)] = FALSE
  BY <1>1, <1>2, <1>6, <1>7, ParseContent
<1>9. clc'.serverCommandSequence = After(m)
  BY <1>2, <1>8
<1>10. ASSUME NEW n \in 1 .. reliableSequence,
              n + MAX_RELIABLE_COMMANDS > After(m)
       PROVE  Told'[n] = Told[n]
  <2>1. /\ Told[n] = IF n <= had THEN clc.serverCommands[Slot(n)]
                     ELSE reliableCommands[Slot(n)]
        /\ Told'[n] = IF n <= After(m) THEN c.serverCommands[Slot(n)]
                      ELSE reliableCommands[Slot(n)]
    BY <1>2, <1>3, <1>9 DEF Told, TextOf
  <2> HIDE DEF had, c
  <2>2. CASE n <= had
    <3>1. n \in 0 .. After(m) /\ n <= After(m)
      BY <1>4, <1>7, <2>2
    <3> QED BY <1>8, <1>10, <2>1, <2>2, <3>1
  <2>3. CASE ~(n <= had) /\ n <= After(m)
    <3>1. n \in 0 .. After(m) /\ b + (n - b) = n
      BY <1>4, <1>7, <2>3
    <3>2. /\ n - b \in DOMAIN m.commands
          /\ c.serverCommands[Slot(n)] = m.commands[n - b].text
      BY <1>8, <1>10, <2>3, <3>1
    <3>3. b + (n - b) + MAX_RELIABLE_COMMANDS > reliableSequence
      BY <1>4, <1>7, <2>3, <3>1
    <3>4. m.commands[n - b].text = reliableCommands[Slot(b + (n - b))]
      BY <1>6, <3>2, <3>3 DEF Carries
    <3> QED BY <2>1, <2>3, <3>1, <3>2, <3>4
  <2>4. CASE ~(n <= After(m))
    <3>1. ~(n <= had)
      BY <1>4, <1>7, <2>4
    <3> QED BY <2>1, <2>4, <3>1
  <2> QED BY <2>2, <2>3, <2>4
<1>11. Due' = {n \in 1 .. reliableSequence :
                 /\ n + MAX_RELIABLE_COMMANDS > After(m)
                 /\ n <= After(m) => ~clc'.serverCommandsBad[Slot(n)]
                 /\ Told'[n].configstring # 0}
  BY <1>3, <1>9 DEF Due
<1>12. \A n \in Due' : Told'[n] = Told[n]
  BY <1>10, <1>11
<1>13. Due = {n \in 1 .. reliableSequence :
                /\ n + MAX_RELIABLE_COMMANDS > had
                /\ n <= had => ~clc.serverCommandsBad[Slot(n)]
                /\ Told[n].configstring # 0}
  BY DEF Due
<1>14. CASE m.kind = "snapshot"
  <2>1. clc'.serverCommandsBad = c.serverCommandsBad
    BY <1>2, <1>14
  <2> HIDE DEF had, c
  <2>2. ASSUME NEW n \in 1 .. reliableSequence, n + MAX_RELIABLE_COMMANDS > After(m)
        PROVE  (n <= After(m) => ~clc'.serverCommandsBad[Slot(n)])
                 <=> (n <= had => ~clc.serverCommandsBad[Slot(n)])
    <3>1. CASE n <= had
      <4>1. n \in 0 .. After(m) /\ n <= After(m)
        BY <1>4, <1>7, <3>1
      <4> QED BY <1>8, <2>1, <2>2, <3>1, <4>1
    <3>2. CASE ~(n <= had) /\ n <= After(m)
      <4>1. n \in 0 .. After(m)
        BY <1>4, <3>2
      <4> QED BY <1>8, <2>1, <2>2, <3>2, <4>1
    <3>3. CASE ~(n <= had) /\ ~(n <= After(m))
      BY <3>3
    <3>4. n <= had => n <= After(m)
      BY <1>4, <1>7
    <3> QED BY <3>1, <3>2, <3>3, <3>4
  <2>3. ASSUME NEW n \in 1 .. reliableSequence, n + MAX_RELIABLE_COMMANDS > After(m)
        PROVE  n + MAX_RELIABLE_COMMANDS > had
    BY <1>4, <1>7, <2>3
  <2>4. Due' = {n \in Due : n + MAX_RELIABLE_COMMANDS > After(m)}
    <3>1. ASSUME NEW n \in Due'
          PROVE  n \in Due /\ n + MAX_RELIABLE_COMMANDS > After(m)
      <4>1. /\ n \in 1 .. reliableSequence /\ n + MAX_RELIABLE_COMMANDS > After(m)
            /\ n <= After(m) => ~clc'.serverCommandsBad[Slot(n)]
            /\ Told'[n].configstring # 0
        BY <1>11
      <4>2. Told[n].configstring # 0
        BY <1>10, <4>1
      <4> QED BY <1>13, <2>2, <2>3, <4>1, <4>2
    <3>2. ASSUME NEW n \in Due, n + MAX_RELIABLE_COMMANDS > After(m)
          PROVE  n \in Due'
      <4>1. /\ n \in 1 .. reliableSequence
            /\ n <= had => ~clc.serverCommandsBad[Slot(n)]
            /\ Told[n].configstring # 0
        BY <1>13
      <4>2. Told'[n].configstring # 0
        BY <1>10, <3>2, <4>1
      <4> QED BY <1>11, <2>2, <3>2, <4>1, <4>2
    <3> QED BY <3>1, <3>2
  <2> QED BY <1>7, <1>9, <1>12, <1>14, <2>4 DEF had
<1>15. CASE m.kind = "gamestate"
  <2>1. clc'.serverCommandsBad =
          [s \in Slots |-> c.serverCommands[s].configstring # 0 \/ c.serverCommandsBad[s]]
    BY <1>2, <1>15 DEF BadAfterGamestate
  <2>1a. ASSUME NEW n \in 1 .. reliableSequence, n <= After(m)
         PROVE  Told'[n] = c.serverCommands[Slot(n)]
    BY <1>2, <1>3, <1>9, <2>1a DEF Told, TextOf
  <2> HIDE DEF had, c
  <2>2. Due' = {n \in Due : n > After(m)}
    <3>1. ASSUME NEW n \in Due' PROVE n \in Due /\ n > After(m)
      <4>1. /\ n \in 1 .. reliableSequence /\ n + MAX_RELIABLE_COMMANDS > After(m)
            /\ n <= After(m) => ~clc'.serverCommandsBad[Slot(n)]
            /\ Told'[n].configstring # 0
        BY <1>11
      <4>2. ~(n <= After(m))
        <5> SUFFICES ASSUME n <= After(m) PROVE FALSE
          OBVIOUS
        <5>1. Slot(n) \in Slots
          BY <4>1, SlotInRing
        <5>2. Told'[n] = c.serverCommands[Slot(n)]
          BY <2>1a, <4>1
        <5>3. clc'.serverCommandsBad[Slot(n)]
          BY <2>1, <4>1, <5>1, <5>2
        <5> QED BY <4>1, <5>3
      <4>2a. n > After(m)
        BY <1>4, <4>1, <4>2
      <4>3. Told[n].configstring # 0 /\ n + MAX_RELIABLE_COMMANDS > had /\ ~(n <= had)
        BY <1>4, <1>7, <1>10, <4>1, <4>2a
      <4> QED BY <1>13, <4>1, <4>2a, <4>3
    <3>2. ASSUME NEW n \in Due, n > After(m) PROVE n \in Due'
      <4>1. n \in 1 .. reliableSequence /\ Told[n].configstring # 0
        BY <1>13
      <4>2. n + MAX_RELIABLE_COMMANDS > After(m) /\ ~(n <= After(m))
        BY <1>4, <3>2, <4>1
      <4>3. Told'[n].configstring # 0
        BY <1>10, <4>1, <4>2
      <4> QED BY <1>11, <4>1, <4>2, <4>3
    <3> QED BY <3>1, <3>2
  <2> QED BY <1>7, <1>9, <1>12, <1>15, <2>2 DEF had
<1> QED BY <1>4, <1>14, <1>15

(* Commands that are due have positive numbers and carry a value.          *)
Sound(due, told) ==
    \A n \in due : /\ n \in Nat /\ n >= 1
                   /\ told[n].configstring \in Nat /\ told[n].chunk \in Nat

(* Fewer commands due, fewer obligations.                                  *)
LEMMA FewerDue ==
  ASSUME NEW due, NEW due2, NEW told, NEW told2, due2 \subseteq due,
         \A n \in due2 : told2[n] = told[n]
  PROVE  /\ Sound(due, told) => Sound(due2, told2)
         /\ \A v : Rising(due, told, v) => Rising(due2, told2, v)
         /\ \A n : Whole(due, told, n) => Whole(due2, told2, n)
         /\ \A n, v : Newer(due, told, n, v) => Newer(due2, told2, n, v)
         /\ \A n, b : PutTogether(due, told, n, b) => PutTogether(due2, told2, n, b)
<1>1. Sound(due, told) => Sound(due2, told2)
  BY DEF Sound
<1>2. ASSUME NEW v, Rising(due, told, v) PROVE Rising(due2, told2, v)
  BY <1>2 DEF Rising
<1>3. ASSUME NEW n, Whole(due, told, n) PROVE Whole(due2, told2, n)
  BY <1>3 DEF Whole
<1>4. ASSUME NEW n, NEW v, Newer(due, told, n, v) PROVE Newer(due2, told2, n, v)
  BY <1>4 DEF Newer
<1>5. ASSUME NEW n, NEW b, PutTogether(due, told, n, b)
      PROVE  PutTogether(due2, told2, n, b)
  BY <1>5 DEF PutTogether
<1> QED BY <1>1, <1>2, <1>3, <1>4, <1>5

(* More commands due, and more of them to come, bring no less.             *)
LEMMA MoreComes ==
  ASSUME NEW due, NEW due2, NEW told, NEW told2, due \subseteq due2,
         \A n \in due : n \in Nat /\ told2[n] = told[n],
         NEW last \in Nat, NEW last2 \in Nat, last <= last2
  PROVE  /\ \A n, v : Brings(due, told, n, last, v) => Brings(due2, told2, n, last2, v)
         /\ \A had, n \in Nat : \A mine, v :
              Comes(due, told, had, n, mine, last, v)
                => Comes(due2, told2, had, n, mine, last2, v)
         /\ \A m, v : ComesAfter(due, told, m, last, v)
                        => ComesAfter(due2, told2, m, last2, v)
<1>1. ASSUME NEW n, NEW v, Brings(due, told, n, last, v)
      PROVE  Brings(due2, told2, n, last2, v)
  <2>1. PICK k \in due : /\ n < k /\ k <= last /\ Ends(told[k])
                         /\ v <= told[k].configstring
    BY <1>1 DEF Brings
  <2>2. k \in due2 /\ told2[k] = told[k] /\ k <= last2
    BY <2>1
  <2> QED BY <2>1, <2>2 DEF Brings
<1>2. ASSUME NEW had \in Nat, NEW n \in Nat, NEW mine, NEW v,
             Comes(due, told, had, n, mine, last, v)
      PROVE  Comes(due2, told2, had, n, mine, last2, v)
  <2>1. n < last => n < last2
    OBVIOUS
  <2> QED BY <1>1, <1>2, <2>1 DEF Comes
<1>3. ASSUME NEW m, NEW v, ComesAfter(due, told, m, last, v)
      PROVE  ComesAfter(due2, told2, m, last2, v)
  BY <1>1, <1>3 DEF ComesAfter
<1> QED BY <1>1, <1>2, <1>3

(* A message is parsed: had was the last command received, had2 is now.    *)
Parsed(due, due2, told, told2, had, had2) ==
    /\ Sound(due, told)
    /\ had \in Nat /\ had2 \in Nat /\ had <= had2
    /\ \A n \in due2 : told2[n] = told[n]

(* What a message without a gamestate leaves due.                          *)
LEMMA SnapshotDue ==
  ASSUME NEW due, NEW due2, NEW told, NEW told2, NEW had, NEW had2,
         Parsed(due, due2, told, told2, had, had2),
         due2 = {n \in due : n + MAX_RELIABLE_COMMANDS > had2}
  PROVE  /\ Linked(due, told, had) => Linked(due2, told2, had2)
         /\ \A n, last \in Nat : \A mine, v :
              Comes(due, told, had, n, mine, last, v)
                => Comes(due2, told2, had2, n, mine, last, v)
         /\ \A m, last, v :
              (m.sequence \in Nat /\ had2 <= m.sequence
                 /\ ComesAfter(due, told, m, last, v))
                => ComesAfter(due2, told2, m, last, v)
<1>0. /\ Sound(due, told) /\ had \in Nat /\ had2 \in Nat /\ had <= had2
      /\ \A n \in due2 : told2[n] = told[n]
  BY DEF Parsed
<1> USE <1>0
<1>1. MAX_RELIABLE_COMMANDS \in Nat \ {0}
  BY RingAssumption
<1>2. ASSUME Linked(due, told, had), NEW n \in due2, told2[n].configstring \in LongValues
      PROVE  /\ told2[n].chunk \in 1 .. MaxChunks
             /\ told2[n].chunk < MaxChunks =>
                   /\ n + 1 \in due2
                   /\ told2[n + 1].configstring = told2[n].configstring
                   /\ told2[n + 1].chunk = told2[n].chunk + 1
             /\ (told2[n].chunk > 1 /\ n > 1 /\ n - 1 + MAX_RELIABLE_COMMANDS > had2) =>
                   /\ n - 1 \in due2
                   /\ told2[n - 1].configstring = told2[n].configstring
                   /\ told2[n - 1].chunk = told2[n].chunk - 1
  <2>1. /\ n \in due /\ n \in Nat /\ n + MAX_RELIABLE_COMMANDS > had2
        /\ told2[n] = told[n]
    BY DEF Sound
  <2>2. /\ told[n].chunk \in 1 .. MaxChunks
        /\ told[n].chunk < MaxChunks =>
              /\ n + 1 \in due
              /\ told[n + 1].configstring = told[n].configstring
              /\ told[n + 1].chunk = told[n].chunk + 1
        /\ (told[n].chunk > 1 /\ n > 1 /\ n - 1 + MAX_RELIABLE_COMMANDS > had) =>
              /\ n - 1 \in due
              /\ told[n - 1].configstring = told[n].configstring
              /\ told[n - 1].chunk = told[n].chunk - 1
    BY <1>2, <2>1 DEF Linked
  <2>3. n + 1 \in due => n + 1 \in due2
    BY <1>1, <2>1
  <2>4. (n > 1 /\ n - 1 + MAX_RELIABLE_COMMANDS > had2)
          => n - 1 + MAX_RELIABLE_COMMANDS > had
    BY <1>1, <2>1
  <2>5. (n - 1 + MAX_RELIABLE_COMMANDS > had2 /\ n - 1 \in due) => n - 1 \in due2
    OBVIOUS
  <2> QED BY <2>1, <2>2, <2>3, <2>4, <2>5
<1>3. ASSUME NEW n \in Nat, NEW last \in Nat, NEW mine, NEW v,
             Comes(due, told, had, n, mine, last, v)
      PROVE  Comes(due2, told2, had2, n, mine, last, v)
  <2>1. CASE v <= mine
    BY <2>1 DEF Comes
  <2>2. CASE Brings(due, told, n, last, v)
    <3>1. PICK k \in due : /\ n < k /\ k <= last /\ Ends(told[k])
                           /\ v <= told[k].configstring
      BY <2>2 DEF Brings
    <3>2. CASE k + MAX_RELIABLE_COMMANDS > had2
      <4>1. k \in due2 /\ told2[k] = told[k]
        BY <3>2
      <4> QED BY <3>1, <4>1 DEF Comes, Brings
    <3>3. CASE ~(k + MAX_RELIABLE_COMMANDS > had2)
      <4>1. k \in Nat
        BY DEF Sound
      <4>2. n < last /\ n + 1 + MAX_RELIABLE_COMMANDS <= had2
        BY <1>1, <3>1, <3>3, <4>1
      <4> QED BY <4>2 DEF Comes
    <3> QED BY <3>2, <3>3
  <2>3. CASE n < last /\ n + 1 + MAX_RELIABLE_COMMANDS <= had
    <3>1. n + 1 + MAX_RELIABLE_COMMANDS <= had2
      BY <1>1, <2>3
    <3> QED BY <2>3, <3>1 DEF Comes
  <2> QED BY <1>3, <2>1, <2>2, <2>3 DEF Comes
<1>4. ASSUME NEW m, NEW last, NEW v, m.sequence \in Nat, had2 <= m.sequence,
             ComesAfter(due, told, m, last, v)
      PROVE  ComesAfter(due2, told2, m, last, v)
  <2>1. CASE v <= m.configstring
    BY <2>1 DEF ComesAfter
  <2>2. CASE Brings(due, told, m.sequence, last, v)
    <3>1. PICK k \in due : /\ m.sequence < k /\ k <= last /\ Ends(told[k])
                           /\ v <= told[k].configstring
      BY <2>2 DEF Brings
    <3>2. k \in Nat
      BY DEF Sound
    <3>3. k \in due2 /\ told2[k] = told[k]
      BY <1>1, <1>4, <3>1, <3>2
    <3> QED BY <3>1, <3>3 DEF ComesAfter, Brings
  <2> QED BY <1>4, <2>1, <2>2 DEF ComesAfter
<1>5. Linked(due, told, had) => Linked(due2, told2, had2)
  BY <1>2 DEF Linked
<1> QED BY <1>3, <1>4, <1>5

(* What a gamestate that follows command number had2 leaves due.           *)
LEMMA GamestateDue ==
  ASSUME NEW due, NEW due2, NEW told, NEW told2, NEW had, NEW had2,
         Parsed(due, due2, told, told2, had, had2),
         due2 = {n \in due : n > had2}, Whole(due, told, had2)
  PROVE  /\ Linked(due, told, had) => Linked(due2, told2, had2)
         /\ \A n \in Nat : \A v : Newer(due, told, had2, v) => Newer(due2, told2, n, v)
         /\ \A n \in Nat : \A b : n <= had2 => PutTogether(due2, told2, n, b)
         /\ \A n \in Nat : \A last, m, v :
              (m.sequence = had2 /\ n <= had2 /\ ComesAfter(due, told, m, last, v))
                => Comes(due2, told2, had2, n, m.configstring, last, v)
         /\ \A m, last, v :
              (m.sequence \in Nat /\ had2 <= m.sequence
                 /\ ComesAfter(due, told, m, last, v))
                => ComesAfter(due2, told2, m, last, v)
<1>0. /\ Sound(due, told) /\ had \in Nat /\ had2 \in Nat /\ had <= had2
      /\ \A n \in due2 : told2[n] = told[n]
  BY DEF Parsed
<1> USE <1>0
<1>1. MAX_RELIABLE_COMMANDS \in Nat \ {0}
  BY RingAssumption
<1>2. ASSUME Linked(due, told, had), NEW n \in due2, told2[n].configstring \in LongValues
      PROVE  /\ told2[n].chunk \in 1 .. MaxChunks
             /\ told2[n].chunk < MaxChunks =>
                   /\ n + 1 \in due2
                   /\ told2[n + 1].configstring = told2[n].configstring
                   /\ told2[n + 1].chunk = told2[n].chunk + 1
             /\ (told2[n].chunk > 1 /\ n > 1 /\ n - 1 + MAX_RELIABLE_COMMANDS > had2) =>
                   /\ n - 1 \in due2
                   /\ told2[n - 1].configstring = told2[n].configstring
                   /\ told2[n - 1].chunk = told2[n].chunk - 1
  <2>1. n \in due /\ n \in Nat /\ n > had2 /\ told2[n] = told[n]
    BY DEF Sound
  <2>2. /\ told[n].chunk \in 1 .. MaxChunks
        /\ told[n].chunk < MaxChunks =>
              /\ n + 1 \in due
              /\ told[n + 1].configstring = told[n].configstring
              /\ told[n + 1].chunk = told[n].chunk + 1
        /\ (told[n].chunk > 1 /\ n > 1 /\ n - 1 + MAX_RELIABLE_COMMANDS > had) =>
              /\ n - 1 \in due
              /\ told[n - 1].configstring = told[n].configstring
              /\ told[n - 1].chunk = told[n].chunk - 1
    BY <1>2, <2>1 DEF Linked
  <2>3. n + 1 \in due => n + 1 \in due2
    BY <2>1
  <2>4. ASSUME told[n].chunk > 1 PROVE n - 1 > had2
    <3>1. n # had2 + 1
      <4> SUFFICES ASSUME n = had2 + 1 PROVE FALSE
        OBVIOUS
      <4>1. told[n].chunk = 1
        BY <1>2, <2>1 DEF Whole
      <4> QED BY <2>4, <4>1
    <3> QED BY <2>1, <3>1
  <2>5. (told[n].chunk > 1 /\ n > 1) => n - 1 + MAX_RELIABLE_COMMANDS > had
    BY <1>1, <2>1, <2>4
  <2>6. (told[n].chunk > 1 /\ n - 1 \in due) => n - 1 \in due2
    BY <2>4
  <2> QED BY <2>1, <2>2, <2>3, <2>5, <2>6
<1>3. ASSUME NEW n \in Nat, NEW v, Newer(due, told, had2, v)
      PROVE  Newer(due2, told2, n, v)
  BY <1>3 DEF Newer
<1>4. ASSUME NEW n \in Nat, NEW b, n <= had2 PROVE PutTogether(due2, told2, n, b)
  <2> SUFFICES ASSUME n + 1 \in due2, told2[n + 1].configstring \in LongValues,
                      told2[n + 1].chunk > 1
               PROVE  FALSE
    BY DEF PutTogether
  <2>1. n = had2 /\ n + 1 \in due /\ told2[n + 1] = told[n + 1]
    BY <1>4
  <2>2. told[n + 1].chunk = 1
    BY <2>1 DEF Whole
  <2> QED BY <2>1, <2>2
<1>5. ASSUME NEW n \in Nat, NEW last, NEW v, NEW from \in Nat,
             n <= from, had2 <= from, Brings(due, told, from, last, v)
      PROVE  Brings(due2, told2, n, last, v)
  <2>1. PICK k \in due : /\ from < k /\ k <= last /\ Ends(told[k])
                         /\ v <= told[k].configstring
    BY <1>5 DEF Brings
  <2>2. k \in Nat
    BY DEF Sound
  <2>3. k \in due2 /\ told2[k] = told[k] /\ n < k
    BY <1>5, <2>1, <2>2
  <2> QED BY <2>1, <2>3 DEF Brings
<1>6. ASSUME NEW n \in Nat, NEW last, NEW m, NEW v, m.sequence = had2, n <= had2,
             ComesAfter(due, told, m, last, v)
      PROVE  Comes(due2, told2, had2, n, m.configstring, last, v)
  BY <1>5, <1>6 DEF ComesAfter, Comes
<1>7. ASSUME NEW m, NEW last, NEW v, m.sequence \in Nat, had2 <= m.sequence,
             ComesAfter(due, told, m, last, v)
      PROVE  ComesAfter(due2, told2, m, last, v)
  BY <1>5, <1>7 DEF ComesAfter
<1>8. Linked(due, told, had) => Linked(due2, told2, had2)
  BY <1>2 DEF Linked
<1> QED BY <1>3, <1>4, <1>6, <1>7, <1>8

(* The commands after last, count of them, are due as they bring v.        *)
Adds(due, due2, told, told2, had, last, value, v, count) ==
    /\ Sound(due, told) /\ due \subseteq 1 .. last
    /\ had \in Nat /\ last \in Nat /\ had <= last
    /\ value \in Nat /\ v \in Nat /\ value < v
    /\ count \in Nat /\ count >= 1
    /\ count = (IF v \in LongValues THEN MaxChunks ELSE 1)
    /\ due2 = due \cup {last + i : i \in 1 .. count}
    /\ \A n \in due : told2[n] = told[n]
    /\ \A i \in 1 .. count : /\ told2[last + i].configstring = v
                             /\ told2[last + i].chunk = i

(* The commands of a new value are due together, and are the newest.       *)
LEMMA ValueDue ==
  ASSUME NEW due, NEW due2, NEW told, NEW told2, NEW had, NEW last,
         NEW value, NEW v, NEW count,
         Adds(due, due2, told, told2, had, last, value, v, count)
  PROVE  /\ Sound(due2, told2)
         /\ Linked(due, told, had) => Linked(due2, told2, had)
         /\ Rising(due, told, value) => Rising(due2, told2, v)
         /\ \A n \in 0 .. last : Whole(due, told, n) => Whole(due2, told2, n)
         /\ \A n, w \in Nat : (w <= value /\ Newer(due, told, n, w)) => Newer(due2, told2, n, w)
         /\ \A n \in 0 .. last : \A b :
              PutTogether(due, told, n, b) => PutTogether(due2, told2, n, b)
         /\ \A n \in 0 .. last : Brings(due2, told2, n, last + count, v)
<1>0. /\ Sound(due, told) /\ due \subseteq 1 .. last
      /\ had \in Nat /\ last \in Nat /\ had <= last
      /\ value \in Nat /\ v \in Nat /\ value < v
      /\ count \in Nat /\ count >= 1
      /\ count = (IF v \in LongValues THEN MaxChunks ELSE 1)
      /\ due2 = due \cup {last + i : i \in 1 .. count}
      /\ \A n \in due : told2[n] = told[n]
      /\ \A i \in 1 .. count : /\ told2[last + i].configstring = v
                               /\ told2[last + i].chunk = i
  BY DEF Adds
<1> USE <1>0
<1> DEFINE added == {last + i : i \in 1 .. count}
<1>1. MaxChunks \in Nat /\ MaxChunks > 1
  BY ChunksAssumption
<1>2. ASSUME NEW n \in due
      PROVE  /\ n \in due2 /\ n \in Nat /\ n >= 1 /\ n <= last /\ told2[n] = told[n]
             /\ told[n].configstring \in Nat /\ told[n].chunk \in Nat
  <2>1. n \in 1 .. last /\ n \in due2 /\ told2[n] = told[n]
    OBVIOUS
  <2>2. told[n].configstring \in Nat /\ told[n].chunk \in Nat
    BY DEF Sound
  <2> QED BY <2>1, <2>2
<1>3. ASSUME NEW n \in added
      PROVE  /\ n \in due2 /\ n \in Nat /\ n > last /\ n <= last + count /\ n >= 1
             /\ n - last \in 1 .. count /\ told2[n].configstring = v
             /\ told2[n].chunk = n - last
  <2>1. PICK i \in 1 .. count : n = last + i
    OBVIOUS
  <2>2. n - last = i
    BY <2>1
  <2> QED BY <2>1, <2>2
<1>4. \A n \in due2 : n \in due \/ n \in added
  OBVIOUS
<1>5. ASSUME NEW n \in Nat, n > last, n <= last + count PROVE n \in added
  <2>1. n = last + (n - last) /\ n - last \in 1 .. count
    BY <1>5
  <2> QED BY <2>1
<1> HIDE DEF added
<1>6. Sound(due2, told2)
  <2>1. ASSUME NEW n \in due2
        PROVE  /\ n \in Nat /\ n >= 1
               /\ told2[n].configstring \in Nat /\ told2[n].chunk \in Nat
    <3>1. CASE n \in due
      BY <1>2, <3>1
    <3>2. CASE n \in added
      BY <1>3, <3>2
    <3> QED BY <1>4, <3>1, <3>2
  <2> QED BY <2>1 DEF Sound
<1>7. ASSUME Linked(due, told, had), NEW n \in due2, told2[n].configstring \in LongValues
      PROVE  /\ told2[n].chunk \in 1 .. MaxChunks
             /\ told2[n].chunk < MaxChunks =>
                   /\ n + 1 \in due2
                   /\ told2[n + 1].configstring = told2[n].configstring
                   /\ told2[n + 1].chunk = told2[n].chunk + 1
             /\ (told2[n].chunk > 1 /\ n > 1 /\ n - 1 + MAX_RELIABLE_COMMANDS > had) =>
                   /\ n - 1 \in due2
                   /\ told2[n - 1].configstring = told2[n].configstring
                   /\ told2[n - 1].chunk = told2[n].chunk - 1
  <2>1. CASE n \in due
    <3>1. /\ told[n].chunk \in 1 .. MaxChunks
          /\ told[n].chunk < MaxChunks =>
                /\ n + 1 \in due
                /\ told[n + 1].configstring = told[n].configstring
                /\ told[n + 1].chunk = told[n].chunk + 1
          /\ (told[n].chunk > 1 /\ n > 1 /\ n - 1 + MAX_RELIABLE_COMMANDS > had) =>
                /\ n - 1 \in due
                /\ told[n - 1].configstring = told[n].configstring
                /\ told[n - 1].chunk = told[n].chunk - 1
      BY <1>2, <1>7, <2>1 DEF Linked
    <3> QED BY <1>2, <2>1, <3>1
  <2>2. CASE n \in added
    <3>1. v \in LongValues /\ count = MaxChunks
      BY <1>3, <1>7, <2>2
    <3>2. told2[n].chunk \in 1 .. MaxChunks
      BY <1>3, <2>2, <3>1
    <3>3. ASSUME told2[n].chunk < MaxChunks
          PROVE  /\ n + 1 \in due2
                 /\ told2[n + 1].configstring = told2[n].configstring
                 /\ told2[n + 1].chunk = told2[n].chunk + 1
      <4>1. n + 1 \in added
        BY <1>3, <1>5, <2>2, <3>1, <3>3
      <4> QED BY <1>3, <2>2, <4>1
    <3>4. ASSUME told2[n].chunk > 1
          PROVE  /\ n - 1 \in due2
                 /\ told2[n - 1].configstring = told2[n].configstring
                 /\ told2[n - 1].chunk = told2[n].chunk - 1
      <4>1. n - 1 \in added
        BY <1>3, <1>5, <2>2, <3>4
      <4> QED BY <1>3, <2>2, <4>1
    <3> QED BY <3>2, <3>3, <3>4
  <2> QED BY <1>4, <2>1, <2>2
<1>8. ASSUME Rising(due, told, value) PROVE Rising(due2, told2, v)
  <2>1. ASSUME NEW m \in due2, NEW n \in due2, m < n
        PROVE  told2[m].configstring <= told2[n].configstring
    <3>1. CASE m \in due /\ n \in due
      BY <1>2, <1>8, <2>1, <3>1 DEF Rising
    <3>2. CASE m \in due /\ n \in added
      <4>1. told[m].configstring <= value
        BY <1>8, <3>2 DEF Rising
      <4> QED BY <1>2, <1>3, <3>2, <4>1
    <3>3. CASE m \in added /\ n \in due
      BY <1>2, <1>3, <2>1, <3>3
    <3>4. CASE m \in added /\ n \in added
      BY <1>3, <3>4
    <3> QED BY <1>4, <3>1, <3>2, <3>3, <3>4
  <2>2. ASSUME NEW n \in due2 PROVE told2[n].configstring <= v
    <3>1. CASE n \in due
      <4>1. told[n].configstring <= value
        BY <1>8, <3>1 DEF Rising
      <4> QED BY <1>2, <3>1, <4>1
    <3>2. CASE n \in added
      BY <1>3, <3>2
    <3> QED BY <1>4, <3>1, <3>2
  <2> QED BY <2>1, <2>2 DEF Rising
<1>9. ASSUME NEW n \in 0 .. last, n + 1 \in added PROVE told2[n + 1].chunk = 1
  BY <1>3, <1>9
<1>10. ASSUME NEW n \in 0 .. last, Whole(due, told, n) PROVE Whole(due2, told2, n)
  <2>1. n + 1 \in due => told2[n + 1] = told[n + 1]
    BY <1>2
  <2> QED BY <1>4, <1>9, <1>10, <2>1 DEF Whole
<1>11. ASSUME NEW n \in Nat, NEW w \in Nat, w <= value, Newer(due, told, n, w)
       PROVE  Newer(due2, told2, n, w)
  <2>1. ASSUME NEW k \in due2, k > n PROVE w <= told2[k].configstring
    <3>1. CASE k \in due
      BY <1>2, <1>11, <2>1, <3>1 DEF Newer
    <3>2. CASE k \in added
      BY <1>3, <1>11, <3>2
    <3> QED BY <1>4, <3>1, <3>2
  <2> QED BY <2>1 DEF Newer
<1>12. ASSUME NEW n \in 0 .. last, NEW b, PutTogether(due, told, n, b)
       PROVE  PutTogether(due2, told2, n, b)
  <2> SUFFICES ASSUME n + 1 \in due2, told2[n + 1].configstring \in LongValues,
                      told2[n + 1].chunk > 1
               PROVE  b = [configstring |-> told2[n + 1].configstring,
                           chunk |-> told2[n + 1].chunk - 1]
    BY DEF PutTogether
  <2>1. n + 1 \notin added
    BY <1>9
  <2>2. n + 1 \in due /\ told2[n + 1] = told[n + 1]
    BY <1>2, <1>4, <2>1
  <2> QED BY <1>12, <2>2 DEF PutTogether
<1>13. ASSUME NEW n \in 0 .. last PROVE Brings(due2, told2, n, last + count, v)
  <2>1. last + count \in added /\ n < last + count
    BY <1>5
  <2>2. /\ last + count \in due2 /\ told2[last + count].configstring = v
        /\ told2[last + count].chunk = count
    BY <1>3, <2>1
  <2>3. Ends(told2[last + count])
    BY <2>2 DEF Ends
  <2> QED BY <2>1, <2>2, <2>3 DEF Brings
<1>14. Linked(due, told, had) => Linked(due2, told2, had)
  BY <1>7 DEF Linked
<1> QED BY <1>6, <1>8, <1>10, <1>11, <1>12, <1>13, <1>14, Zenon

(* What is to come after command n has been passed over, if it was not due.*)
LEMMA PassedOver ==
  ASSUME NEW due, NEW told, Sound(due, told), NEW had \in Nat, NEW n \in Nat,
         n >= 1, n + MAX_RELIABLE_COMMANDS > had, n \notin due,
         Linked(due, told, had)
  PROVE  /\ \A v : Newer(due, told, n - 1, v) => Newer(due, told, n, v)
         /\ \A b : PutTogether(due, told, n, b)
         /\ \A mine, v : \A last \in Nat :
              Comes(due, told, had, n - 1, mine, last, v)
                => Comes(due, told, had, n, mine, last, v)
<1>1. MAX_RELIABLE_COMMANDS \in Nat \ {0}
  BY RingAssumption
<1>2. \A k \in due : k \in Nat /\ (k > n - 1 => k > n)
  BY DEF Sound
<1>3. ASSUME NEW v, Newer(due, told, n - 1, v) PROVE Newer(due, told, n, v)
  BY <1>2, <1>3 DEF Newer
<1>4. ASSUME NEW b PROVE PutTogether(due, told, n, b)
  <2> SUFFICES ASSUME n + 1 \in due, told[n + 1].configstring \in LongValues,
                      told[n + 1].chunk > 1
               PROVE  FALSE
    BY DEF PutTogether
  <2>1. n + 1 > 1 /\ n + 1 - 1 = n
    OBVIOUS
  <2>2. n + 1 - 1 \in due
    BY <2>1 DEF Linked
  <2> QED BY <2>1, <2>2
<1>5. ASSUME NEW mine, NEW v, NEW last \in Nat,
             Comes(due, told, had, n - 1, mine, last, v)
      PROVE  Comes(due, told, had, n, mine, last, v)
  <2>1. ~(n - 1 + 1 + MAX_RELIABLE_COMMANDS <= had)
    BY <1>1
  <2>2. CASE v <= mine
    BY <2>2 DEF Comes
  <2>3. CASE Brings(due, told, n - 1, last, v)
    BY <1>2, <2>3 DEF Comes, Brings
  <2> QED BY <1>5, <2>1, <2>2, <2>3 DEF Comes
<1> QED BY <1>3, <1>4, <1>5

(* What is to come after command n has been executed: its value, if it is  *)
(* the last command of it, is the client's, and what has been put together *)
(* of it is its chunk.                                                     *)
LEMMA Executed ==
  ASSUME NEW due, NEW told, Sound(due, told), NEW had \in Nat, NEW n \in due,
         n + MAX_RELIABLE_COMMANDS > had, Linked(due, told, had),
         NEW value \in Nat, Rising(due, told, value),
         NEW mine \in Nat, Newer(due, told, n - 1, mine),
         NEW mine2, NEW b,
         mine2 = (IF Ends(told[n]) THEN told[n].configstring ELSE mine),
         told[n].configstring \in LongValues =>
            b = [configstring |-> told[n].configstring, chunk |-> told[n].chunk]
  PROVE  /\ mine2 \in Nat /\ mine <= mine2 /\ (mine <= value => mine2 <= value)
         /\ Newer(due, told, n, mine2)
         /\ PutTogether(due, told, n, b)
         /\ \A v, last \in Nat :
              Comes(due, told, had, n - 1, mine, last, v)
                => Comes(due, told, had, n, mine2, last, v)
<1>1. MAX_RELIABLE_COMMANDS \in Nat \ {0}
  BY RingAssumption
<1>2. \A k \in due : /\ k \in Nat /\ k >= 1 /\ told[k].configstring \in Nat
                     /\ told[k].chunk \in Nat
  BY DEF Sound
<1>3. told[n].configstring <= value /\ mine <= told[n].configstring
  BY <1>2 DEF Rising, Newer
<1>4. mine2 \in Nat /\ mine <= mine2 /\ (mine <= value => mine2 <= value)
      /\ mine2 <= told[n].configstring
  BY <1>2, <1>3
<1>5. ASSUME NEW k \in due, k > n PROVE mine2 <= told[k].configstring
  <2>1. told[n].configstring <= told[k].configstring
    BY <1>2, <1>5 DEF Rising
  <2> QED BY <1>2, <1>4, <2>1
<1>6. PutTogether(due, told, n, b)
  <2> SUFFICES ASSUME n + 1 \in due, told[n + 1].configstring \in LongValues,
                      told[n + 1].chunk > 1
               PROVE  b = [configstring |-> told[n + 1].configstring,
                           chunk |-> told[n + 1].chunk - 1]
    BY DEF PutTogether
  <2>1. n \in Nat /\ n + 1 > 1 /\ n + 1 - 1 = n
    BY <1>2
  <2>2. /\ told[n + 1 - 1].configstring = told[n + 1].configstring
        /\ told[n + 1 - 1].chunk = told[n + 1].chunk - 1
    BY <2>1 DEF Linked
  <2> QED BY <2>1, <2>2
<1>7. ASSUME NEW v \in Nat, NEW last \in Nat,
             Comes(due, told, had, n - 1, mine, last, v)
      PROVE  Comes(due, told, had, n, mine2, last, v)
  <2>1. ~(n - 1 + 1 + MAX_RELIABLE_COMMANDS <= had)
    BY <1>1, <1>2
  <2>2. CASE v <= mine
    BY <1>4, <2>2 DEF Comes
  <2>3. CASE Brings(due, told, n - 1, last, v)
    <3>1. PICK k \in due : /\ n - 1 < k /\ k <= last /\ Ends(told[k])
                           /\ v <= told[k].configstring
      BY <2>3 DEF Brings
    <3>2. CASE k = n
      <4>1. v <= mine2
        BY <3>1, <3>2
      <4> QED BY <4>1 DEF Comes
    <3>3. CASE k # n
      <4>1. n < k
        BY <1>2, <3>1, <3>3
      <4> QED BY <3>1, <4>1 DEF Comes, Brings
    <3> QED BY <3>2, <3>3
  <2> QED BY <1>7, <2>1, <2>2, <2>3 DEF Comes
<1> QED BY <1>4, <1>5, <1>6, <1>7 DEF Newer

-----------------------------------------------------------------------------
(* Every step keeps the client current, as long as neither end gives up.   *)

(* What the steps below start from.                                        *)
LEMMA CurrentFacts ==
  ASSUME Inv, state # "ZOMBIE", Current
  PROVE  /\ TypeInv /\ Story /\ Window /\ MessagesGenuine /\ MessagesAscend
         /\ Sound(Due, Told) /\ Due \subseteq 1 .. reliableSequence
         /\ CgameBehind /\ ValuesInOrder /\ GoodMessages /\ MapsAgree
         /\ ToldOfThis /\ SnapshotsToCome
<1>1. TypeInv /\ Story
  BY DEF Inv
<1>2. Sound(Due, Told) /\ Due \subseteq 1 .. reliableSequence
  BY <1>1, DueFacts DEF Sound
<1> QED BY <1>1, <1>2 DEF Story, Current

(* A step of the channel to the server, and no other.                      *)
LEMMA WriteCurrent ==
  ASSUME Inv, state # "ZOMBIE", Current, CL_WritePacket
  PROVE  Current'
<1>1. /\ CgameBehind /\ ValuesInOrder /\ GoodMessages /\ MapsAgree
      /\ ToldOfThis /\ SnapshotsToCome /\ TypeInv
  BY CurrentFacts
<1> DEFINE p == [serverId |-> cl.serverId,
                 reliableAcknowledge |-> clc.serverCommandSequence,
                 key |-> clc.serverCommands[Slot(clc.serverCommandSequence)]]
<1>2. /\ toServer' = Append(toServer, p)
      /\ UNCHANGED <<serverVars, toClient, clientVars>>
  BY DEF CL_WritePacket
<1>3. p \in Packet /\ p.serverId = cl.serverId
  <2>1. /\ clc.serverCommandSequence \in Nat /\ cl.serverId \in Nat
        /\ clc.serverCommands \in [Slots -> Text]
    BY <1>1, TypeFacts
  <2>2. clc.serverCommands[Slot(clc.serverCommandSequence)] \in Text
    BY <2>1, SlotInRing
  <2> QED BY <2>1, <2>2 DEF Packet
<1> HIDE DEF p
<1>4. /\ UNCHANGED <<state, reliableSequence, reliableCommands, configstring, serverId>>
      /\ UNCHANGED <<toClient, clc, cl, cgame, bigConfigString>>
  BY <1>2 DEF serverVars, clientVars
<1>5. Told' = Told /\ Due' = Due
  BY <1>4, SameDue
<1>6. CgameBehind' /\ ValuesInOrder'
  BY <1>1, <1>4, <1>5 DEF CgameBehind, ValuesInOrder
<1>7. GoodMessages' /\ ToldOfThis' /\ SnapshotsToCome'
  BY <1>1, <1>4, <1>5 DEF GoodMessages, ToldOfThis, SnapshotsToCome
<1>8. \A i \in DOMAIN toServer' : toServer'[i].serverId <= cl.serverId
  <2>1. /\ DOMAIN toServer = 1 .. Len(toServer) /\ Len(toServer) \in Nat
        /\ DOMAIN toServer' = 1 .. Len(toServer) + 1
        /\ \A i \in 1 .. Len(toServer) : toServer'[i] = toServer[i]
        /\ toServer'[Len(toServer) + 1] = p
    BY <1>1, <1>2, <1>3, TypeFacts, AppendedMessage
  <2>2. cl.serverId \in Nat
    BY <1>1, TypeFacts
  <2> SUFFICES ASSUME NEW i \in DOMAIN toServer'
               PROVE  toServer'[i].serverId <= cl.serverId
    OBVIOUS
  <2>3. CASE i = Len(toServer) + 1
    BY <1>3, <2>1, <2>2, <2>3
  <2>4. CASE i # Len(toServer) + 1
    <3>1. i \in 1 .. Len(toServer)
      BY <2>1, <2>4
    <3>2. toServer[i].serverId <= cl.serverId
      BY <1>1, <2>1, <3>1 DEF MapsAgree
    <3> QED BY <2>1, <3>1, <3>2
  <2> QED BY <2>3, <2>4
<1>9. MapsAgree'
  BY <1>1, <1>4, <1>8 DEF MapsAgree
<1> QED BY <1>6, <1>7, <1>9 DEF Current

(* A message that is lost.                                                 *)
LEMMA LoseCurrent ==
  ASSUME Inv, state # "ZOMBIE", Current, Lose, UNCHANGED <<serverVars, clientVars>>
  PROVE  Current'
<1>1. /\ CgameBehind /\ ValuesInOrder /\ GoodMessages /\ MapsAgree
      /\ ToldOfThis /\ SnapshotsToCome /\ TypeInv
  BY CurrentFacts
<1>2. /\ UNCHANGED <<state, reliableSequence, reliableCommands, configstring, serverId>>
      /\ UNCHANGED <<clc, cl, cgame, bigConfigString>>
  BY DEF serverVars, clientVars
<1>3. Told' = Told /\ Due' = Due
  BY <1>2, SameDue
<1>4. CgameBehind' /\ ValuesInOrder'
  BY <1>1, <1>2, <1>3 DEF CgameBehind, ValuesInOrder
<1>5. toClient' = toClient \/ InOrderFrom(toClient', toClient)
  BY <1>1, TypeFacts, LostInOrder DEF Lose
<1>6. toServer' = toServer \/ InOrderFrom(toServer', toServer)
  BY <1>1, TypeFacts, LostInOrder DEF Lose
<1>7. GoodMessages'
  BY <1>1, <1>2, <1>3, <1>5 DEF GoodMessages, InOrderFrom
<1>8. MapsAgree'
  BY <1>1, <1>2, <1>5, <1>6 DEF MapsAgree, InOrderFrom
<1>9. ToldOfThis'
  BY <1>1, <1>2, <1>3, <1>5 DEF ToldOfThis, InOrderFrom
<1>10. SnapshotsToCome'
  <2>1. ASSUME NEW i \in DOMAIN toClient', IsActive(toClient'[i])
        PROVE  Comes(Due, Told, clc.serverCommandSequence,
                     cgame.serverCommandSequence, cl.configstring,
                     After(toClient'[i]), toClient'[i].configstring)
    BY <1>1, <1>5, <2>1 DEF SnapshotsToCome, InOrderFrom
  <2>2. ASSUME NEW i \in DOMAIN toClient', NEW j \in DOMAIN toClient', i < j,
               IsGamestate(toClient'[i]), IsActive(toClient'[j])
        PROVE  ComesAfter(Due, Told, toClient'[i], After(toClient'[j]),
                          toClient'[j].configstring)
    BY <1>1, <1>5, <2>2 DEF SnapshotsToCome, InOrderFrom
  <2>3. (cl.snap.valid /\ cl.snap.active) =>
          Comes(Due, Told, clc.serverCommandSequence,
                cgame.serverCommandSequence, cl.configstring,
                cl.snap.serverCommandNum, cl.snap.configstring)
    BY <1>1 DEF SnapshotsToCome
  <2> QED BY <1>2, <1>3, <2>1, <2>2, <2>3 DEF SnapshotsToCome
<1> QED BY <1>4, <1>7, <1>8, <1>9, <1>10 DEF Current

(* A new map, of which nobody is told.                                     *)
LEMMA SpawnCurrent ==
  ASSUME Inv, Current, SV_SpawnServer
  PROVE  Current'
<1>0. state # "ZOMBIE"
  BY DEF SV_SpawnServer
<1>1. /\ CgameBehind /\ ValuesInOrder /\ GoodMessages /\ MapsAgree
      /\ ToldOfThis /\ SnapshotsToCome /\ TypeInv /\ Sound(Due, Told)
  BY <1>0, CurrentFacts
<1>2. /\ serverId' = serverId + 1 /\ configstring' = configstring + 1
      /\ state' = "CONNECTED"
      /\ UNCHANGED <<reliableSequence, reliableCommands, toClient, toServer>>
      /\ UNCHANGED <<clc, cl, cgame, bigConfigString>>
  BY DEF SV_SpawnServer, clientVars
<1>3. Told' = Told /\ Due' = Due
  BY <1>2, SameDue
<1>4. serverId \in Nat /\ configstring \in Nat /\ cl.serverId \in Nat
      /\ cl.configstring \in Nat
  BY <1>1, TypeFacts
<1>5. ASSUME NEW i \in DOMAIN toClient, IsGamestate(toClient[i])
      PROVE  toClient[i].serverId \in Nat /\ toClient[i].configstring \in Nat
  <2>1. toClient[i] \in Message /\ toClient[i].kind = "gamestate"
    BY <1>1, <1>5, InFlight DEF IsGamestate
  <2> QED BY <2>1, MessageFields
<1>6. CgameBehind' /\ SnapshotsToCome'
  BY <1>1, <1>2, <1>3 DEF CgameBehind, SnapshotsToCome
<1>7. ValuesInOrder'
  <2>1. Rising(Due, Told, configstring + 1)
    BY <1>1, <1>4 DEF ValuesInOrder, Rising, Sound
  <2>2. cl.configstring <= configstring + 1
    BY <1>1, <1>4 DEF ValuesInOrder
  <2> QED BY <1>1, <1>2, <1>3, <2>1, <2>2 DEF ValuesInOrder
<1>8. GoodMessages'
  <2>1. ASSUME NEW i \in DOMAIN toClient
        PROVE  GoodMessage(toClient[i], Due, Told, configstring + 1,
                           cl.serverId, serverId + 1)
    <3>1. GoodMessage(toClient[i], Due, Told, configstring, cl.serverId, serverId)
      BY <1>1 DEF GoodMessages
    <3> QED BY <1>4, <1>5, <3>1 DEF GoodMessage
  <2> QED BY <1>1, <1>2, <1>3, <2>1 DEF GoodMessages
<1>9. MapsAgree'
  <2>1. cl.serverId <= serverId + 1 /\ cl.serverId # serverId + 1
    BY <1>1, <1>4 DEF MapsAgree
  <2>2. ASSUME NEW i \in DOMAIN toClient, IsGamestate(toClient[i])
        PROVE  toClient[i].serverId # serverId + 1
    BY <1>1, <1>4, <1>5, <2>2 DEF GoodMessages, GoodMessage
  <2> QED BY <1>1, <1>2, <2>1, <2>2 DEF MapsAgree
<1>10. ToldOfThis'
  BY <1>2 DEF ToldOfThis
<1> QED BY <1>6, <1>7, <1>8, <1>9, <1>10 DEF Current

(* The cgame runs a snapshot: its configstring has come.                   *)
LEMMA RunCurrent ==
  ASSUME CurrentInv, RunSnapshot
  PROVE  /\ ConfigstringCurrent'
         /\ state # "ZOMBIE" => Current'
<1>1. /\ UNCHANGED <<serverVars, toClient, toServer, clc, cl, bigConfigString>>
      /\ cgame' = [cgame EXCEPT !.snap = cl.snap, !.running = TRUE]
      /\ cgame.serverCommandSequence >= cl.snap.serverCommandNum
      /\ ~clientError /\ cl.snap.valid
  BY DEF RunSnapshot, SnapshotReady
<1>2. /\ state' = state /\ serverId' = serverId /\ configstring' = configstring
      /\ reliableSequence' = reliableSequence /\ reliableCommands' = reliableCommands
  BY <1>1 DEF serverVars
<1>3. TypeInv
  BY DEF CurrentInv, Inv
<1>4. /\ cgame'.serverCommandSequence = cgame.serverCommandSequence
      /\ cgame'.snap = cl.snap
  <2>1. cgame \in [running : BOOLEAN, serverCommandSequence : Nat,
                   snap : [valid : BOOLEAN, serverCommandNum : Nat, after : Nat,
                           configstring : Nat, active : BOOLEAN]]
    BY <1>3 DEF TypeInv, TypeOK
  <2> QED BY <1>1, <2>1
<1>5. ASSUME state # "ZOMBIE" PROVE Current'
  <2>1. /\ CgameBehind /\ ValuesInOrder /\ GoodMessages /\ MapsAgree
        /\ ToldOfThis /\ SnapshotsToCome
    BY <1>1, <1>5, CurrentFacts DEF CurrentInv
  <2>2. Told' = Told /\ Due' = Due
    BY <1>1, <1>2, SameDue
  <2>3. CgameBehind' /\ ValuesInOrder'
    BY <1>1, <1>2, <1>4, <2>1, <2>2 DEF CgameBehind, ValuesInOrder
  <2>4. GoodMessages' /\ MapsAgree'
    BY <1>1, <1>2, <1>4, <2>1, <2>2 DEF GoodMessages, MapsAgree
  <2>5. ToldOfThis' /\ SnapshotsToCome'
    BY <1>1, <1>2, <1>4, <2>1, <2>2 DEF ToldOfThis, SnapshotsToCome
  <2> QED BY <2>3, <2>4, <2>5 DEF Current
<1>6. ConfigstringCurrent'
  <2> SUFFICES ASSUME state # "ZOMBIE", cl.snap.active
               PROVE  cl.configstring >= cl.snap.configstring
    BY <1>1, <1>2, <1>4 DEF ConfigstringCurrent
  <2>1. SnapshotsToCome /\ Sound(Due, Told)
    BY <1>1, CurrentFacts DEF CurrentInv
  <2>2. Comes(Due, Told, clc.serverCommandSequence, cgame.serverCommandSequence,
              cl.configstring, cl.snap.serverCommandNum, cl.snap.configstring)
    BY <1>1, <2>1 DEF SnapshotsToCome
  <2>3. cgame.serverCommandSequence \in Nat /\ cl.snap.serverCommandNum \in Nat
    BY <1>3, TypeFacts
  <2>4. ~(cgame.serverCommandSequence < cl.snap.serverCommandNum)
    BY <1>1, <2>3
  <2>5. ~Brings(Due, Told, cgame.serverCommandSequence, cl.snap.serverCommandNum,
                cl.snap.configstring)
    BY <1>1, <2>1, <2>3 DEF Brings, Sound
  <2>6. cl.snap.configstring <= cl.configstring
    BY <2>2, <2>4, <2>5 DEF Comes
  <2> QED BY <2>6
<1> QED BY <1>5, <1>6

(* A message that is sent after all commands joins those in flight.        *)
LEMMA JoinCurrent ==
  ASSUME Inv, state # "ZOMBIE", Current, NEW m \in Message,
         After(m) = reliableSequence, toClient' = Append(toClient, m),
         UNCHANGED <<reliableSequence, reliableCommands, configstring, serverId>>,
         UNCHANGED <<clc, cl, cgame, bigConfigString>>,
         IsGamestate(m) => m.configstring = configstring /\ m.serverId = serverId,
         IsActive(m) =>
           /\ Comes(Due, Told, clc.serverCommandSequence, cgame.serverCommandSequence,
                    cl.configstring, reliableSequence, m.configstring)
           /\ \A i \in DOMAIN toClient : IsGamestate(toClient[i]) =>
                ComesAfter(Due, Told, toClient[i], reliableSequence, m.configstring)
  PROVE  CgameBehind' /\ ValuesInOrder' /\ GoodMessages' /\ SnapshotsToCome'
         /\ Due' = Due /\ Told' = Told
         /\ DOMAIN toClient = 1 .. Len(toClient) /\ Len(toClient) \in Nat
         /\ DOMAIN toClient' = 1 .. Len(toClient) + 1
         /\ \A i \in 1 .. Len(toClient) : toClient'[i] = toClient[i]
         /\ toClient'[Len(toClient) + 1] = m
<1>1. /\ CgameBehind /\ ValuesInOrder /\ GoodMessages /\ MapsAgree
      /\ ToldOfThis /\ SnapshotsToCome /\ TypeInv /\ Due \subseteq 1 .. reliableSequence
  BY CurrentFacts
<1>2. Told' = Told /\ Due' = Due
  BY SameDue
<1>3. /\ DOMAIN toClient = 1 .. Len(toClient) /\ Len(toClient) \in Nat
      /\ DOMAIN toClient' = 1 .. Len(toClient) + 1
      /\ \A i \in 1 .. Len(toClient) : toClient'[i] = toClient[i]
      /\ toClient'[Len(toClient) + 1] = m
  BY <1>1, TypeFacts, AppendedMessage
<1>4. /\ reliableSequence \in Nat /\ serverId \in Nat /\ configstring \in Nat
      /\ cl.serverId \in Nat
  BY <1>1, TypeFacts
<1>5. CgameBehind' /\ ValuesInOrder'
  BY <1>1, <1>2 DEF CgameBehind, ValuesInOrder
<1>6. \A i \in DOMAIN toClient' :
        (i \in 1 .. Len(toClient) /\ toClient'[i] = toClient[i])
          \/ (i = Len(toClient) + 1 /\ toClient'[i] = m)
  BY <1>3
<1>7. GoodMessages'
  <2>1. GoodMessage(m, Due, Told, configstring, cl.serverId, serverId)
    <3>1. reliableSequence + 1 \notin Due
      BY <1>1, <1>4
    <3>2. Whole(Due, Told, After(m))
      BY <3>1 DEF Whole
    <3>3. ASSUME IsGamestate(m)
          PROVE  /\ Newer(Due, Told, m.sequence, m.configstring)
                 /\ m.configstring <= configstring
                 /\ cl.serverId <= m.serverId /\ m.serverId <= serverId
      <4>1. m.sequence = reliableSequence
        BY <3>3 DEF IsGamestate, After
      <4>2. \A k \in Due : ~(k > reliableSequence)
        BY <1>1, <1>4
      <4> QED BY <1>1, <1>4, <3>3, <4>1, <4>2 DEF Newer, MapsAgree
    <3> QED BY <3>2, <3>3 DEF GoodMessage
  <2>2. \A i \in 1 .. Len(toClient) :
          GoodMessage(toClient[i], Due, Told, configstring, cl.serverId, serverId)
    BY <1>1, <1>3 DEF GoodMessages
  <2>3. \A i \in DOMAIN toClient' :
          GoodMessage(toClient'[i], Due, Told, configstring, cl.serverId, serverId)
    BY <1>6, <2>1, <2>2
  <2>4. ASSUME NEW i \in DOMAIN toClient', NEW j \in DOMAIN toClient', i < j,
               IsGamestate(toClient'[i]), IsGamestate(toClient'[j])
        PROVE  toClient'[i].serverId <= toClient'[j].serverId
    <3>1. i \in 1 .. Len(toClient) /\ toClient'[i] = toClient[i]
      BY <1>3, <2>4
    <3>2. CASE j = Len(toClient) + 1
      <4>1. toClient[i].serverId <= serverId
        BY <2>2, <2>4, <3>1 DEF GoodMessage
      <4> QED BY <1>3, <2>4, <3>1, <3>2, <4>1
    <3>3. CASE j \in 1 .. Len(toClient)
      BY <1>1, <1>3, <2>4, <3>1, <3>3 DEF GoodMessages
    <3> QED BY <1>6, <3>2, <3>3
  <2> QED BY <1>2, <2>3, <2>4 DEF GoodMessages
<1>8. SnapshotsToCome'
  <2>1. ASSUME NEW i \in DOMAIN toClient', IsActive(toClient'[i])
        PROVE  Comes(Due, Told, clc.serverCommandSequence,
                     cgame.serverCommandSequence, cl.configstring,
                     After(toClient'[i]), toClient'[i].configstring)
    <3>1. CASE i = Len(toClient) + 1
      BY <1>3, <2>1, <3>1
    <3>2. CASE i \in 1 .. Len(toClient)
      BY <1>1, <1>3, <2>1, <3>2 DEF SnapshotsToCome
    <3> QED BY <1>6, <3>1, <3>2
  <2>2. ASSUME NEW i \in DOMAIN toClient', NEW j \in DOMAIN toClient', i < j,
               IsGamestate(toClient'[i]), IsActive(toClient'[j])
        PROVE  ComesAfter(Due, Told, toClient'[i], After(toClient'[j]),
                          toClient'[j].configstring)
    <3>1. i \in 1 .. Len(toClient) /\ toClient'[i] = toClient[i]
      BY <1>3, <2>2
    <3>2. CASE j = Len(toClient) + 1
      BY <1>3, <2>2, <3>1, <3>2
    <3>3. CASE j \in 1 .. Len(toClient)
      BY <1>1, <1>3, <2>2, <3>1, <3>3 DEF SnapshotsToCome
    <3> QED BY <1>6, <3>2, <3>3
  <2>3. (cl.snap.valid /\ cl.snap.active) =>
          Comes(Due, Told, clc.serverCommandSequence,
                cgame.serverCommandSequence, cl.configstring,
                cl.snap.serverCommandNum, cl.snap.configstring)
    BY <1>1 DEF SnapshotsToCome
  <2> QED BY <1>2, <2>1, <2>2, <2>3 DEF SnapshotsToCome
<1> QED BY <1>2, <1>3, <1>5, <1>7, <1>8

(* A snapshot is sent.                                                     *)
LEMMA SnapshotCurrent ==
  ASSUME Inv, state # "ZOMBIE", Current, SV_SendClientSnapshot
  PROVE  Current'
<1> DEFINE m == [commands |-> Pending(reliableAcknowledge), kind |-> "snapshot",
                 after |-> reliableSequence, configstring |-> configstring,
                 active |-> state = "ACTIVE"]
<1>1. /\ CgameBehind /\ ValuesInOrder /\ GoodMessages /\ MapsAgree
      /\ ToldOfThis /\ SnapshotsToCome /\ TypeInv
  BY CurrentFacts
<1>2. /\ reliableSequence \in Nat /\ reliableAcknowledge \in Nat
      /\ reliableCommands \in [Slots -> Text] /\ configstring \in Nat
      /\ serverId \in Nat /\ cl.serverId \in Nat
  BY <1>1, TypeFacts
<1>3. /\ toClient' = Append(toClient, m)
      /\ UNCHANGED <<serverVars, toServer, clientVars>>
  BY DEF SV_SendClientSnapshot
<1>4. m \in Message
  <2>1. Pending(reliableAcknowledge) \in Seq(Numbered)
    BY <1>2, PendingCommands
  <2>2. (state = "ACTIVE") \in BOOLEAN
    OBVIOUS
  <2> QED BY <1>2, <2>1, <2>2, MessageTypes
<1>5. /\ After(m) = reliableSequence /\ ~IsGamestate(m)
      /\ m.configstring = configstring /\ (IsActive(m) => state = "ACTIVE")
  BY DEF After, IsGamestate, IsActive
<1> HIDE DEF m
<1>6. /\ UNCHANGED <<state, toServer, reliableSequence, reliableCommands>>
      /\ UNCHANGED <<configstring, serverId, clc, cl, cgame, bigConfigString>>
  BY <1>3 DEF serverVars, clientVars
<1>7. ASSUME IsActive(m)
      PROVE  /\ Comes(Due, Told, clc.serverCommandSequence,
                      cgame.serverCommandSequence, cl.configstring,
                      reliableSequence, m.configstring)
             /\ \A i \in DOMAIN toClient : IsGamestate(toClient[i]) =>
                  ComesAfter(Due, Told, toClient[i], reliableSequence, m.configstring)
  <2>1. state = "ACTIVE" /\ cl.serverId = serverId
    BY <1>1, <1>5, <1>7 DEF MapsAgree
  <2>2. ASSUME NEW i \in DOMAIN toClient, IsGamestate(toClient[i])
        PROVE  toClient[i].serverId = serverId
    <3>1. toClient[i] \in Message /\ toClient[i].kind = "gamestate"
      BY <1>1, <2>2, InFlight DEF IsGamestate
    <3>2. toClient[i].serverId \in Nat
      BY <3>1, MessageFields
    <3>3. GoodMessage(toClient[i], Due, Told, configstring, cl.serverId, serverId)
      BY <1>1 DEF GoodMessages
    <3> QED BY <1>2, <2>1, <2>2, <3>2, <3>3 DEF GoodMessage
  <2> QED BY <1>1, <1>5, <2>1, <2>2 DEF ToldOfThis
<1>8. /\ CgameBehind' /\ ValuesInOrder' /\ GoodMessages' /\ SnapshotsToCome'
      /\ Due' = Due /\ Told' = Told
      /\ DOMAIN toClient = 1 .. Len(toClient)
      /\ DOMAIN toClient' = 1 .. Len(toClient) + 1
      /\ \A i \in 1 .. Len(toClient) : toClient'[i] = toClient[i]
      /\ toClient'[Len(toClient) + 1] = m /\ Len(toClient) \in Nat
  BY <1>3, <1>4, <1>5, <1>6, <1>7, JoinCurrent
<1>9. ASSUME NEW i \in DOMAIN toClient', IsGamestate(toClient'[i])
      PROVE  i \in DOMAIN toClient /\ toClient'[i] = toClient[i]
  BY <1>5, <1>8, <1>9
<1>10. MapsAgree'
  BY <1>1, <1>6, <1>9 DEF MapsAgree
<1>11. ToldOfThis'
  BY <1>1, <1>6, <1>8, <1>9 DEF ToldOfThis
<1> QED BY <1>8, <1>10, <1>11 DEF Current

(* A packet is executed: the client may enter the world, if it has this    *)
(* map's gamestate, or be sent the gamestate.                              *)
LEMMA ExecuteCurrent ==
  ASSUME Inv, Current, SV_ExecuteClientMessage
  PROVE  Current'
<1> DEFINE p == toServer[1]
           b == p.reliableAcknowledge
           m == [commands |-> Pending(b), kind |-> "gamestate",
                 sequence |-> reliableSequence, configstring |-> configstring,
                 serverId |-> serverId]
<1>0. state # "ZOMBIE" /\ toServer # <<>>
  BY DEF SV_ExecuteClientMessage
<1>1. /\ CgameBehind /\ ValuesInOrder /\ GoodMessages /\ MapsAgree
      /\ ToldOfThis /\ SnapshotsToCome /\ TypeInv
  BY <1>0, CurrentFacts
<1>2. /\ reliableSequence \in Nat /\ reliableCommands \in [Slots -> Text]
      /\ configstring \in Nat /\ serverId \in Nat /\ cl.serverId \in Nat
      /\ toServer \in Seq(Packet)
      /\ state \in {"CONNECTED", "PRIMED", "ACTIVE", "ZOMBIE"}
  BY <1>1, TypeFacts
<1>3. /\ Head(toServer) = p /\ 1 \in DOMAIN toServer
      /\ InOrderFrom(Tail(toServer), toServer)
  BY <1>0, <1>2, TailOfMessages, TakenInOrder
<1>4. b \in Nat /\ p.serverId \in Nat /\ p.serverId <= cl.serverId
  BY <1>1, <1>3, InFlight DEF MapsAgree
<1>5. /\ toServer' = Tail(toServer)
      /\ UNCHANGED <<reliableSequence, reliableCommands, configstring, serverId>>
      /\ UNCHANGED <<clc, cl, cgame, bigConfigString>>
      /\ \/ state' = state /\ toClient' = toClient
         \/ p.serverId = serverId /\ state = "PRIMED" /\ state' = "ACTIVE"
            /\ toClient' = toClient
         \/ state' = "PRIMED" /\ toClient' = Append(toClient, m)
  BY <1>3 DEF SV_ExecuteClientMessage, ExecuteInRange, EnterWorld,
     SV_SendClientGameState, clientVars
<1>6. \A i \in DOMAIN toServer' : toServer'[i].serverId <= cl.serverId
  BY <1>1, <1>3, <1>5 DEF MapsAgree, InOrderFrom
<1>7. Told' = Told /\ Due' = Due
  BY <1>5, SameDue
<1>8. CASE state' = state /\ toClient' = toClient
  <2>1. CgameBehind' /\ ValuesInOrder' /\ GoodMessages'
    BY <1>1, <1>5, <1>7, <1>8 DEF CgameBehind, ValuesInOrder, GoodMessages
  <2>2. MapsAgree'
    BY <1>1, <1>5, <1>6, <1>8 DEF MapsAgree
  <2>3. ToldOfThis' /\ SnapshotsToCome'
    BY <1>1, <1>5, <1>7, <1>8 DEF ToldOfThis, SnapshotsToCome
  <2> QED BY <2>1, <2>2, <2>3 DEF Current
<1>9. CASE p.serverId = serverId /\ state = "PRIMED" /\ state' = "ACTIVE"
           /\ toClient' = toClient
  <2>1. CgameBehind' /\ ValuesInOrder' /\ GoodMessages'
    BY <1>1, <1>5, <1>7, <1>9 DEF CgameBehind, ValuesInOrder, GoodMessages
  <2>2. cl.serverId = serverId
    BY <1>1, <1>2, <1>4, <1>9 DEF MapsAgree
  <2>3. MapsAgree'
    BY <1>1, <1>5, <1>6, <1>9, <2>2 DEF MapsAgree
  <2>4. ToldOfThis' /\ SnapshotsToCome'
    BY <1>1, <1>5, <1>7, <1>9 DEF ToldOfThis, SnapshotsToCome
  <2> QED BY <2>1, <2>3, <2>4 DEF Current
<1>10. CASE state' = "PRIMED" /\ toClient' = Append(toClient, m)
  <2>1. m \in Message
    <3> HIDE DEF b
    <3>1. Pending(b) \in Seq(Numbered)
      BY <1>2, <1>4, PendingCommands
    <3> QED BY <1>2, <3>1, MessageTypes
  <2>2. /\ After(m) = reliableSequence /\ ~IsActive(m)
        /\ m.configstring = configstring /\ m.serverId = serverId
    BY DEF After, IsActive
  <2> HIDE DEF m
  <2>3. /\ CgameBehind' /\ ValuesInOrder' /\ GoodMessages' /\ SnapshotsToCome'
        /\ DOMAIN toClient = 1 .. Len(toClient)
        /\ DOMAIN toClient' = 1 .. Len(toClient) + 1
        /\ \A i \in 1 .. Len(toClient) : toClient'[i] = toClient[i]
        /\ toClient'[Len(toClient) + 1] = m /\ Len(toClient) \in Nat
    BY <1>0, <1>5, <1>10, <2>1, <2>2, JoinCurrent
  <2>4. MapsAgree'
    BY <1>1, <1>5, <1>6, <1>10 DEF MapsAgree
  <2>5. ToldOfThis'
    <3>1. cl.serverId = serverId =>
            Comes(Due, Told, clc.serverCommandSequence,
                  cgame.serverCommandSequence, cl.configstring,
                  reliableSequence, configstring)
      BY <1>1 DEF ToldOfThis, MapsAgree
    <3>2. ASSUME NEW i \in DOMAIN toClient', IsGamestate(toClient'[i]),
                 toClient'[i].serverId = serverId
          PROVE  ComesAfter(Due, Told, toClient'[i], reliableSequence, configstring)
      <4>1. CASE i = Len(toClient) + 1
        <5>1. configstring <= m.configstring
          BY <1>2, <2>2
        <5> QED BY <2>3, <4>1, <5>1 DEF ComesAfter
      <4>2. CASE i # Len(toClient) + 1
        <5>1. i \in DOMAIN toClient /\ toClient'[i] = toClient[i]
          BY <2>3, <4>2
        <5>2. state # "CONNECTED"
          BY <1>1, <3>2, <5>1 DEF MapsAgree
        <5> QED BY <1>1, <3>2, <5>1, <5>2 DEF ToldOfThis
      <4> QED BY <4>1, <4>2
    <3> QED BY <1>5, <1>7, <3>1, <3>2 DEF ToldOfThis
  <2> QED BY <2>3, <2>4, <2>5 DEF Current
<1> QED BY <1>5, <1>8, <1>9, <1>10

(* What is due stays as it is, but for new commands that bring nothing.    *)
LEMMA SameValues ==
  ASSUME NEW due, NEW told, NEW told2, Sound(due, told),
         \A n \in due : told2[n] = told[n], NEW had \in Nat
  PROVE  Linked(due, told, had) => Linked(due, told2, had)
<1> SUFFICES ASSUME Linked(due, told, had), NEW n \in due,
                    told2[n].configstring \in LongValues
             PROVE  /\ told2[n].chunk \in 1 .. MaxChunks
                    /\ told2[n].chunk < MaxChunks =>
                          /\ n + 1 \in due
                          /\ told2[n + 1].configstring = told2[n].configstring
                          /\ told2[n + 1].chunk = told2[n].chunk + 1
                    /\ (told2[n].chunk > 1 /\ n > 1
                        /\ n - 1 + MAX_RELIABLE_COMMANDS > had) =>
                          /\ n - 1 \in due
                          /\ told2[n - 1].configstring = told2[n].configstring
                          /\ told2[n - 1].chunk = told2[n].chunk - 1
  BY DEF Linked
<1> QED BY DEF Linked

(* A command about something else is added.                                *)
LEMMA SendCommandCurrent ==
  ASSUME Inv, Current, SV_SendServerCommand, state' # "ZOMBIE"
  PROVE  Current'
<1>0. state # "ZOMBIE"
  BY DEF SV_SendServerCommand
<1>1. /\ CgameBehind /\ ValuesInOrder /\ GoodMessages /\ MapsAgree
      /\ ToldOfThis /\ SnapshotsToCome /\ TypeInv /\ Window
      /\ Sound(Due, Told) /\ Due \subseteq 1 .. reliableSequence
  BY <1>0, CurrentFacts
<1>2. /\ reliableSequence \in Nat /\ reliableAcknowledge \in Nat
      /\ reliableCommands \in [Slots -> Text] /\ MAX_RELIABLE_COMMANDS \in Nat
      /\ state \in {"CONNECTED", "PRIMED", "ACTIVE", "ZOMBIE"}
      /\ clc.serverCommandSequence \in Nat /\ cgame.serverCommandSequence \in Nat
      /\ cl.snap.serverCommandNum \in Nat
  BY <1>1, TypeFacts
<1>3. /\ <<Other>> \in Seq(Subject) /\ <<Other>> # <<>> /\ Len(<<Other>>) = 1
      /\ <<Other>>[1] = Other /\ Other.configstring = 0
  BY DEF Other, Subject
<1>4. /\ SV_AddServerCommand(<<Other>>)
      /\ UNCHANGED <<configstring, serverId, toClient, toServer>>
      /\ UNCHANGED <<clc, cl, cgame, bigConfigString>>
  BY DEF SV_SendServerCommand, clientVars
<1>5. /\ reliableSequence' = reliableSequence + 1
      /\ reliableSequence' <= reliableAcknowledge + MAX_RELIABLE_COMMANDS
      /\ reliableCommands' = Put(reliableCommands, reliableSequence, <<Other>>)
  <2>1. reliableSequence <= reliableAcknowledge + MAX_RELIABLE_COMMANDS
    BY <1>1 DEF Window
  <2> QED BY <1>2, <1>3, <1>4, <2>1, AddType
<1>6. state' = state
  BY <1>4 DEF SV_AddServerCommand
<1>7. /\ \A n \in 1 .. reliableSequence : n \in Due' <=> n \in Due
      /\ \A n \in Due : Told'[n] = Told[n]
      /\ \A i \in 1 .. 1 :
           reliableSequence + i \in Due' <=> <<Other>>[i].configstring # 0
      /\ Due' \subseteq 1 .. reliableSequence + 1
  BY <1>1, <1>3, <1>4, <1>5, AddedDue
<1>8. Due' = Due
  <2>1. reliableSequence + 1 \notin Due'
    BY <1>3, <1>7
  <2>2. ASSUME NEW n \in Due' PROVE n \in Due
    <3>1. n \in 1 .. reliableSequence + 1 /\ n # reliableSequence + 1
      BY <1>7, <2>1
    <3>2. n \in 1 .. reliableSequence
      BY <1>2, <3>1
    <3> QED BY <1>7, <3>2
  <2>3. ASSUME NEW n \in Due PROVE n \in Due'
    BY <1>1, <1>7
  <2> QED BY <2>2, <2>3
<1> DEFINE told2 == Told'
<1>9. \A n \in Due : told2[n] = Told[n]
  BY <1>7
<1> HIDE DEF told2
<1>10. /\ \A v : Rising(Due, Told, v) => Rising(Due, told2, v)
       /\ \A n : Whole(Due, Told, n) => Whole(Due, told2, n)
       /\ \A n, v : Newer(Due, Told, n, v) => Newer(Due, told2, n, v)
       /\ \A n, b : PutTogether(Due, Told, n, b) => PutTogether(Due, told2, n, b)
  BY <1>9, FewerDue
<1>11. Linked(Due, Told, clc.serverCommandSequence)
         => Linked(Due, told2, clc.serverCommandSequence)
  BY <1>1, <1>2, <1>9, SameValues
<1>12. ASSUME NEW last \in Nat, NEW last2 \in Nat, last <= last2
       PROVE  /\ \A had, n \in Nat : \A mine, v :
                   Comes(Due, Told, had, n, mine, last, v)
                     => Comes(Due, told2, had, n, mine, last2, v)
              /\ \A m, v : ComesAfter(Due, Told, m, last, v)
                             => ComesAfter(Due, told2, m, last2, v)
  <2>1. \A n \in Due : n \in Nat /\ told2[n] = Told[n]
    BY <1>1, <1>9 DEF Sound
  <2> QED BY <1>12, <2>1, MoreComes
<1>13. CgameBehind'
  BY <1>1, <1>4 DEF CgameBehind
<1>14. ValuesInOrder'
  BY <1>1, <1>4, <1>8, <1>10, <1>11 DEF ValuesInOrder, told2
<1>15. GoodMessages'
  <2>1. ASSUME NEW i \in DOMAIN toClient
        PROVE  GoodMessage(toClient[i], Due, told2, configstring, cl.serverId, serverId)
    <3>1. GoodMessage(toClient[i], Due, Told, configstring, cl.serverId, serverId)
      BY <1>1 DEF GoodMessages
    <3> QED BY <1>10, <3>1 DEF GoodMessage
  <2> QED BY <1>1, <1>4, <1>8, <2>1 DEF GoodMessages, told2
<1>16. MapsAgree'
  BY <1>1, <1>4, <1>6 DEF MapsAgree
<1>17. reliableSequence <= reliableSequence + 1 /\ reliableSequence + 1 \in Nat
  BY <1>2
<1>18. ToldOfThis'
  BY <1>1, <1>2, <1>4, <1>5, <1>6, <1>8, <1>12, <1>17 DEF ToldOfThis, told2
<1>19. SnapshotsToCome'
  <2>1. \A i \in DOMAIN toClient : After(toClient[i]) \in Nat
    BY <1>1, InFlight
  <2>2. \A k \in Nat : k <= k
    OBVIOUS
  <2>3. ASSUME NEW last \in Nat
        PROVE  /\ \A had, n \in Nat : \A mine, v :
                    Comes(Due, Told, had, n, mine, last, v)
                      => Comes(Due, told2, had, n, mine, last, v)
               /\ \A m, v : ComesAfter(Due, Told, m, last, v)
                              => ComesAfter(Due, told2, m, last, v)
    BY <1>12, <2>2
  <2> QED BY <1>1, <1>2, <1>4, <1>8, <2>1, <2>3 DEF SnapshotsToCome, told2
<1> QED BY <1>13, <1>14, <1>15, <1>16, <1>18, <1>19 DEF Current

(* The configstring changes, and the client is told of it if it is to be.  *)
LEMMA SetConfigstringCurrent ==
  ASSUME Inv, Current, SV_SetConfigstring, state' # "ZOMBIE"
  PROVE  Current'
<1> DEFINE v == configstring + 1
           count == IF v \in LongValues THEN MaxChunks ELSE 1
           texts == Chunks(v)
<1>0. state # "ZOMBIE"
  BY DEF SV_SetConfigstring
<1>1. /\ CgameBehind /\ ValuesInOrder /\ GoodMessages /\ MapsAgree
      /\ ToldOfThis /\ SnapshotsToCome /\ TypeInv /\ Window /\ MessagesGenuine
      /\ Sound(Due, Told) /\ Due \subseteq 1 .. reliableSequence
  BY <1>0, CurrentFacts
<1>2. /\ reliableSequence \in Nat /\ reliableAcknowledge \in Nat
      /\ reliableCommands \in [Slots -> Text] /\ MAX_RELIABLE_COMMANDS \in Nat
      /\ state \in {"CONNECTED", "PRIMED", "ACTIVE", "ZOMBIE"}
      /\ clc.serverCommandSequence \in Nat /\ cgame.serverCommandSequence \in Nat
      /\ cl.snap.serverCommandNum \in Nat /\ configstring \in Nat
      /\ cl.configstring \in Nat
  BY <1>1, TypeFacts
<1>3. /\ configstring' = v
      /\ IF ToldOfChanges THEN SV_AddServerCommand(texts)
         ELSE UNCHANGED <<state, reliableSequence, reliableCommands>>
      /\ UNCHANGED <<serverId, toClient, toServer>>
      /\ UNCHANGED <<clc, cl, cgame, bigConfigString>>
  BY DEF SV_SetConfigstring, clientVars
<1>4. v \in Nat /\ configstring < v /\ count \in Nat /\ count >= 1
  BY <1>2, ChunksAssumption
<1>5. \A i \in DOMAIN toClient : IsGamestate(toClient[i]) =>
        /\ toClient[i].sequence = After(toClient[i])
        /\ toClient[i].configstring \in Nat
  BY <1>1, InFlight, MessageFields DEF IsGamestate
<1>6. cl.configstring <= configstring
  BY <1>1 DEF ValuesInOrder
<1>7. CgameBehind'
  BY <1>1, <1>3 DEF CgameBehind
<1>8. CASE ~ToldOfChanges
  <2>1. state' = state /\ UNCHANGED <<reliableSequence, reliableCommands>>
    BY <1>3, <1>8
  <2>2. state = "CONNECTED"
    BY <1>0, <1>2, <1>8 DEF ToldOfChanges
  <2>3. Told' = Told /\ Due' = Due
    BY <1>3, <2>1, SameDue
  <2>4. Rising(Due, Told, v)
    BY <1>1, <1>2 DEF ValuesInOrder, Rising, Sound
  <2>5. ValuesInOrder'
    BY <1>1, <1>2, <1>3, <1>6, <2>3, <2>4 DEF ValuesInOrder
  <2>6. ASSUME NEW i \in DOMAIN toClient
        PROVE  GoodMessage(toClient[i], Due, Told, v, cl.serverId, serverId)
    <3>1. GoodMessage(toClient[i], Due, Told, configstring, cl.serverId, serverId)
      BY <1>1 DEF GoodMessages
    <3> QED BY <1>2, <1>5, <3>1 DEF GoodMessage
  <2> HIDE DEF v
  <2>7. GoodMessages'
    BY <1>1, <1>3, <2>3, <2>6 DEF GoodMessages
  <2>8. MapsAgree' /\ ToldOfThis' /\ SnapshotsToCome'
    BY <1>1, <1>3, <2>1, <2>2, <2>3 DEF MapsAgree, ToldOfThis, SnapshotsToCome
  <2> QED BY <1>7, <2>5, <2>7, <2>8 DEF Current
<1>9. CASE ToldOfChanges
  <2>1. /\ texts \in Seq(Subject) /\ texts # <<>> /\ Len(texts) = count
        /\ \A i \in 1 .. count : texts[i] = [configstring |-> v, chunk |-> i]
    <3>1. texts = [i \in 1 .. count |-> [configstring |-> v, chunk |-> i]]
      BY DEF Chunks
    <3> HIDE DEF count, texts
    <3>2. texts \in [1 .. count -> Subject]
      BY <1>4, <3>1 DEF Subject
    <3>3. texts \in Seq(Subject) /\ Len(texts) = count
      BY <1>4, <3>2, FunctionIsSeq
    <3>4. texts # <<>>
      BY <1>4, <3>3, EmptySeq
    <3> QED BY <3>1, <3>3, <3>4
  <2> HIDE DEF texts, count, v
  <2>2. /\ reliableSequence' = reliableSequence + count
        /\ reliableSequence' <= reliableAcknowledge + MAX_RELIABLE_COMMANDS
        /\ reliableCommands' = Put(reliableCommands, reliableSequence, texts)
    <3>1. reliableSequence <= reliableAcknowledge + MAX_RELIABLE_COMMANDS
      BY <1>1 DEF Window
    <3> QED BY <1>2, <1>3, <1>9, <2>1, <3>1, AddType
  <2>3. state' = state
    BY <1>3, <1>9 DEF SV_AddServerCommand
  <2>4. /\ \A n \in 1 .. reliableSequence : n \in Due' <=> n \in Due
        /\ \A n \in Due : Told'[n] = Told[n]
        /\ \A i \in 1 .. count :
             /\ Told'[reliableSequence + i] = Command(reliableSequence + i, texts[i])
             /\ reliableSequence + i \in Due' <=> texts[i].configstring # 0
        /\ Due' \subseteq 1 .. reliableSequence + count
    BY <1>1, <1>3, <2>1, <2>2, AddedDue
  <2> DEFINE told2 == Told'
             due2 == Due'
             had == clc.serverCommandSequence
  <2>5. \A n \in Due : told2[n] = Told[n]
    BY <2>4
  <2>6. \A i \in 1 .. count : /\ told2[reliableSequence + i].configstring = v
                              /\ told2[reliableSequence + i].chunk = i
    <3>1. \A i \in 1 .. count :
            told2[reliableSequence + i] = Command(reliableSequence + i, texts[i])
      BY <2>4
    <3> HIDE DEF told2
    <3> SUFFICES ASSUME NEW i \in 1 .. count
                 PROVE  /\ told2[reliableSequence + i].configstring = v
                        /\ told2[reliableSequence + i].chunk = i
      OBVIOUS
    <3>2. told2[reliableSequence + i] = Command(reliableSequence + i, texts[i])
      BY <3>1
    <3>3. texts[i].configstring = v /\ texts[i].chunk = i
      BY <2>1
    <3> QED BY <3>2, <3>3 DEF Command
  <2>7. due2 = Due \cup {reliableSequence + i : i \in 1 .. count}
    <3>1. \A n \in 1 .. reliableSequence : n \in due2 <=> n \in Due
      BY <2>4
    <3>2. \A i \in 1 .. count : reliableSequence + i \in due2
      <4>1. \A i \in 1 .. count :
              reliableSequence + i \in due2 <=> texts[i].configstring # 0
        BY <2>4
      <4>2. v # 0
        BY <1>2 DEF v
      <4> HIDE DEF due2
      <4> QED BY <2>1, <4>1, <4>2
    <3>3. due2 \subseteq 1 .. reliableSequence + count
      BY <2>4
    <3> HIDE DEF due2, told2
    <3>4. ASSUME NEW n \in due2
          PROVE  n \in Due \cup {reliableSequence + i : i \in 1 .. count}
      <4>1. CASE n \in 1 .. reliableSequence
        BY <3>1, <4>1
      <4>2. CASE n \notin 1 .. reliableSequence
        <5>1. n - reliableSequence \in 1 .. count
              /\ n = reliableSequence + (n - reliableSequence)
          BY <1>2, <1>4, <3>3, <4>2
        <5> QED BY <5>1
      <4> QED BY <4>1, <4>2
    <3>5. Due \subseteq due2
      BY <1>1, <3>1
    <3> QED BY <3>2, <3>4, <3>5
  <2> HIDE DEF told2, due2
  <2>8. had \in Nat /\ had <= reliableSequence
    BY <1>1, <1>2 DEF Window
  <2>9. /\ Linked(Due, Told, had) => Linked(due2, told2, had)
        /\ Rising(Due, Told, configstring) => Rising(due2, told2, v)
        /\ \A n \in 0 .. reliableSequence : Whole(Due, Told, n) => Whole(due2, told2, n)
        /\ \A n, w \in Nat : (w <= configstring /\ Newer(Due, Told, n, w))
                               => Newer(due2, told2, n, w)
        /\ \A n \in 0 .. reliableSequence : \A b :
             PutTogether(Due, Told, n, b) => PutTogether(due2, told2, n, b)
        /\ \A n \in 0 .. reliableSequence :
             Brings(due2, told2, n, reliableSequence + count, v)
    <3>1. count = (IF v \in LongValues THEN MaxChunks ELSE 1)
      BY DEF count
    <3> HIDE DEF had
    <3>2. /\ Sound(Due, Told) /\ Due \subseteq 1 .. reliableSequence
          /\ reliableSequence \in Nat /\ configstring \in Nat
          /\ v \in Nat /\ configstring < v /\ count \in Nat /\ count >= 1
      BY <1>1, <1>2, <1>4
    <3>3. Adds(Due, due2, Told, told2, had, reliableSequence, configstring, v, count)
      BY <2>5, <2>6, <2>7, <2>8, <3>1, <3>2 DEF Adds
    <3> QED BY <3>3, ValueDue
  <2>10. cgame.serverCommandSequence \in 0 .. reliableSequence
    BY <1>1, <1>2, <2>8 DEF CgameBehind
  <2>11. ValuesInOrder'
    <3>1. /\ Linked(due2, told2, had) /\ Rising(due2, told2, v)
          /\ Whole(due2, told2, had)
      BY <1>1, <2>8, <2>9 DEF ValuesInOrder
    <3>2. /\ Newer(due2, told2, cgame.serverCommandSequence, cl.configstring)
          /\ PutTogether(due2, told2, cgame.serverCommandSequence, bigConfigString)
      BY <1>1, <1>2, <1>6, <2>9, <2>10 DEF ValuesInOrder
    <3>3. cl.configstring <= v
      BY <1>2, <1>4, <1>6
    <3> QED BY <1>3, <3>1, <3>2, <3>3 DEF ValuesInOrder, due2, told2
  <2>12. GoodMessages'
    <3>1. ASSUME NEW i \in DOMAIN toClient
          PROVE  GoodMessage(toClient[i], due2, told2, v, cl.serverId, serverId)
      <4>1. GoodMessage(toClient[i], Due, Told, configstring, cl.serverId, serverId)
        BY <1>1 DEF GoodMessages
      <4>2. After(toClient[i]) \in 0 .. reliableSequence
        <5>1. After(toClient[i]) \in Nat
          BY <1>1, InFlight
        <5>2. After(toClient[i]) <= reliableSequence
          BY <1>1 DEF MessagesGenuine, GenuineMessage
        <5> QED BY <1>2, <5>1, <5>2
      <4>3. Whole(due2, told2, After(toClient[i]))
        BY <2>9, <4>1, <4>2 DEF GoodMessage
      <4>4. ASSUME IsGamestate(toClient[i])
            PROVE  /\ Newer(due2, told2, toClient[i].sequence, toClient[i].configstring)
                   /\ toClient[i].configstring <= v
        <5>1. toClient[i].sequence \in Nat /\ toClient[i].configstring \in Nat
          BY <1>5, <4>2, <4>4
        <5>2. /\ Newer(Due, Told, toClient[i].sequence, toClient[i].configstring)
              /\ toClient[i].configstring <= configstring
          BY <4>1, <4>4 DEF GoodMessage
        <5> QED BY <1>2, <1>4, <2>9, <5>1, <5>2
      <4> QED BY <4>1, <4>3, <4>4 DEF GoodMessage
    <3> QED BY <1>1, <1>3, <3>1 DEF GoodMessages, due2, told2
  <2>13. MapsAgree'
    BY <1>1, <1>3, <2>3 DEF MapsAgree
  <2>14. ToldOfThis'
    <3>1. Comes(due2, told2, had, cgame.serverCommandSequence, cl.configstring,
                reliableSequence + count, v)
      BY <2>9, <2>10 DEF Comes
    <3>2. ASSUME NEW i \in DOMAIN toClient, IsGamestate(toClient[i])
          PROVE  ComesAfter(due2, told2, toClient[i], reliableSequence + count, v)
      <4>1. toClient[i].sequence \in 0 .. reliableSequence
        <5>1. After(toClient[i]) \in Nat
          BY <1>1, InFlight
        <5>2. After(toClient[i]) <= reliableSequence
          BY <1>1 DEF MessagesGenuine, GenuineMessage
        <5> QED BY <1>2, <1>5, <3>2, <5>1, <5>2
      <4> QED BY <2>9, <4>1 DEF ComesAfter
    <3> QED BY <1>3, <2>2, <3>1, <3>2 DEF ToldOfThis, due2, told2
  <2>15. SnapshotsToCome'
    <3>1. \A n \in Due : n \in Nat /\ told2[n] = Told[n]
      BY <1>1, <2>5 DEF Sound
    <3>2. Due \subseteq due2 /\ \A k \in Nat : k <= k
      BY <2>7
    <3>3. ASSUME NEW last \in Nat
          PROVE  /\ \A h, n \in Nat : \A mine, w :
                      Comes(Due, Told, h, n, mine, last, w)
                        => Comes(due2, told2, h, n, mine, last, w)
                 /\ \A m, w : ComesAfter(Due, Told, m, last, w)
                                => ComesAfter(due2, told2, m, last, w)
      BY <3>1, <3>2, MoreComes
    <3>4. \A i \in DOMAIN toClient : After(toClient[i]) \in Nat
      BY <1>1, InFlight
    <3> QED BY <1>1, <1>2, <1>3, <3>3, <3>4 DEF SnapshotsToCome, due2, told2
  <2> QED BY <1>7, <2>11, <2>12, <2>13, <2>14, <2>15 DEF Current
<1> QED BY <1>8, <1>9

(* The cgame takes the next command: it executes it, passes over a bad one,*)
(* or finds that it has left the ring, which is an error.                  *)
LEMMA GetCurrent ==
  ASSUME CurrentInv, CL_GetServerCommand
  PROVE  /\ ConfigstringCurrent'
         /\ (state # "ZOMBIE" /\ ~clientError') => Current'
<1> DEFINE n == cgame.serverCommandSequence + 1
           text == clc.serverCommands[Slot(n)]
           had == clc.serverCommandSequence
<1>1. TypeInv /\ ConfigstringCurrent /\ Inv
  BY DEF CurrentInv, Inv
<1>2. /\ clc \in [serverCommandSequence : Nat, serverCommands : [Slots -> Text],
                  serverCommandsBad : [Slots -> BOOLEAN],
                  lastExecutedServerCommand : Nat]
      /\ cgame \in [running : BOOLEAN, serverCommandSequence : Nat,
                    snap : [valid : BOOLEAN, serverCommandNum : Nat, after : Nat,
                            configstring : Nat, active : BOOLEAN]]
  BY <1>1 DEF TypeInv, TypeOK, Text
<1>3. cl \in [serverId : Nat, configstring : Nat,
              snap : [valid : BOOLEAN, serverCommandNum : Nat, after : Nat,
                      configstring : Nat, active : BOOLEAN]]
  BY <1>1 DEF TypeInv, TypeOK
<1>4. /\ n \in Nat /\ n >= 1 /\ cgame.serverCommandSequence \in Nat
      /\ n - 1 = cgame.serverCommandSequence
      /\ n = cgame.serverCommandSequence + 1 /\ had \in Nat
      /\ reliableSequence \in Nat /\ MAX_RELIABLE_COMMANDS \in Nat \ {0}
      /\ configstring \in Nat /\ cl.configstring \in Nat
      /\ cl.snap.serverCommandNum \in Nat
  BY <1>1, <1>2, TypeFacts
<1>5. /\ ~clientError /\ cl.snap.valid /\ n <= cl.snap.serverCommandNum
      /\ cgame' = [cgame EXCEPT !.serverCommandSequence = n, !.running = TRUE]
      /\ UNCHANGED <<serverVars, toClient, toServer>>
      /\ \/ clientError' = TRUE /\ UNCHANGED <<clc, cl, bigConfigString>>
         \/ /\ n + MAX_RELIABLE_COMMANDS > had /\ clc.serverCommandsBad[Slot(n)]
            /\ UNCHANGED <<clc, cl, bigConfigString>>
         \/ /\ n + MAX_RELIABLE_COMMANDS > had /\ ~clc.serverCommandsBad[Slot(n)]
            /\ clc' = [clc EXCEPT !.lastExecutedServerCommand = n]
            /\ IF text.configstring = 0 THEN UNCHANGED <<cl, bigConfigString>>
               ELSE ConfigstringCommand(text)
  BY DEF CL_GetServerCommand, SnapshotReady
<1> HIDE DEF n, text, had
<1>6. /\ cgame'.serverCommandSequence = n /\ cgame'.snap = cgame.snap
      /\ UNCHANGED <<state, reliableSequence, reliableCommands, configstring, serverId>>
  BY <1>2, <1>4, <1>5 DEF serverVars
<1>7. /\ clc'.serverCommandSequence = had /\ clc'.serverCommands = clc.serverCommands
      /\ clc'.serverCommandsBad = clc.serverCommandsBad
      /\ \/ clc'.lastExecutedServerCommand = clc.lastExecutedServerCommand
         \/ clc'.lastExecutedServerCommand = n
  BY <1>2, <1>5 DEF had
<1>8. ASSUME state # "ZOMBIE", n + MAX_RELIABLE_COMMANDS > had
      PROVE  /\ CgameBehind' /\ n <= had /\ n \in 1 .. reliableSequence
             /\ Told' = Told /\ Due' = Due /\ Told[n] = text
             /\ n \in Due <=> (~clc.serverCommandsBad[Slot(n)] /\ text.configstring # 0)
  <2>1. CgameBehind /\ Window
    BY <1>1, <1>5, <1>8, CurrentFacts DEF CurrentInv
  <2>2. n <= had /\ had <= reliableSequence
    BY <1>4, <1>5, <2>1 DEF CgameBehind, Window, had
  <2>3. n \in 1 .. reliableSequence
    BY <1>4, <2>2
  <2>4. Told' = Told /\ Due' = Due
    BY <1>6, <1>7, SameDue DEF had
  <2>5. Told[n] = text
    BY <2>2, <2>3 DEF Told, TextOf, text, had
  <2>6. n \in Due <=> (~clc.serverCommandsBad[Slot(n)] /\ text.configstring # 0)
    BY <1>8, <2>2, <2>3, <2>5 DEF Due, had
  <2>7. cl'.snap.valid => cl'.snap.serverCommandNum <= had
    <3>1. cl'.snap = cl.snap
      BY <1>3, <1>5 DEF ConfigstringCommand
    <3> QED BY <2>1, <3>1 DEF CgameBehind, had
  <2>8. CgameBehind'
    <3>1. clc.lastExecutedServerCommand <= cgame.serverCommandSequence
      BY <2>1 DEF CgameBehind
    <3>2. clc'.lastExecutedServerCommand <= n
      <4>1. clc.lastExecutedServerCommand \in Nat
        BY <1>1, TypeFacts
      <4> QED BY <1>4, <1>7, <3>1, <4>1
    <3> QED BY <1>6, <1>7, <2>2, <2>7, <3>2 DEF CgameBehind
  <2> QED BY <2>2, <2>3, <2>4, <2>5, <2>6, <2>8
<1>9. ASSUME state # "ZOMBIE"
      PROVE  /\ CgameBehind /\ ValuesInOrder /\ GoodMessages /\ MapsAgree
             /\ ToldOfThis /\ SnapshotsToCome /\ Sound(Due, Told)
             /\ Linked(Due, Told, had) /\ Rising(Due, Told, configstring)
             /\ Newer(Due, Told, n - 1, cl.configstring)
             /\ PutTogether(Due, Told, n - 1, bigConfigString)
             /\ cl.configstring <= configstring
  BY <1>1, <1>4, <1>5, <1>9, CurrentFacts DEF CurrentInv, ValuesInOrder, had
<1>10. ASSUME state # "ZOMBIE", n + MAX_RELIABLE_COMMANDS > had, CgameBehind',
              cl'.configstring <= configstring, cl'.serverId = cl.serverId,
              cl'.snap = cl.snap, Told' = Told, Due' = Due,
              Newer(Due, Told, n, cl'.configstring),
              PutTogether(Due, Told, n, bigConfigString'),
              \A v, last \in Nat :
                Comes(Due, Told, had, n - 1, cl.configstring, last, v)
                  => Comes(Due, Told, had, n, cl'.configstring, last, v)
       PROVE  Current'
  <2>1. ValuesInOrder'
    BY <1>6, <1>7, <1>9, <1>10 DEF ValuesInOrder, had
  <2>2. toClient' = toClient /\ toServer' = toServer
    BY <1>5
  <2>3. GoodMessages' /\ MapsAgree'
    BY <1>6, <1>9, <1>10, <2>2 DEF GoodMessages, MapsAgree
  <2>4. ToldOfThis'
    BY <1>4, <1>6, <1>7, <1>9, <1>10, <2>2 DEF ToldOfThis, had
  <2>5. SnapshotsToCome'
    <3>1. ASSUME NEW i \in DOMAIN toClient, IsActive(toClient[i])
          PROVE  Comes(Due, Told, had, n, cl'.configstring, After(toClient[i]),
                       toClient[i].configstring)
      <4>1. toClient[i] \in Message /\ toClient[i].kind = "snapshot"
        BY <1>1, <3>1, InFlight DEF IsActive
      <4>2. After(toClient[i]) \in Nat /\ toClient[i].configstring \in Nat
        BY <4>1, MessageFields
      <4>3. Comes(Due, Told, had, n - 1, cl.configstring, After(toClient[i]),
                  toClient[i].configstring)
        BY <1>4, <1>9, <1>10, <3>1 DEF SnapshotsToCome, had
      <4> QED BY <1>10, <4>2, <4>3
    <3>2. (cl.snap.valid /\ cl.snap.active) =>
            Comes(Due, Told, had, n, cl'.configstring, cl.snap.serverCommandNum,
                  cl.snap.configstring)
      <4>1. cl.snap.configstring \in Nat
        BY <1>3
      <4>2. (cl.snap.valid /\ cl.snap.active) =>
              Comes(Due, Told, had, n - 1, cl.configstring,
                    cl.snap.serverCommandNum, cl.snap.configstring)
        BY <1>4, <1>9, <1>10 DEF SnapshotsToCome, had
      <4> QED BY <1>4, <1>10, <4>1, <4>2
    <3>3. \A i, j \in DOMAIN toClient :
            (i < j /\ IsGamestate(toClient[i]) /\ IsActive(toClient[j])) =>
              ComesAfter(Due, Told, toClient[i], After(toClient[j]),
                         toClient[j].configstring)
      BY <1>9, <1>10 DEF SnapshotsToCome
    <3> QED BY <1>6, <1>7, <1>10, <2>2, <3>1, <3>2, <3>3 DEF SnapshotsToCome
  <2> QED BY <1>10, <2>1, <2>3, <2>4, <2>5 DEF Current
<1>11. CASE clientError' = TRUE /\ UNCHANGED <<clc, cl, bigConfigString>>
  BY <1>1, <1>6, <1>11 DEF ConfigstringCurrent
<1>12. CASE /\ n + MAX_RELIABLE_COMMANDS > had
            /\ clc.serverCommandsBad[Slot(n)] \/ text.configstring = 0
            /\ cl' = cl /\ bigConfigString' = bigConfigString
  <2>1. ConfigstringCurrent'
    BY <1>1, <1>6, <1>12 DEF ConfigstringCurrent
  <2>2. ASSUME state # "ZOMBIE" PROVE Current'
    <3>1. /\ n \notin Due /\ CgameBehind' /\ Told' = Told /\ Due' = Due
      BY <1>8, <1>12, <2>2
    <3>2. /\ \A v : Newer(Due, Told, n - 1, v) => Newer(Due, Told, n, v)
          /\ \A b : PutTogether(Due, Told, n, b)
          /\ \A mine, v : \A last \in Nat :
               Comes(Due, Told, had, n - 1, mine, last, v)
                 => Comes(Due, Told, had, n, mine, last, v)
      BY <1>4, <1>9, <1>12, <2>2, <3>1, PassedOver
    <3> QED BY <1>9, <1>10, <1>12, <2>2, <3>1, <3>2
  <2> QED BY <2>1, <2>2
<1>13. CASE /\ n + MAX_RELIABLE_COMMANDS > had /\ ~clc.serverCommandsBad[Slot(n)]
            /\ text.configstring # 0 /\ ConfigstringCommand(text)
  <2>1. ASSUME state # "ZOMBIE" PROVE Current' /\ cl'.configstring >= cl.configstring
    <3>1. /\ n \in Due /\ CgameBehind' /\ Told' = Told /\ Due' = Due /\ Told[n] = text
      BY <1>8, <1>13, <2>1
    <3>2. text.configstring \in Nat /\ text.chunk \in Nat
      BY <1>9, <2>1, <3>1 DEF Sound
    <3>3. text.configstring \in LongValues =>
            bigConfigString' = [configstring |-> text.configstring, chunk |-> text.chunk]
      <4> SUFFICES ASSUME text.configstring \in LongValues
                   PROVE  bigConfigString' =
                            [configstring |-> text.configstring, chunk |-> text.chunk]
        OBVIOUS
      <4>1. bigConfigString' = Appended(text)
        BY <1>13 DEF ConfigstringCommand
      <4>2. CASE text.chunk = 1
        BY <4>1, <4>2 DEF Appended
      <4>3. CASE text.chunk # 1
        <5>1. text.chunk > 1
          BY <1>9, <2>1, <3>1, <3>2, <4>3 DEF Linked
        <5>2. n - 1 + 1 = n
          BY <1>4
        <5>3. bigConfigString = [configstring |-> text.configstring,
                                 chunk |-> text.chunk - 1]
          BY <1>9, <2>1, <3>1, <5>1, <5>2 DEF PutTogether
        <5> QED BY <4>1, <5>3 DEF Appended
      <4> QED BY <4>2, <4>3
    <3>4. text.configstring \in LongValues => text.chunk <= MaxChunks
      BY <1>9, <2>1, <3>1 DEF Linked
    <3>5. /\ cl'.configstring = (IF Ends(text) THEN text.configstring
                                 ELSE cl.configstring)
          /\ cl'.snap = cl.snap /\ cl'.serverId = cl.serverId
      <4>1. CASE text.configstring \in LongValues
        <5>1. text.chunk < MaxChunks <=> ~Ends(text)
          BY <3>2, <3>4, <4>1, ChunksAssumption DEF Ends
        <5>2. bigConfigString'.configstring = text.configstring
          BY <3>3, <4>1
        <5> QED BY <1>3, <1>13, <4>1, <5>1, <5>2 DEF ConfigstringCommand
      <4>2. CASE text.configstring \notin LongValues
        BY <1>3, <1>13, <4>2 DEF ConfigstringCommand, Ends
      <4> QED BY <4>1, <4>2
    <3> DEFINE mine == cl'.configstring
               big == bigConfigString'
    <3>6. /\ mine = (IF Ends(Told[n]) THEN Told[n].configstring ELSE cl.configstring)
          /\ Told[n].configstring \in LongValues =>
               big = [configstring |-> Told[n].configstring, chunk |-> Told[n].chunk]
      BY <3>1, <3>3, <3>5
    <3> HIDE DEF mine, big
    <3>7. /\ mine \in Nat /\ cl.configstring <= mine
          /\ (cl.configstring <= configstring => mine <= configstring)
          /\ Newer(Due, Told, n, mine) /\ PutTogether(Due, Told, n, big)
          /\ \A v, last \in Nat :
               Comes(Due, Told, had, n - 1, cl.configstring, last, v)
                 => Comes(Due, Told, had, n, mine, last, v)
      BY <1>4, <1>9, <1>13, <2>1, <3>1, <3>6, Executed
    <3>8. Current'
      BY <1>9, <1>10, <1>13, <2>1, <3>1, <3>5, <3>7 DEF mine, big
    <3>9. mine >= cl.configstring
      BY <1>4, <3>7
    <3> QED BY <3>8, <3>9 DEF mine
  <2>2. ASSUME state # "ZOMBIE", cgame.snap.valid, cgame.snap.active
        PROVE  cl'.configstring >= cgame.snap.configstring
    <3>1. cl.configstring >= cgame.snap.configstring
      BY <1>1, <2>2 DEF ConfigstringCurrent
    <3>2. cl'.configstring >= cl.configstring
      BY <2>1, <2>2
    <3>3. cgame.snap.configstring \in Nat
      BY <1>2
    <3>4. TypeInv'
      BY <1>1, GetStep DEF Inv
    <3>5. cl'.configstring \in Nat
      <4>1. cl' \in [serverId : Nat, configstring : Nat,
                     snap : [valid : BOOLEAN, serverCommandNum : Nat, after : Nat,
                             configstring : Nat, active : BOOLEAN]]
        BY <3>4 DEF TypeInv, TypeOK
      <4> QED BY <4>1
    <3> QED BY <1>4, <3>1, <3>2, <3>3, <3>5
  <2> QED BY <1>6, <2>1, <2>2 DEF ConfigstringCurrent
<1> QED BY <1>5, <1>11, <1>12, <1>13

(* The client parses a snapshot: it has then all the commands it follows.  *)
LEMMA ParseSnapshotCurrent ==
  ASSUME CurrentInv, CL_ParseServerMessage, state # "ZOMBIE",
         toClient[1].kind = "snapshot"
  PROVE  Current'
<1> DEFINE m == toClient[1]
           had == clc.serverCommandSequence
           had2 == After(m)
           at == cgame.serverCommandSequence
           due2 == Due'
           told2 == Told'
<1>1. toClient # <<>> /\ ~clientError /\ Inv /\ Current
  BY DEF CL_ParseServerMessage, CurrentInv
<1>2. /\ CgameBehind /\ ValuesInOrder /\ GoodMessages /\ MapsAgree
      /\ ToldOfThis /\ SnapshotsToCome /\ TypeInv /\ MessagesAscend /\ Window
      /\ Sound(Due, Told)
  BY <1>1, CurrentFacts
<1>3. /\ 1 \in DOMAIN toClient /\ m \in Message
      /\ clc'.lastExecutedServerCommand = clc.lastExecutedServerCommand
      /\ toClient' = Tail(toClient) /\ cgame' = cgame
      /\ \/ cl' = [cl EXCEPT !.snap =
                     [valid |-> TRUE, after |-> m.after, active |-> m.active,
                      serverCommandNum |-> clc'.serverCommandSequence,
                      configstring |-> m.configstring]]
         \/ cl' = cl
      /\ UNCHANGED <<serverVars, toServer, bigConfigString>>
  BY <1>1, <1>2, ParsedConnection
<1>4. /\ clc'.serverCommandSequence = had2 /\ had <= had2 /\ had2 <= reliableSequence
      /\ due2 = {n \in Due : n + MAX_RELIABLE_COMMANDS > had2}
      /\ \A n \in due2 : told2[n] = Told[n]
  BY <1>1, ParsedDue
<1>5. /\ cl \in [serverId : Nat, configstring : Nat,
                 snap : [valid : BOOLEAN, serverCommandNum : Nat, after : Nat,
                         configstring : Nat, active : BOOLEAN]]
      /\ had \in Nat /\ had2 \in Nat /\ at \in Nat /\ reliableSequence \in Nat
      /\ toClient \in Seq(Message) /\ cl.snap.serverCommandNum \in Nat
      /\ clc.lastExecutedServerCommand \in Nat
  BY <1>2, <1>3, TypeFacts, InFlight DEF TypeInv, TypeOK
<1>6. /\ cl'.serverId = cl.serverId /\ cl'.configstring = cl.configstring
      /\ \/ /\ cl'.snap.valid /\ cl'.snap.active = m.active
            /\ cl'.snap.serverCommandNum = had2
            /\ cl'.snap.configstring = m.configstring
         \/ cl'.snap = cl.snap
  BY <1>3, <1>4, <1>5
<1>7. /\ UNCHANGED <<state, reliableSequence, configstring, serverId>>
      /\ toServer' = toServer /\ bigConfigString' = bigConfigString /\ cgame' = cgame
  BY <1>3 DEF serverVars
<1> HIDE DEF due2, told2, had, had2, at, m
<1>8. due2 \subseteq Due
  BY <1>4
<1>9. /\ \A v : Rising(Due, Told, v) => Rising(due2, told2, v)
      /\ \A n : Whole(Due, Told, n) => Whole(due2, told2, n)
      /\ \A n, v : Newer(Due, Told, n, v) => Newer(due2, told2, n, v)
      /\ \A n, b : PutTogether(Due, Told, n, b) => PutTogether(due2, told2, n, b)
  BY <1>4, <1>8, FewerDue
<1>10. /\ Linked(Due, Told, had) => Linked(due2, told2, had2)
       /\ \A n, last \in Nat : \A mine, v :
            Comes(Due, Told, had, n, mine, last, v)
              => Comes(due2, told2, had2, n, mine, last, v)
       /\ \A m2, last, v :
            (m2.sequence \in Nat /\ had2 <= m2.sequence
               /\ ComesAfter(Due, Told, m2, last, v))
              => ComesAfter(due2, told2, m2, last, v)
  <2>1. Parsed(Due, due2, Told, told2, had, had2)
    BY <1>2, <1>4, <1>5 DEF Parsed
  <2> QED BY <1>4, <2>1, SnapshotDue
<1>11. /\ InOrderFrom(toClient', toClient)
       /\ \A i \in DOMAIN toClient' :
            /\ \E k \in DOMAIN toClient : toClient'[i] = toClient[k]
            /\ IsGamestate(toClient'[i]) =>
                 /\ toClient'[i].sequence \in Nat
                 /\ had2 <= toClient'[i].sequence
  <2>1. InOrderFrom(toClient', toClient)
    BY <1>1, <1>3, <1>5, TakenInOrder
  <2>2. ASSUME NEW i \in DOMAIN toClient'
        PROVE  /\ \E k \in DOMAIN toClient : toClient'[i] = toClient[k]
               /\ IsGamestate(toClient'[i]) =>
                    /\ toClient'[i].sequence \in Nat
                    /\ had2 <= toClient'[i].sequence
    <3>1. /\ i + 1 \in DOMAIN toClient /\ toClient'[i] = toClient[i + 1]
      BY <1>1, <1>3, <1>5, TailOfMessages
    <3>2. 1 < i + 1
      <4>1. Tail(toClient) \in Seq(Message)
        BY <1>1, <1>5, TailOfMessages
      <4>2. i \in Nat /\ i > 0
        BY <1>3, <4>1, LenProperties
      <4> QED BY <4>2
    <3>3. had2 <= After(toClient[i + 1])
      BY <1>2, <1>3, <3>1, <3>2 DEF MessagesAscend, had2, m
    <3>4. After(toClient[i + 1]) \in Nat
      BY <1>2, <3>1, InFlight
    <3> QED BY <3>1, <3>3, <3>4 DEF IsGamestate, After
  <2> QED BY <2>1, <2>2
<1>12. CgameBehind'
  <2>1. at <= had2 /\ clc.lastExecutedServerCommand <= at
    BY <1>2, <1>4, <1>5 DEF CgameBehind, at, had
  <2>2. cl'.snap.valid => cl'.snap.serverCommandNum <= had2
    BY <1>2, <1>4, <1>5, <1>6 DEF CgameBehind, had
  <2> QED BY <1>3, <1>4, <2>1, <2>2 DEF CgameBehind, at
<1>13. ValuesInOrder'
  <2>1. Whole(Due, Told, had2)
    BY <1>2, <1>3 DEF GoodMessages, GoodMessage, had2, m
  <2>2. /\ Linked(due2, told2, had2) /\ Rising(due2, told2, configstring)
        /\ Whole(due2, told2, had2) /\ Newer(due2, told2, at, cl.configstring)
        /\ PutTogether(due2, told2, at, bigConfigString)
        /\ cl.configstring <= configstring
    BY <1>2, <1>9, <1>10, <2>1 DEF ValuesInOrder, had, at
  <2> QED BY <1>4, <1>6, <1>7, <2>2 DEF ValuesInOrder, due2, told2, at
<1>14. GoodMessages'
  <2>1. ASSUME NEW k \in DOMAIN toClient
        PROVE  GoodMessage(toClient[k], due2, told2, configstring, cl.serverId, serverId)
    <3>1. GoodMessage(toClient[k], Due, Told, configstring, cl.serverId, serverId)
      BY <1>2 DEF GoodMessages
    <3> QED BY <1>9, <3>1 DEF GoodMessage
  <2>2. \A i \in DOMAIN toClient' :
          GoodMessage(toClient'[i], due2, told2, configstring, cl.serverId, serverId)
    BY <1>11, <2>1
  <2>3. \A i, j \in DOMAIN toClient' :
          (i < j /\ IsGamestate(toClient'[i]) /\ IsGamestate(toClient'[j])) =>
             toClient'[i].serverId <= toClient'[j].serverId
    BY <1>2, <1>11 DEF GoodMessages, InOrderFrom
  <2> QED BY <1>6, <1>7, <2>2, <2>3 DEF GoodMessages, due2, told2
<1>15. MapsAgree'
  BY <1>2, <1>6, <1>7, <1>11 DEF MapsAgree
<1>16. ToldOfThis'
  <2> SUFFICES ASSUME state # "CONNECTED"
               PROVE  /\ cl.serverId = serverId =>
                           Comes(due2, told2, had2, at, cl.configstring,
                                 reliableSequence, configstring)
                      /\ \A i \in DOMAIN toClient' :
                           (IsGamestate(toClient'[i])
                              /\ toClient'[i].serverId = serverId) =>
                             ComesAfter(due2, told2, toClient'[i], reliableSequence,
                                        configstring)
    BY <1>4, <1>6, <1>7 DEF ToldOfThis, due2, told2, at
  <2>1. cl.serverId = serverId =>
          Comes(due2, told2, had2, at, cl.configstring, reliableSequence, configstring)
    BY <1>2, <1>5, <1>10 DEF ToldOfThis, had, at
  <2>2. ASSUME NEW i \in DOMAIN toClient', IsGamestate(toClient'[i]),
               toClient'[i].serverId = serverId
        PROVE  ComesAfter(due2, told2, toClient'[i], reliableSequence, configstring)
    <3>1. ComesAfter(Due, Told, toClient'[i], reliableSequence, configstring)
      BY <1>2, <1>11, <2>2 DEF ToldOfThis
    <3> QED BY <1>10, <1>11, <2>2, <3>1
  <2> QED BY <2>1, <2>2
<1>17. SnapshotsToCome'
  <2>1. ASSUME NEW k \in DOMAIN toClient, IsActive(toClient[k])
        PROVE  Comes(due2, told2, had2, at, cl.configstring, After(toClient[k]),
                     toClient[k].configstring)
    <3>1. After(toClient[k]) \in Nat
      BY <1>2, InFlight
    <3>2. Comes(Due, Told, had, at, cl.configstring, After(toClient[k]),
                toClient[k].configstring)
      BY <1>2, <2>1 DEF SnapshotsToCome, had, at
    <3> QED BY <1>5, <1>10, <3>1, <3>2
  <2>2. \A i \in DOMAIN toClient' : IsActive(toClient'[i]) =>
          Comes(due2, told2, had2, at, cl.configstring, After(toClient'[i]),
                toClient'[i].configstring)
    BY <1>11, <2>1
  <2>3. ASSUME NEW i \in DOMAIN toClient', NEW j \in DOMAIN toClient', i < j,
               IsGamestate(toClient'[i]), IsActive(toClient'[j])
        PROVE  ComesAfter(due2, told2, toClient'[i], After(toClient'[j]),
                          toClient'[j].configstring)
    <3>1. ComesAfter(Due, Told, toClient'[i], After(toClient'[j]),
                     toClient'[j].configstring)
      BY <1>2, <1>11, <2>3 DEF SnapshotsToCome, InOrderFrom
    <3> QED BY <1>10, <1>11, <2>3, <3>1
  <2>4. (cl'.snap.valid /\ cl'.snap.active) =>
          Comes(due2, told2, had2, at, cl.configstring, cl'.snap.serverCommandNum,
                cl'.snap.configstring)
    <3>1. CASE cl'.snap = cl.snap
      BY <1>2, <1>5, <1>10, <3>1 DEF SnapshotsToCome, had, at
    <3>2. CASE /\ cl'.snap.active = m.active /\ cl'.snap.serverCommandNum = had2
               /\ cl'.snap.configstring = m.configstring
      <4>1. m.active => IsActive(m)
        BY DEF IsActive, m
      <4> QED BY <1>3, <2>1, <3>2, <4>1 DEF had2, m
    <3> QED BY <1>6, <3>1, <3>2
  <2> QED BY <1>4, <1>6, <1>7, <2>2, <2>3, <2>4 DEF SnapshotsToCome, due2, told2, at
<1> QED BY <1>12, <1>13, <1>14, <1>15, <1>16, <1>17 DEF Current

(* The client parses a gamestate: it starts from its configstring, and the *)
(* commands before it are not due any more.                                *)
LEMMA ParseGamestateCurrent ==
  ASSUME CurrentInv, CL_ParseServerMessage, state # "ZOMBIE",
         toClient[1].kind = "gamestate"
  PROVE  Current'
<1> DEFINE m == toClient[1]
           had == clc.serverCommandSequence
           had2 == After(m)
           at == clc.lastExecutedServerCommand
           due2 == Due'
           told2 == Told'
<1>1. toClient # <<>> /\ ~clientError /\ Inv /\ Current
  BY DEF CL_ParseServerMessage, CurrentInv
<1>2. /\ CgameBehind /\ ValuesInOrder /\ GoodMessages /\ MapsAgree
      /\ ToldOfThis /\ SnapshotsToCome /\ TypeInv /\ MessagesAscend /\ Window
      /\ Sound(Due, Told)
  BY <1>1, CurrentFacts
<1>3. /\ 1 \in DOMAIN toClient /\ m \in Message
      /\ clc'.lastExecutedServerCommand = at
      /\ toClient' = Tail(toClient)
      /\ cl' = [CL_ClearState EXCEPT !.serverId = m.serverId,
                                     !.configstring = m.configstring]
      /\ cgame' = [running |-> FALSE, serverCommandSequence |-> at,
                   snap |-> NoSnapshot]
      /\ UNCHANGED <<serverVars, toServer, bigConfigString>>
  BY <1>1, <1>2, ParsedConnection
<1>4. /\ clc'.serverCommandSequence = had2 /\ had <= had2 /\ had2 <= reliableSequence
      /\ due2 = {n \in Due : n > had2}
      /\ \A n \in due2 : told2[n] = Told[n]
  BY <1>1, ParsedDue
<1>5. /\ had \in Nat /\ had2 \in Nat /\ at \in Nat /\ reliableSequence \in Nat
      /\ toClient \in Seq(Message) /\ cgame.serverCommandSequence \in Nat
      /\ serverId \in Nat /\ cl.serverId \in Nat
      /\ m.sequence = had2 /\ m.configstring \in Nat /\ m.serverId \in Nat
  BY <1>2, <1>3, TypeFacts, InFlight, MessageFields
<1>6. /\ cl'.serverId = m.serverId /\ cl'.configstring = m.configstring
      /\ ~cl'.snap.valid /\ cgame'.serverCommandSequence = at
  BY <1>3 DEF CL_ClearState, NoSnapshot
<1>7. /\ UNCHANGED <<state, reliableSequence, configstring, serverId>>
      /\ toServer' = toServer /\ bigConfigString' = bigConfigString
  BY <1>3 DEF serverVars
<1>8. IsGamestate(m)
  BY DEF IsGamestate
<1> HIDE DEF due2, told2, had, had2, at, m
<1>9. due2 \subseteq Due
  BY <1>4
<1>10. /\ \A v : Rising(Due, Told, v) => Rising(due2, told2, v)
       /\ \A n : Whole(Due, Told, n) => Whole(due2, told2, n)
       /\ \A n, v : Newer(Due, Told, n, v) => Newer(due2, told2, n, v)
  BY <1>4, <1>9, FewerDue
<1>11. GoodMessage(m, Due, Told, configstring, cl.serverId, serverId)
  BY <1>2, <1>3 DEF GoodMessages, m
<1>12. /\ Whole(Due, Told, had2) /\ Newer(Due, Told, had2, m.configstring)
       /\ m.configstring <= configstring
       /\ cl.serverId <= m.serverId /\ m.serverId <= serverId
  BY <1>5, <1>8, <1>11 DEF GoodMessage, had2
<1>13. at <= had2
  BY <1>2, <1>4, <1>5 DEF CgameBehind, at, had
<1>14. /\ Linked(Due, Told, had) => Linked(due2, told2, had2)
       /\ Newer(Due, Told, had2, m.configstring) => Newer(due2, told2, at, m.configstring)
       /\ PutTogether(due2, told2, at, bigConfigString)
       /\ \A last, v : ComesAfter(Due, Told, m, last, v)
                         => Comes(due2, told2, had2, at, m.configstring, last, v)
       /\ \A m2, last, v :
            (m2.sequence \in Nat /\ had2 <= m2.sequence
               /\ ComesAfter(Due, Told, m2, last, v))
              => ComesAfter(due2, told2, m2, last, v)
  <2>1. Parsed(Due, due2, Told, told2, had, had2)
    BY <1>2, <1>4, <1>5 DEF Parsed
  <2> QED BY <1>4, <1>5, <1>12, <1>13, <2>1, GamestateDue
<1>15. /\ InOrderFrom(toClient', toClient)
       /\ \A i \in DOMAIN toClient' :
            /\ \E k \in DOMAIN toClient : 1 < k /\ toClient'[i] = toClient[k]
            /\ IsGamestate(toClient'[i]) =>
                 /\ toClient'[i].sequence \in Nat
                 /\ had2 <= toClient'[i].sequence
                 /\ m.serverId <= toClient'[i].serverId
  <2>1. InOrderFrom(toClient', toClient)
    BY <1>1, <1>3, <1>5, TakenInOrder
  <2>2. ASSUME NEW i \in DOMAIN toClient'
        PROVE  /\ \E k \in DOMAIN toClient : 1 < k /\ toClient'[i] = toClient[k]
               /\ IsGamestate(toClient'[i]) =>
                    /\ toClient'[i].sequence \in Nat
                    /\ had2 <= toClient'[i].sequence
                    /\ m.serverId <= toClient'[i].serverId
    <3>1. /\ i + 1 \in DOMAIN toClient /\ toClient'[i] = toClient[i + 1]
      BY <1>1, <1>3, <1>5, TailOfMessages
    <3>2. 1 < i + 1
      <4>1. Tail(toClient) \in Seq(Message)
        BY <1>1, <1>5, TailOfMessages
      <4>2. i \in Nat /\ i > 0
        BY <1>3, <4>1, LenProperties
      <4> QED BY <4>2
    <3>3. had2 <= After(toClient[i + 1])
      BY <1>2, <1>3, <3>1, <3>2 DEF MessagesAscend, had2, m
    <3>4. After(toClient[i + 1]) \in Nat
      BY <1>2, <3>1, InFlight
    <3>5. IsGamestate(toClient[i + 1]) => m.serverId <= toClient[i + 1].serverId
      BY <1>2, <1>3, <1>8, <3>1, <3>2 DEF GoodMessages, m
    <3>6. IsGamestate(toClient[i + 1]) =>
            toClient[i + 1].sequence = After(toClient[i + 1])
      BY DEF IsGamestate, After
    <3> QED BY <3>1, <3>2, <3>3, <3>4, <3>5, <3>6
  <2> QED BY <2>1, <2>2
<1>16. CgameBehind'
  BY <1>3, <1>4, <1>5, <1>6, <1>13 DEF CgameBehind
<1>17. ValuesInOrder'
  <2>1. /\ Linked(due2, told2, had2) /\ Rising(due2, told2, configstring)
        /\ Whole(due2, told2, had2) /\ Newer(due2, told2, at, m.configstring)
        /\ PutTogether(due2, told2, at, bigConfigString)
    BY <1>2, <1>10, <1>12, <1>14 DEF ValuesInOrder, had
  <2> QED BY <1>4, <1>6, <1>7, <1>12, <2>1 DEF ValuesInOrder, due2, told2
<1>18. GoodMessages'
  <2>1. ASSUME NEW i \in DOMAIN toClient'
        PROVE  GoodMessage(toClient'[i], due2, told2, configstring, m.serverId, serverId)
    <3>1. GoodMessage(toClient'[i], Due, Told, configstring, cl.serverId, serverId)
      BY <1>2, <1>15 DEF GoodMessages
    <3> QED BY <1>10, <1>15, <3>1 DEF GoodMessage
  <2>2. \A i, j \in DOMAIN toClient' :
          (i < j /\ IsGamestate(toClient'[i]) /\ IsGamestate(toClient'[j])) =>
             toClient'[i].serverId <= toClient'[j].serverId
    BY <1>2, <1>15 DEF GoodMessages, InOrderFrom
  <2> QED BY <1>6, <1>7, <2>1, <2>2 DEF GoodMessages, due2, told2
<1>19. MapsAgree'
  <2>1. \A i \in DOMAIN toServer : toServer[i].serverId <= m.serverId
    <3>1. ASSUME NEW i \in DOMAIN toServer PROVE toServer[i].serverId <= m.serverId
      <4>1. toServer[i].serverId \in Nat /\ toServer[i].serverId <= cl.serverId
        BY <1>2, InFlight DEF MapsAgree
      <4> QED BY <1>5, <1>12, <4>1
    <3> QED BY <3>1
  <2>2. state = "ACTIVE" => m.serverId = serverId
    BY <1>2, <1>5, <1>12 DEF MapsAgree
  <2>3. state = "CONNECTED" =>
          /\ m.serverId # serverId
          /\ \A i \in DOMAIN toClient' :
                IsGamestate(toClient'[i]) => toClient'[i].serverId # serverId
    BY <1>2, <1>3, <1>8, <1>15 DEF MapsAgree, m
  <2> QED BY <1>6, <1>7, <1>12, <2>1, <2>2, <2>3 DEF MapsAgree
<1>20. ToldOfThis'
  <2> SUFFICES ASSUME state # "CONNECTED"
               PROVE  /\ m.serverId = serverId =>
                           Comes(due2, told2, had2, at, m.configstring,
                                 reliableSequence, configstring)
                      /\ \A i \in DOMAIN toClient' :
                           (IsGamestate(toClient'[i])
                              /\ toClient'[i].serverId = serverId) =>
                             ComesAfter(due2, told2, toClient'[i], reliableSequence,
                                        configstring)
    BY <1>4, <1>6, <1>7 DEF ToldOfThis, due2, told2
  <2>1. m.serverId = serverId =>
          Comes(due2, told2, had2, at, m.configstring, reliableSequence, configstring)
    BY <1>2, <1>3, <1>8, <1>14 DEF ToldOfThis, m
  <2>2. ASSUME NEW i \in DOMAIN toClient', IsGamestate(toClient'[i]),
               toClient'[i].serverId = serverId
        PROVE  ComesAfter(due2, told2, toClient'[i], reliableSequence, configstring)
    <3>1. ComesAfter(Due, Told, toClient'[i], reliableSequence, configstring)
      BY <1>2, <1>15, <2>2 DEF ToldOfThis
    <3> QED BY <1>14, <1>15, <2>2, <3>1
  <2> QED BY <2>1, <2>2
<1>21. SnapshotsToCome'
  <2>1. ASSUME NEW i \in DOMAIN toClient', IsActive(toClient'[i])
        PROVE  Comes(due2, told2, had2, at, m.configstring, After(toClient'[i]),
                     toClient'[i].configstring)
    <3>1. PICK k \in DOMAIN toClient : 1 < k /\ toClient'[i] = toClient[k]
      BY <1>15
    <3>2. ComesAfter(Due, Told, m, After(toClient[k]), toClient[k].configstring)
      BY <1>2, <1>3, <1>8, <2>1, <3>1 DEF SnapshotsToCome, m
    <3> QED BY <1>14, <3>1, <3>2
  <2>2. ASSUME NEW i \in DOMAIN toClient', NEW j \in DOMAIN toClient', i < j,
               IsGamestate(toClient'[i]), IsActive(toClient'[j])
        PROVE  ComesAfter(due2, told2, toClient'[i], After(toClient'[j]),
                          toClient'[j].configstring)
    <3>1. ComesAfter(Due, Told, toClient'[i], After(toClient'[j]),
                     toClient'[j].configstring)
      BY <1>2, <1>15, <2>2 DEF SnapshotsToCome, InOrderFrom
    <3> QED BY <1>14, <1>15, <2>2, <3>1
  <2> QED BY <1>4, <1>6, <1>7, <2>1, <2>2 DEF SnapshotsToCome, due2, told2
<1> QED BY <1>16, <1>17, <1>18, <1>19, <1>20, <1>21 DEF Current

(* Parsing leaves the configstring of the snapshot that is run as it is,   *)
(* or forgets the snapshot.                                                *)
LEMMA ParseConfigstring ==
  ASSUME Inv, ConfigstringCurrent, CL_ParseServerMessage
  PROVE  ConfigstringCurrent'
<1> DEFINE m == toClient[1]
<1>1. toClient # <<>> /\ TypeInv
  BY DEF CL_ParseServerMessage, Inv
<1>2. /\ m \in Message /\ state' = state
      /\ m.kind = "gamestate" => cgame'.snap = NoSnapshot
      /\ m.kind = "snapshot" => /\ cgame' = cgame
                                /\ cl'.configstring = cl.configstring
  <2>1. cl \in [serverId : Nat, configstring : Nat,
                snap : [valid : BOOLEAN, serverCommandNum : Nat, after : Nat,
                        configstring : Nat, active : BOOLEAN]]
    BY <1>1 DEF TypeInv, TypeOK
  <2>2. /\ m \in Message
        /\ m.kind = "gamestate" =>
             cgame' = [running |-> FALSE,
                       serverCommandSequence |-> clc.lastExecutedServerCommand,
                       snap |-> NoSnapshot]
        /\ m.kind = "snapshot" =>
             /\ \/ cl' = [cl EXCEPT !.snap =
                            [valid |-> TRUE, after |-> m.after, active |-> m.active,
                             serverCommandNum |-> clc'.serverCommandSequence,
                             configstring |-> m.configstring]]
                \/ cl' = cl
             /\ cgame' = cgame
        /\ UNCHANGED serverVars
    BY <1>1, ParsedConnection
  <2> HIDE DEF m
  <2> QED BY <2>1, <2>2 DEF serverVars
<1>3. m.kind \in {"gamestate", "snapshot"}
  BY <1>2, MessageFields
<1> QED BY <1>2, <1>3 DEF ConfigstringCurrent, NoSnapshot

(* At first nothing is due, and the client has no gamestate.               *)
LEMMA CurrentInit == Init => CurrentInv
<1> SUFFICES ASSUME Init PROVE CurrentInv
  OBVIOUS
<1>1. Inv
  BY InvInit
<1>2. /\ reliableSequence = 0 /\ configstring = 1 /\ serverId = 1
      /\ toClient = <<>> /\ toServer = <<>> /\ state = "CONNECTED"
      /\ clc.serverCommandSequence = 0 /\ clc.lastExecutedServerCommand = 0
      /\ cl.serverId = 0 /\ cl.configstring = 0 /\ ~cl.snap.valid
      /\ cgame.serverCommandSequence = 0 /\ ~cgame.snap.valid
  BY DEF Init, CL_ClearState, NoSnapshot
<1>3. Due = {}
  BY <1>2 DEF Due
<1>4. CgameBehind
  BY <1>2 DEF CgameBehind
<1>5. ValuesInOrder
  BY <1>2, <1>3 DEF ValuesInOrder, Linked, Rising, Whole, Newer, PutTogether
<1>6. DOMAIN toClient = {} /\ DOMAIN toServer = {}
  BY <1>2
<1>7. GoodMessages /\ MapsAgree /\ ToldOfThis /\ SnapshotsToCome
  BY <1>2, <1>6 DEF GoodMessages, MapsAgree, ToldOfThis, SnapshotsToCome
<1>8. ConfigstringCurrent
  BY <1>2 DEF ConfigstringCurrent
<1> QED BY <1>1, <1>4, <1>5, <1>7, <1>8 DEF CurrentInv, Current

(* The client stays current at every step.                                 *)
LEMMA CurrentStep == CurrentInv /\ [Next]_vars => CurrentInv'
<1> SUFFICES ASSUME CurrentInv, [Next]_vars PROVE CurrentInv'
  OBVIOUS
<1>1. Inv /\ ConfigstringCurrent /\ Inv'
  BY InvStep DEF CurrentInv
<1>2. ASSUME state' # "ZOMBIE" => state # "ZOMBIE",
             UNCHANGED <<cl, cgame>>
      PROVE  ConfigstringCurrent'
  BY <1>1, <1>2 DEF ConfigstringCurrent
<1> SUFFICES /\ ConfigstringCurrent'
             /\ (state' # "ZOMBIE" /\ ~clientError') => Current'
  BY <1>1 DEF CurrentInv
<1>3. CASE SV_SendServerCommand
  <2>1. UNCHANGED <<cl, cgame, clientError>> /\ state # "ZOMBIE"
    BY <1>3 DEF SV_SendServerCommand, clientVars
  <2> QED BY <1>1, <1>2, <1>3, <2>1, SendCommandCurrent DEF CurrentInv
<1>4. CASE SV_SetConfigstring
  <2>1. UNCHANGED <<cl, cgame, clientError>> /\ state # "ZOMBIE"
    BY <1>4 DEF SV_SetConfigstring, clientVars
  <2> QED BY <1>1, <1>2, <1>4, <2>1, SetConfigstringCurrent DEF CurrentInv
<1>5. CASE SV_SpawnServer
  <2>1. UNCHANGED <<cl, cgame, clientError>> /\ state # "ZOMBIE"
    BY <1>5 DEF SV_SpawnServer, clientVars
  <2> QED BY <1>1, <1>2, <1>5, <2>1, SpawnCurrent DEF CurrentInv
<1>6. CASE SV_SendClientSnapshot
  <2>1. UNCHANGED <<cl, cgame, clientError, state>>
    BY <1>6 DEF SV_SendClientSnapshot, clientVars, serverVars
  <2> QED BY <1>1, <1>2, <1>6, <2>1, SnapshotCurrent DEF CurrentInv
<1>7. CASE SV_ExecuteClientMessage
  <2>1. UNCHANGED <<cl, cgame, clientError>> /\ state # "ZOMBIE"
    BY <1>7 DEF SV_ExecuteClientMessage, clientVars
  <2> QED BY <1>1, <1>2, <1>7, <2>1, ExecuteCurrent DEF CurrentInv
<1>8. CASE CL_ParseServerMessage
  <2>1. ConfigstringCurrent'
    BY <1>1, <1>8, ParseConfigstring
  <2>2. /\ state' = state /\ toClient # <<>>
        /\ toClient[1].kind \in {"gamestate", "snapshot"}
    <3>1. toClient # <<>> /\ TypeInv
      BY <1>1, <1>8 DEF CL_ParseServerMessage, Inv
    <3>2. toClient[1] \in Message /\ UNCHANGED serverVars
      BY <1>8, <3>1, ParsedConnection
    <3>3. toClient[1].kind \in {"gamestate", "snapshot"}
      BY <3>2, MessageFields
    <3> QED BY <3>1, <3>2, <3>3 DEF serverVars
  <2> QED BY <1>8, <2>1, <2>2, ParseSnapshotCurrent, ParseGamestateCurrent
<1>9. CASE CL_WritePacket
  <2>1. UNCHANGED <<cl, cgame, clientError, state>>
    BY <1>9 DEF CL_WritePacket, clientVars, serverVars
  <2> QED BY <1>1, <1>2, <1>9, <2>1, WriteCurrent DEF CurrentInv
<1>10. CASE CL_GetServerCommand
  <2>1. state' = state
    BY <1>10 DEF CL_GetServerCommand, serverVars
  <2> QED BY <1>10, <2>1, GetCurrent
<1>11. CASE RunSnapshot
  <2>1. state' = state
    BY <1>11 DEF RunSnapshot, serverVars
  <2> QED BY <1>11, <2>1, RunCurrent
<1>12. CASE Lose /\ UNCHANGED <<serverVars, clientVars>>
  <2>1. UNCHANGED <<cl, cgame, clientError, state>>
    BY <1>12 DEF clientVars, serverVars
  <2> QED BY <1>1, <1>2, <1>12, <2>1, LoseCurrent DEF CurrentInv
<1>13. CASE UNCHANGED vars
  <2>1. /\ UNCHANGED <<reliableSequence, reliableCommands, clc, cl, cgame>>
        /\ UNCHANGED <<toClient, toServer, bigConfigString, clientError, state>>
        /\ UNCHANGED <<configstring, serverId>>
    BY <1>13 DEF vars, clientVars, serverVars
  <2>2. Told' = Told /\ Due' = Due
    BY <2>1, SameDue
  <2>3. Current => Current'
    <3>1. CgameBehind /\ ValuesInOrder => CgameBehind' /\ ValuesInOrder'
      BY <2>1, <2>2 DEF CgameBehind, ValuesInOrder
    <3>2. GoodMessages /\ MapsAgree => GoodMessages' /\ MapsAgree'
      BY <2>1, <2>2 DEF GoodMessages, MapsAgree
    <3>3. ToldOfThis /\ SnapshotsToCome => ToldOfThis' /\ SnapshotsToCome'
      BY <2>1, <2>2 DEF ToldOfThis, SnapshotsToCome
    <3> QED BY <3>1, <3>2, <3>3 DEF Current
  <2> QED BY <1>2, <2>1, <2>3 DEF CurrentInv
<1> QED
  BY <1>3, <1>4, <1>5, <1>6, <1>7, <1>8, <1>9, <1>10, <1>11, <1>12, <1>13 DEF Next

(* In the world, the client runs a snapshot with configstrings at least as *)
(* new as the server had when it made the snapshot (SV_SetConfigstring,    *)
(* CL_ParseGamestate, CL_GetServerCommand), whatever was lost or crossed.  *)
THEOREM ConfigstringsCurrent == Spec => []ConfigstringCurrent
<1>1. CurrentInv => ConfigstringCurrent
  BY DEF CurrentInv
<1> QED BY <1>1, CurrentInit, CurrentStep, PTL DEF Spec
=============================================================================
