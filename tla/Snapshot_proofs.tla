--------------------------- MODULE Snapshot_proofs ---------------------------
(***************************************************************************)
(* Proofs about delta compressed snapshots (module Snapshot): the client   *)
(* has the base of every snapshot that reaches it, and a snapshot it gives *)
(* to the cgame has the entities the server meant it to have.              *)
(*                                                                         *)
(* The argument for the bases is about what is left of two rings.  The     *)
(* client keeps a snapshot it has asked the server to use until it is too  *)
(* old to be used; the server has a frame's entities as long as the ring   *)
(* that all clients share has not gone round; and the frames it compares   *)
(* are those the client has.  What the client then makes of the changes    *)
(* is the snapshot, if what it writes does not reach an entity of the base *)
(* before that has been read: the margin is for this, and where it is not  *)
(* enough the snapshot is marked, and what is made from it.                *)
(***************************************************************************)
EXTENDS Snapshot, FiniteSetTheorems, SequenceTheorems, WellFoundedInduction,
        TLAPS

-----------------------------------------------------------------------------
(* Slots of a ring, sets of numbers and sequences.                         *)

(* Division by the size of the ring: the slot is the remainder.            *)
LEMMA SlotOf ==
  ASSUME NEW size \in Nat \ {0}, NEW n \in Nat
  PROVE  /\ n = size * (n \div size) + (n % size)
         /\ n % size \in 0 .. size - 1
         /\ n \div size \in Nat
OBVIOUS

(* The slots of two numbers less than a ring apart are different.          *)
LEMMA SlotsOfNeighbours ==
  ASSUME NEW size \in Nat \ {0}, NEW m \in Nat, NEW n \in Nat,
         m < n, n < m + size
  PROVE  m % size # n % size
<1> DEFINE a == m \div size
           b == n \div size
           r == n % size
<1> SUFFICES ASSUME m % size = n % size PROVE FALSE
  OBVIOUS
<1>1. a \in Nat /\ b \in Nat /\ r \in Nat
  <2>1. a \in Nat /\ b \in Nat
    BY SlotOf
  <2>2. r \in 0 .. size - 1
    BY SlotOf
  <2> HIDE DEF a, b, r
  <2> QED BY <2>1, <2>2
<1>2. m = size * a + r /\ n = size * b + r
  BY SlotOf
<1> HIDE DEF a, b, r
<1>3. n - m = size * (b - a)
  BY <1>1, <1>2
<1>4. b - a >= 1 => size * (b - a) >= size
  BY <1>1
<1>5. b - a <= 0 => size * (b - a) <= 0
  BY <1>1
<1> QED BY <1>1, <1>3, <1>4, <1>5

(* A set of numbers has a least element.                                   *)
LEMMA LeastNumber ==
  ASSUME NEW S, S \subseteq Nat, S # {}
  PROVE  \E x \in S : \A y \in S : x <= y
<1>1. PICK x \in S : \A y \in S : ~ (<<y, x>> \in OpToRel(<, Nat))
  BY WFMin, NatLessThanWellFounded
<1>2. ASSUME NEW y \in S PROVE x <= y
  <2>1. x \in Nat /\ y \in Nat
    OBVIOUS
  <2>2. ~(y < x)
    BY <1>1, <2>1 DEF OpToRel
  <2> QED BY <2>1, <2>2
<1> QED BY <1>2

(* A message that is lost leaves the others in their order.                *)
LEMMA RemoveAtProperties ==
  ASSUME NEW S, NEW s \in Seq(S), NEW i \in DOMAIN s
  PROVE  /\ RemoveAt(s, i) \in Seq(S)
         /\ Len(RemoveAt(s, i)) = Len(s) - 1
         /\ \A j \in 1 .. Len(s) - 1 :
              RemoveAt(s, i)[j] = s[IF j < i THEN j ELSE j + 1]
<1> DEFINE before == SubSeq(s, 1, i - 1)
           after == SubSeq(s, i + 1, Len(s))
<1>0. Len(s) \in Nat /\ DOMAIN s = 1 .. Len(s)
  BY LenProperties
<1>1. \A j \in 1 .. Len(s) : s[j] \in S
  BY ElementOfSeq
<1>2. /\ before \in Seq(S) /\ Len(before) = i - 1
      /\ \A j \in 1 .. i - 1 : before[j] = s[j]
  <2>1. \A j \in 1 .. i - 1 : s[j] \in S
    BY <1>0, <1>1
  <2>2. /\ before \in Seq(S)
        /\ Len(before) = IF 1 <= i - 1 THEN (i - 1) - 1 + 1 ELSE 0
        /\ \A j \in 1 .. (i - 1) - 1 + 1 : before[j] = s[1 + j - 1]
    <3> HIDE DEF before
    <3> QED BY <1>0, <2>1, SubSeqProperties DEF before
  <2> HIDE DEF before
  <2> QED BY <1>0, <2>2
<1>3. /\ after \in Seq(S) /\ Len(after) = Len(s) - i
      /\ \A j \in 1 .. Len(s) - i : after[j] = s[i + j]
  <2>1. \A j \in i + 1 .. Len(s) : s[j] \in S
    BY <1>0, <1>1
  <2>2. /\ after \in Seq(S)
        /\ Len(after) = IF i + 1 <= Len(s) THEN Len(s) - (i + 1) + 1 ELSE 0
        /\ \A j \in 1 .. Len(s) - (i + 1) + 1 : after[j] = s[i + 1 + j - 1]
    <3> HIDE DEF after
    <3> QED BY <1>0, <2>1, SubSeqProperties DEF after
  <2> HIDE DEF after
  <2>3. ASSUME NEW j \in 1 .. Len(s) - i PROVE after[j] = s[i + j]
    <3>1. j \in 1 .. Len(s) - (i + 1) + 1 /\ i + 1 + j - 1 = i + j
      BY <1>0
    <3> QED BY <2>2, <3>1
  <2>4. Len(after) = Len(s) - i
    BY <1>0, <2>2
  <2> QED BY <2>2, <2>3, <2>4
<1>4. RemoveAt(s, i) = before \o after
  BY DEF RemoveAt
<1> HIDE DEF before, after
<1>5. /\ RemoveAt(s, i) \in Seq(S)
      /\ Len(RemoveAt(s, i)) = Len(before) + Len(after)
      /\ \A j \in 1 .. Len(before) + Len(after) :
           RemoveAt(s, i)[j] = IF j <= Len(before) THEN before[j]
                               ELSE after[j - Len(before)]
  <2>1. before \in Seq(S) /\ after \in Seq(S)
    BY <1>2, <1>3
  <2> QED BY <1>4, <2>1, ConcatProperties
<1>6. ASSUME NEW j \in 1 .. Len(s) - 1
      PROVE  RemoveAt(s, i)[j] = s[IF j < i THEN j ELSE j + 1]
  <2>1. CASE j < i
    <3>1. j \in 1 .. i - 1 /\ j \in 1 .. Len(before) + Len(after)
      BY <1>0, <1>2, <1>3, <2>1
    <3> QED BY <1>2, <1>5, <2>1, <3>1
  <2>2. CASE ~(j < i)
    <3>1. /\ j - (i - 1) \in 1 .. Len(s) - i
          /\ ~(j <= i - 1) /\ i + (j - (i - 1)) = j + 1
          /\ j \in 1 .. Len(before) + Len(after)
      BY <1>0, <1>2, <1>3, <2>2
    <3>2. RemoveAt(s, i)[j] = after[j - (i - 1)]
      BY <1>2, <1>5, <3>1
    <3>3. after[j - (i - 1)] = s[j + 1]
      BY <1>3, <3>1
    <3> QED BY <2>2, <3>2, <3>3
  <2> QED BY <2>1, <2>2
<1>7. Len(RemoveAt(s, i)) = Len(s) - 1
  BY <1>0, <1>2, <1>3, <1>5
<1> QED BY <1>5, <1>6, <1>7

(* Taking the oldest message.                                              *)
LEMMA TailOfMessages ==
  ASSUME NEW S, NEW s \in Seq(S), s # <<>>
  PROVE  /\ Head(s) = s[1] /\ 1 \in DOMAIN s /\ Tail(s) \in Seq(S)
         /\ \A i \in DOMAIN Tail(s) : i + 1 \in DOMAIN s /\ Tail(s)[i] = s[i + 1]
<1>1. /\ Len(s) \in Nat \ {0} /\ DOMAIN s = 1 .. Len(s)
      /\ Tail(s) \in Seq(S) /\ Len(Tail(s)) = Len(s) - 1
      /\ \A i \in 1 .. Len(Tail(s)) : Tail(s)[i] = s[i + 1]
  BY LenProperties, EmptySeq, HeadTailProperties
<1>2. DOMAIN Tail(s) = 1 .. Len(Tail(s))
  BY <1>1, LenProperties
<1>3. Head(s) = s[1]
  OBVIOUS
<1> QED BY <1>1, <1>2, <1>3

(* A message that is sent comes after those in flight.                     *)
LEMMA AppendedMessage ==
  ASSUME NEW S, NEW s \in Seq(S), NEW e \in S
  PROVE  /\ Append(s, e) \in Seq(S)
         /\ DOMAIN s = 1 .. Len(s) /\ Len(s) \in Nat
         /\ DOMAIN Append(s, e) = 1 .. Len(s) + 1
         /\ \A i \in 1 .. Len(s) : Append(s, e)[i] = s[i]
         /\ Append(s, e)[Len(s) + 1] = e
<1>1. Append(s, e) \in Seq(S) /\ Len(Append(s, e)) = Len(s) + 1
  BY AppendProperties
<1>2. DOMAIN Append(s, e) = 1 .. Len(s) + 1
  BY <1>1, LenProperties
<1>3. DOMAIN s = 1 .. Len(s) /\ Len(s) \in Nat
  BY LenProperties
<1> QED BY <1>1, <1>2, <1>3, AppendProperties

(* t is what is left of s when messages have been taken or lost.           *)
InOrderFrom(t, s) ==
  /\ \A i \in DOMAIN t : \E j \in DOMAIN s : t[i] = s[j]
  /\ \A i1, i2 \in DOMAIN t : i1 < i2 =>
       \E j1, j2 \in DOMAIN s : j1 < j2 /\ t[i1] = s[j1] /\ t[i2] = s[j2]

(* Taking the oldest message leaves the others in their order.             *)
LEMMA TakenInOrder ==
  ASSUME NEW S, NEW s \in Seq(S), s # <<>>
  PROVE  InOrderFrom(Tail(s), s)
<1>1. \A i \in DOMAIN Tail(s) : i + 1 \in DOMAIN s /\ Tail(s)[i] = s[i + 1]
  BY TailOfMessages
<1>2. \A i \in DOMAIN Tail(s) : i \in Nat
  <2>1. Tail(s) \in Seq(S)
    BY TailOfMessages
  <2> QED BY <2>1, LenProperties
<1>3. ASSUME NEW i1 \in DOMAIN Tail(s), NEW i2 \in DOMAIN Tail(s), i1 < i2
      PROVE  \E j1, j2 \in DOMAIN s :
                j1 < j2 /\ Tail(s)[i1] = s[j1] /\ Tail(s)[i2] = s[j2]
  <2>1. i1 + 1 < i2 + 1
    BY <1>2, <1>3
  <2> QED BY <1>1, <2>1
<1> QED BY <1>1, <1>3 DEF InOrderFrom

(* A message that is lost leaves the others in their order.                *)
LEMMA LostInOrder ==
  ASSUME NEW S, NEW s \in Seq(S), NEW i \in DOMAIN s
  PROVE  RemoveAt(s, i) \in Seq(S) /\ InOrderFrom(RemoveAt(s, i), s)
<1> DEFINE t == RemoveAt(s, i)
           From(j) == IF j < i THEN j ELSE j + 1
<1>1. /\ t \in Seq(S) /\ Len(t) = Len(s) - 1
      /\ \A j \in 1 .. Len(s) - 1 : t[j] = s[From(j)]
  BY RemoveAtProperties
<1>2. /\ Len(s) \in Nat /\ DOMAIN s = 1 .. Len(s)
      /\ DOMAIN t = 1 .. Len(s) - 1
  <2>1. DOMAIN t = 1 .. Len(t)
    <3> HIDE DEF t
    <3> QED BY <1>1, LenProperties
  <2> HIDE DEF t
  <2> QED BY <1>1, <2>1, LenProperties
<1> HIDE DEF t
<1>3. ASSUME NEW j \in DOMAIN t PROVE From(j) \in DOMAIN s /\ t[j] = s[From(j)]
  BY <1>1, <1>2
<1>4. ASSUME NEW i1 \in DOMAIN t, NEW i2 \in DOMAIN t, i1 < i2
      PROVE  From(i1) < From(i2)
  BY <1>2, <1>4
<1>5. \A i1, i2 \in DOMAIN t : i1 < i2 =>
        \E j1, j2 \in DOMAIN s : j1 < j2 /\ t[i1] = s[j1] /\ t[i2] = s[j2]
  <2> HIDE DEF From
  <2> QED BY <1>3, <1>4
<1>6. \A j \in DOMAIN t : \E k \in DOMAIN s : t[j] = s[k]
  BY <1>3
<1> HIDE DEF From
<1> QED BY <1>1, <1>5, <1>6 DEF t, InOrderFrom

-----------------------------------------------------------------------------
(* What the client can see, the changes from one view to another, and the  *)
(* entities of a view and of the rings.                                    *)
Views == Worlds \cup {<<>>}
ChangeLists == {SV_EmitPacketEntities(old, new) : old, new \in Views}
ViewEntities == [number : 0 .. GONE - 1, value : Nat]
Entities == [number : Nat, value : Nat]

-----------------------------------------------------------------------------
(* Lists of entities, and the changes from one to another.                 *)

(* A view is a list of entities, by number.                                *)
LEMMA ViewIs ==
  ASSUME NEW v \in Views
  PROVE  /\ v \in Seq(ViewEntities) /\ Len(v) \in Nat /\ DOMAIN v = 1 .. Len(v)
         /\ \A i \in DOMAIN v : v[i] \in ViewEntities
         /\ \A i, j \in DOMAIN v : i < j => v[i].number < v[j].number
         /\ \A i, j \in DOMAIN v : v[i].number = v[j].number => i = j
<1>1. v \in Seq(ViewEntities)
  <2>1. CASE v \in Worlds
    BY <2>1, ViewsAssumption DEF ViewEntities
  <2>2. CASE v = <<>>
    BY <2>2
  <2> QED BY <2>1, <2>2 DEF Views
<1>2. Len(v) \in Nat /\ DOMAIN v = 1 .. Len(v)
  BY <1>1, LenProperties
<1>3. \A i \in DOMAIN v : v[i] \in ViewEntities
  BY <1>1, <1>2, ElementOfSeq
<1>4. \A i, j \in DOMAIN v : i < j => v[i].number < v[j].number
  <2>1. CASE v \in Worlds
    BY <2>1, OrderAssumption
  <2>2. CASE v = <<>>
    BY <2>2
  <2> QED BY <2>1, <2>2 DEF Views
<1>5. ASSUME NEW i \in DOMAIN v, NEW j \in DOMAIN v, v[i].number = v[j].number
      PROVE  i = j
  <2>1. i \in Nat /\ j \in Nat
    BY <1>2
  <2>2. v[i].number \in Nat
    BY <1>3 DEF ViewEntities, GONE
  <2>3. ~(i < j) /\ ~(j < i)
    BY <1>4, <1>5, <2>2
  <2> QED BY <2>1, <2>3
<1> QED BY <1>1, <1>2, <1>3, <1>4, <1>5

(* The number of an entity tells its value.                                *)
LEMMA ValueIs ==
  ASSUME NEW v \in Views, NEW i \in DOMAIN v
  PROVE  /\ v[i].number \in Numbers(v) /\ ValueIn(v, v[i].number) = v[i].value
         /\ v[i] = Entity(v[i].number, v[i].value)
<1>1. v[i].number \in Numbers(v)
  BY DEF Numbers
<1>2. ValueIn(v, v[i].number) = v[i].value
  <2> DEFINE k == CHOOSE k \in DOMAIN v : v[k].number = v[i].number
  <2>1. k \in DOMAIN v /\ v[k].number = v[i].number
    OBVIOUS
  <2>2. k = i
    <3> HIDE DEF k
    <3> QED BY <2>1, ViewIs
  <2> QED BY <2>2 DEF ValueIn
<1>3. v[i] = Entity(v[i].number, v[i].value)
  BY ViewIs DEF ViewEntities, Entity
<1> QED BY <1>1, <1>2, <1>3

(* The number of an entity of a view.                                      *)
LEMMA NumbersAre ==
  ASSUME NEW v \in Views, NEW n \in Numbers(v)
  PROVE  n \in 0 .. GONE - 1 /\ ValueIn(v, n) \in Nat
<1>1. PICK i \in DOMAIN v : v[i].number = n
  BY DEF Numbers
<1>2. v[i] \in ViewEntities
  BY ViewIs
<1>3. ValueIn(v, n) = v[i].value
  BY <1>1, ValueIs
<1> QED BY <1>1, <1>2, <1>3 DEF ViewEntities

(* A list of changes.                                                      *)
LEMMA ChangesAre ==
  ASSUME NEW old \in Views, NEW new \in Views
  PROVE  LET c == SV_EmitPacketEntities(old, new) IN
         /\ DOMAIN c = Changed(old, new) /\ DOMAIN c \subseteq 0 .. GONE - 1
         /\ IsFiniteSet(DOMAIN c) /\ Cardinality(DOMAIN c) \in Nat
         /\ \A n \in DOMAIN c : /\ c[n] = ChangeOf(old, new, n)
                                /\ c[n].kind \in {"remove", "same", "set"}
                                /\ c[n].value \in Nat
<1> DEFINE c == SV_EmitPacketEntities(old, new)
<1>1. DOMAIN c = Changed(old, new)
  BY DEF SV_EmitPacketEntities
<1>2. \A n \in DOMAIN c : c[n] = ChangeOf(old, new, n)
  BY DEF SV_EmitPacketEntities
<1> HIDE DEF c
<1>3. DOMAIN c \subseteq 0 .. GONE - 1
  <2>1. Changed(old, new) \subseteq Numbers(old) \cup Numbers(new)
    BY DEF Changed
  <2> QED BY <1>1, <2>1, NumbersAre
<1>4. IsFiniteSet(DOMAIN c) /\ Cardinality(DOMAIN c) \in Nat
  <2>1. IsFiniteSet(0 .. GONE - 1)
    <3>1. 0 \in Int /\ GONE - 1 \in Int
      BY DEF GONE
    <3> QED BY <3>1, FS_Interval
  <2>2. IsFiniteSet(DOMAIN c)
    BY <1>3, <2>1, FS_Subset
  <2> QED BY <2>2, FS_CardinalityType
<1>5. ASSUME NEW n \in DOMAIN c
      PROVE  c[n].kind \in {"remove", "same", "set"} /\ c[n].value \in Nat
  <2>1. CASE n \notin Numbers(new)
    BY <1>2, <2>1 DEF ChangeOf, Change
  <2>2. CASE n \in Numbers(new)
    <3>1. ValueIn(new, n) \in Nat
      BY <2>2, NumbersAre
    <3> QED BY <1>2, <2>2, <3>1 DEF ChangeOf, Change
  <2> QED BY <2>1, <2>2
<1> QED BY <1>1, <1>2, <1>3, <1>4, <1>5 DEF c

(* The client's ring of entities, and the states of the parsing.           *)
ParseRings == [0 .. MAX_PARSE_ENTITIES - 1 -> Entities]
ParseStates ==
    [ring : ParseRings, next : Nat, index : Nat, oldnum : Nat,
     left : SUBSET (0 .. GONE - 1)]

-----------------------------------------------------------------------------
(* The steps of CL_ParsePacketEntities.                                    *)

(* A position of the client's ring.                                        *)
LEMMA ParseSlot ==
  ASSUME NEW p \in Nat
  PROVE  p % MAX_PARSE_ENTITIES \in 0 .. MAX_PARSE_ENTITIES - 1
BY RingsAssumption, SlotOf

(* An entity is written at the next position.                              *)
LEMMA StoreIs ==
  ASSUME NEW s \in ParseStates, NEW e \in Entities
  PROVE  LET t == Store(s, e) IN
         /\ t \in ParseStates
         /\ t.ring = [s.ring EXCEPT ![s.next % MAX_PARSE_ENTITIES] = e]
         /\ t.next = IF e.number = GONE THEN s.next ELSE s.next + 1
         /\ t.index = s.index /\ t.oldnum = s.oldnum /\ t.left = s.left
<1> DEFINE t == Store(s, e)
<1>1. s = [ring |-> s.ring, next |-> s.next, index |-> s.index,
           oldnum |-> s.oldnum, left |-> s.left]
      /\ s.ring \in ParseRings /\ s.next \in Nat /\ s.index \in Nat
      /\ s.oldnum \in Nat /\ s.left \in SUBSET (0 .. GONE - 1)
  BY DEF ParseStates
<1>2. /\ t.ring = [s.ring EXCEPT ![s.next % MAX_PARSE_ENTITIES] = e]
      /\ t.next = (IF e.number = GONE THEN s.next ELSE s.next + 1)
      /\ t.index = s.index /\ t.oldnum = s.oldnum /\ t.left = s.left
      /\ t = [ring |-> t.ring, next |-> t.next, index |-> t.index,
              oldnum |-> t.oldnum, left |-> t.left]
  <2> DEFINE ring == [s.ring EXCEPT ![s.next % MAX_PARSE_ENTITIES] = e]
             next == IF e.number = GONE THEN s.next ELSE s.next + 1
  <2>1. t = [s EXCEPT !.ring = ring, !.next = next]
    BY DEF Store
  <2> HIDE DEF t, ring, next
  <2>2. t.ring = ring /\ t.next = next
        /\ t.index = s.index /\ t.oldnum = s.oldnum /\ t.left = s.left
        /\ t = [ring |-> t.ring, next |-> t.next, index |-> t.index,
                oldnum |-> t.oldnum, left |-> t.left]
    BY <1>1, <2>1
  <2> QED BY <2>2 DEF ring, next
<1>3. t.ring \in ParseRings
  BY <1>1, <1>2 DEF ParseRings
<1>4. t.next \in Nat
  BY <1>1, <1>2
<1> HIDE DEF t
<1>5. t \in ParseStates
  BY <1>1, <1>2, <1>3, <1>4 DEF ParseStates
<1> QED BY <1>2, <1>5 DEF t

(* The next entity of the old list.                                        *)
LEMMA NextOldIs ==
  ASSUME NEW s \in ParseStates, NEW old, old.first \in Nat, old.num \in Nat
  PROVE  LET t == NextOld(s, old) IN
         /\ t \in ParseStates
         /\ t.ring = s.ring /\ t.next = s.next /\ t.left = s.left
         /\ t.index = s.index + 1
         /\ t.oldnum = IF s.index + 1 >= old.num THEN LATER
                       ELSE s.ring[(old.first + (s.index + 1))
                                     % MAX_PARSE_ENTITIES].number
<1> DEFINE u == [s EXCEPT !.index = s.index + 1]
           t == NextOld(s, old)
           n == IF s.index + 1 >= old.num THEN LATER
                ELSE s.ring[(old.first + (s.index + 1))
                              % MAX_PARSE_ENTITIES].number
<1>1. s = [ring |-> s.ring, next |-> s.next, index |-> s.index,
           oldnum |-> s.oldnum, left |-> s.left]
      /\ s.ring \in ParseRings /\ s.next \in Nat /\ s.index \in Nat
      /\ s.oldnum \in Nat /\ s.left \in SUBSET (0 .. GONE - 1)
  BY DEF ParseStates
<1>2. u.ring = s.ring /\ u.index = s.index + 1
  BY <1>1
<1>3. t = [u EXCEPT !.oldnum = n]
  BY <1>2 DEF NextOld, Look, OldEntity
<1>4. n \in Nat
  <2>1. (old.first + (s.index + 1)) % MAX_PARSE_ENTITIES
           \in 0 .. MAX_PARSE_ENTITIES - 1
    BY <1>1, ParseSlot
  <2>2. s.ring[(old.first + (s.index + 1)) % MAX_PARSE_ENTITIES].number \in Nat
    BY <1>1, <2>1 DEF ParseRings, Entities
  <2> QED BY <2>2 DEF LATER
<1> HIDE DEF n
<1>5. /\ t.ring = s.ring /\ t.next = s.next /\ t.left = s.left
      /\ t.index = s.index + 1 /\ t.oldnum = n
      /\ t = [ring |-> t.ring, next |-> t.next, index |-> t.index,
              oldnum |-> t.oldnum, left |-> t.left]
  BY <1>1, <1>3
<1> HIDE DEF t
<1>6. t \in ParseStates
  BY <1>1, <1>4, <1>5 DEF ParseStates
<1> QED BY <1>5, <1>6 DEF t, n

(* A change is read.                                                       *)
LEMMA ReadIs ==
  ASSUME NEW s \in ParseStates, NEW n
  PROVE  LET t == [s EXCEPT !.left = s.left \ {n}] IN
         /\ t \in ParseStates
         /\ t.ring = s.ring /\ t.next = s.next /\ t.index = s.index
         /\ t.oldnum = s.oldnum /\ t.left = s.left \ {n}
<1> DEFINE left == s.left \ {n}
           t == [s EXCEPT !.left = left]
<1>1. s = [ring |-> s.ring, next |-> s.next, index |-> s.index,
           oldnum |-> s.oldnum, left |-> s.left]
      /\ s.ring \in ParseRings /\ s.next \in Nat /\ s.index \in Nat
      /\ s.oldnum \in Nat /\ s.left \in SUBSET (0 .. GONE - 1)
  BY DEF ParseStates
<1>0. left \in SUBSET (0 .. GONE - 1)
  BY <1>1
<1> HIDE DEF left
<1>2. /\ t.ring = s.ring /\ t.next = s.next /\ t.index = s.index
      /\ t.oldnum = s.oldnum /\ t.left = left
      /\ t = [ring |-> t.ring, next |-> t.next, index |-> t.index,
              oldnum |-> t.oldnum, left |-> t.left]
  BY <1>1
<1> HIDE DEF t
<1>3. t \in ParseStates
  BY <1>0, <1>1, <1>2 DEF ParseStates
<1> QED BY <1>2, <1>3 DEF t, left

(* The next change is the least of those that are left.                    *)
LEMMA NextChangeIs ==
  ASSUME NEW s \in ParseStates
  PROVE  /\ s.left = {} => NextChange(s) = LATER
         /\ s.left # {} => /\ NextChange(s) \in s.left
                           /\ NextChange(s) \in 0 .. GONE - 1
                           /\ \A m \in s.left : NextChange(s) <= m
<1>1. s.left \subseteq 0 .. GONE - 1
  BY DEF ParseStates
<1>2. CASE s.left = {}
  BY <1>2 DEF NextChange
<1>3. CASE s.left # {}
  <2>1. \E n \in s.left : \A m \in s.left : n <= m
    <3>1. s.left \subseteq Nat
      BY <1>1 DEF GONE
    <3> QED BY <1>3, <3>1, LeastNumber
  <2>2. NextChange(s) \in s.left /\ \A m \in s.left : NextChange(s) <= m
    BY <1>3, <2>1 DEF NextChange
  <2> QED BY <1>1, <1>3, <2>2
<1> QED BY <1>2, <1>3

(* The old entity, whatever the ring holds there.                          *)
LEMMA OldEntityIs ==
  ASSUME NEW s \in ParseStates, NEW old, old.first \in Nat
  PROVE  /\ OldEntity(s, old) \in Entities
         /\ OldEntity(s, old) = s.ring[(old.first + s.index) % MAX_PARSE_ENTITIES]
<1>1. s.ring \in ParseRings /\ s.index \in Nat
  BY DEF ParseStates
<1>2. (old.first + s.index) % MAX_PARSE_ENTITIES \in 0 .. MAX_PARSE_ENTITIES - 1
  BY <1>1, ParseSlot
<1> QED BY <1>1, <1>2 DEF OldEntity, ParseRings

(* What a change makes of an entity.                                       *)
LEMMA AppliedIs ==
  ASSUME NEW c, c.kind \in {"remove", "same", "set"}, c.value \in Nat,
         NEW n \in 0 .. GONE - 1, NEW from \in Entities
  PROVE  Apply(c, n, from) \in Entities
<1>1. n \in Nat /\ GONE \in Nat
  BY DEF GONE
<1>2. CASE c.kind = "remove"
  BY <1>1, <1>2 DEF Apply, Entity, Entities
<1>3. CASE c.kind = "same"
  BY <1>1, <1>3 DEF Apply, Entity, Entities
<1>4. CASE c.kind = "set"
  BY <1>1, <1>4 DEF Apply, Entity, Entities
<1> QED BY <1>2, <1>3, <1>4

(* An entity is written, of the old list or of the changes.                *)
Written(s, t, e) ==
    /\ e \in Entities /\ t \in ParseStates
    /\ t.ring = [s.ring EXCEPT ![s.next % MAX_PARSE_ENTITIES] = e]
    /\ t.next = IF e.number = GONE THEN s.next ELSE s.next + 1
OldRead(s, t, old) ==
    /\ t.index = s.index + 1
    /\ t.oldnum = IF t.index >= old.num THEN LATER
                  ELSE t.ring[(old.first + t.index) % MAX_PARSE_ENTITIES].number

(* What a step of the parsing does.                                        *)
LEMMA StepIs ==
  ASSUME NEW s \in ParseStates, NEW changes \in ChangeLists,
         s.left \subseteq DOMAIN changes,
         NEW old, old.first \in Nat, old.num \in Nat
  PROVE  LET t == ParseEntity(s, changes, old)
             n == NextChange(s)
         IN /\ s.oldnum < n => /\ Written(s, t, OldEntity(s, old))
                               /\ OldRead(s, t, old) /\ t.left = s.left
            /\ ~(s.oldnum < n) /\ n = LATER => t = s
            /\ ~(s.oldnum < n) /\ n # LATER /\ s.oldnum = n =>
                 /\ Written(s, t, Apply(changes[n], n, OldEntity(s, old)))
                 /\ OldRead(s, t, old) /\ t.left = s.left \ {n}
            /\ ~(s.oldnum < n) /\ n # LATER /\ s.oldnum # n =>
                 /\ Written(s, t, Apply(changes[n], n, Entity(n, Baseline)))
                 /\ t.index = s.index /\ t.oldnum = s.oldnum
                 /\ t.left = s.left \ {n}
<1> DEFINE t == ParseEntity(s, changes, old)
           n == NextChange(s)
           e == OldEntity(s, old)
<1>1. e \in Entities
  BY OldEntityIs
<1>2. CASE s.oldnum < n
  <2>1. t = NextOld(Store(s, e), old)
    BY <1>2 DEF ParseEntity
  <2> HIDE DEF t, n, e
  <2>2. Store(s, e) \in ParseStates
    BY <1>1, StoreIs
  <2>3. Written(s, t, e) /\ OldRead(s, t, old) /\ t.left = s.left
    BY <1>1, <2>1, <2>2, StoreIs, NextOldIs DEF Written, OldRead
  <2> QED BY <1>2, <2>3 DEF t, n, e
<1>3. CASE ~(s.oldnum < n) /\ n = LATER
  <2>1. t = s
    BY <1>3 DEF ParseEntity
  <2> QED BY <1>3, <2>1
<1>4. ASSUME n # LATER, NEW from \in Entities
      PROVE  Apply(changes[n], n, from) \in Entities
  <2>1. n \in s.left /\ n \in 0 .. GONE - 1
    BY <1>4, NextChangeIs
  <2>2. PICK o \in Views, w \in Views : changes = SV_EmitPacketEntities(o, w)
    BY DEF ChangeLists
  <2>3. changes[n].kind \in {"remove", "same", "set"} /\ changes[n].value \in Nat
    BY <2>1, <2>2, ChangesAre
  <2> QED BY <1>4, <2>1, <2>3, AppliedIs
<1>5. CASE ~(s.oldnum < n) /\ n # LATER /\ s.oldnum = n
  <2> DEFINE a == Apply(changes[n], n, e)
             u == NextOld(Store(s, a), old)
  <2> DEFINE r == [u EXCEPT !.left = u.left \ {n}]
  <2>1. t = r
    BY <1>5 DEF ParseEntity
  <2>2. a \in Entities
    BY <1>1, <1>4, <1>5
  <2> HIDE DEF t, n, e, a
  <2>3. Store(s, a) \in ParseStates
    BY <2>2, StoreIs
  <2>4. u \in ParseStates /\ u.left = s.left /\ Written(s, u, a) /\ OldRead(s, u, old)
    BY <2>2, <2>3, StoreIs, NextOldIs DEF Written, OldRead
  <2> HIDE DEF u
  <2>5. /\ r \in ParseStates /\ r.ring = u.ring /\ r.next = u.next
        /\ r.index = u.index /\ r.oldnum = u.oldnum /\ r.left = u.left \ {n}
    BY <2>4, ReadIs
  <2> HIDE DEF r
  <2>6. Written(s, t, a) /\ OldRead(s, t, old) /\ t.left = s.left \ {n}
    BY <2>1, <2>4, <2>5 DEF Written, OldRead
  <2> QED BY <1>5, <2>6 DEF t, n, e, a
<1>6. CASE ~(s.oldnum < n) /\ n # LATER /\ s.oldnum # n
  <2> DEFINE a == Apply(changes[n], n, Entity(n, Baseline))
             u == Store(s, a)
  <2> DEFINE r == [u EXCEPT !.left = u.left \ {n}]
  <2>1. t = r
    BY <1>6 DEF ParseEntity
  <2>2. Entity(n, Baseline) \in Entities
    <3>1. n \in Nat
      BY <1>6, NextChangeIs DEF GONE
    <3> QED BY <3>1 DEF Entity, Entities, Baseline
  <2>3. a \in Entities
    BY <1>4, <1>6, <2>2
  <2> HIDE DEF t, n, e, a
  <2>4. /\ u \in ParseStates /\ u.left = s.left /\ Written(s, u, a)
        /\ u.index = s.index /\ u.oldnum = s.oldnum
    BY <2>3, StoreIs DEF Written
  <2> HIDE DEF u
  <2>5. /\ r \in ParseStates /\ r.ring = u.ring /\ r.next = u.next
        /\ r.index = u.index /\ r.oldnum = u.oldnum /\ r.left = u.left \ {n}
    BY <2>4, ReadIs
  <2> HIDE DEF r
  <2>6. /\ Written(s, t, a) /\ t.left = s.left \ {n}
        /\ t.index = s.index /\ t.oldnum = s.oldnum
    BY <2>1, <2>4, <2>5 DEF Written
  <2> QED BY <1>6, <2>6 DEF t, n, e, a
<1> QED BY <1>2, <1>3, <1>5, <1>6

(* A step writes the next slot only.                                       *)
LEMMA StepWrites ==
  ASSUME NEW s \in ParseStates, NEW t, NEW e, Written(s, t, e)
  PROVE  /\ t \in ParseStates /\ s.next <= t.next /\ t.next <= s.next + 1
         /\ t.ring[s.next % MAX_PARSE_ENTITIES] = e
         /\ \A p \in Nat : p < s.next /\ p + MAX_PARSE_ENTITIES > s.next =>
              t.ring[p % MAX_PARSE_ENTITIES] = s.ring[p % MAX_PARSE_ENTITIES]
<1>1. s.next \in Nat /\ s.ring \in ParseRings
  BY DEF ParseStates
<1>2. s.next % MAX_PARSE_ENTITIES \in 0 .. MAX_PARSE_ENTITIES - 1
  BY <1>1, ParseSlot
<1>3. ASSUME NEW p \in Nat, p < s.next, p + MAX_PARSE_ENTITIES > s.next
      PROVE  t.ring[p % MAX_PARSE_ENTITIES] = s.ring[p % MAX_PARSE_ENTITIES]
  <2>1. p % MAX_PARSE_ENTITIES # s.next % MAX_PARSE_ENTITIES
    <3>1. s.next < p + MAX_PARSE_ENTITIES
      BY <1>1, <1>3, RingsAssumption
    <3> QED BY <1>1, <1>3, <3>1, RingsAssumption, SlotsOfNeighbours
  <2>2. p % MAX_PARSE_ENTITIES \in 0 .. MAX_PARSE_ENTITIES - 1
    BY ParseSlot
  <2> QED BY <1>1, <2>1, <2>2 DEF Written, ParseRings
<1>4. t.ring[s.next % MAX_PARSE_ENTITIES] = e
  BY <1>1, <1>2 DEF Written, ParseRings
<1>5. t \in ParseStates /\ s.next <= t.next /\ t.next <= s.next + 1
  BY <1>1 DEF Written
<1> QED BY <1>3, <1>4, <1>5

(* The states of the parsing, one after the other.                         *)
Parsed(f, s, changes, old, b) ==
    f = [n \in 0 .. b |-> IF n = 0 THEN s ELSE ParseEntity(f[n - 1], changes, old)]

(* They exist: the state before a step tells the state after it.           *)
LEMMA ParsedExists ==
  ASSUME NEW s, NEW changes, NEW old, NEW b \in Nat
  PROVE  \E f : Parsed(f, s, changes, old, b)
<1> DEFINE S == {e \in Nat : ~ \E f : Parsed(f, s, changes, old, e)}
<1>1. SUFFICES ASSUME S # {} PROVE FALSE
  OBVIOUS
<1>2. PICK e \in S : \A d \in S : e <= d
  <2> HIDE DEF S
  <2>1. S \subseteq Nat
    BY DEF S
  <2> QED BY <1>1, <2>1, LeastNumber
<1>3. e \in Nat /\ ~ \E f : Parsed(f, s, changes, old, e)
  OBVIOUS
<1>4. CASE e = 0
  <2> DEFINE f == [n \in 0 .. 0 |-> s]
  <2>1. f = [n \in 0 .. 0 |-> IF n = 0 THEN s ELSE ParseEntity(f[n - 1], changes, old)]
    <3>1. \A n \in 0 .. 0 : n = 0
      OBVIOUS
    <3> QED BY <3>1
  <2>2. Parsed(f, s, changes, old, e)
    BY <1>4, <2>1 DEF Parsed
  <2> QED BY <1>3, <2>2
<1>5. CASE e # 0
  <2>1. e - 1 \in Nat /\ ~(e <= e - 1)
    BY <1>3, <1>5
  <2>2. PICK f : Parsed(f, s, changes, old, e - 1)
    BY <1>2, <2>1
  <2> DEFINE g == [n \in 0 .. e |-> IF n <= e - 1 THEN f[n]
                                    ELSE ParseEntity(f[e - 1], changes, old)]
  <2>3. ASSUME NEW n \in 0 .. e
        PROVE  g[n] = IF n = 0 THEN s ELSE ParseEntity(g[n - 1], changes, old)
    <3>1. n \in Nat /\ n - 1 <= e - 1
      BY <1>3
    <3>2. CASE n <= e - 1
      <4>1. n \in 0 .. e - 1
        BY <1>3, <3>1, <3>2
      <4>2. f[n] = IF n = 0 THEN s ELSE ParseEntity(f[n - 1], changes, old)
        BY <2>2, <4>1 DEF Parsed
      <4>3. n # 0 => n - 1 \in 0 .. e /\ n - 1 <= e - 1
        BY <1>3, <3>1, <4>1
      <4>4. n # 0 => g[n - 1] = f[n - 1]
        BY <4>3
      <4>5. g[n] = f[n]
        BY <3>2
      <4> QED BY <4>2, <4>4, <4>5
    <3>3. CASE ~(n <= e - 1)
      <4>1. n = e
        BY <1>3, <3>1, <3>3
      <4>2. e - 1 \in 0 .. e /\ e - 1 <= e - 1
        BY <1>3, <2>1
      <4>3. g[e - 1] = f[e - 1]
        BY <4>2
      <4>4. g[n] = ParseEntity(f[e - 1], changes, old)
        BY <3>3
      <4> QED BY <1>5, <4>1, <4>3, <4>4
    <3> QED BY <3>2, <3>3
  <2>4. g = [n \in 0 .. e |-> g[n]]
    OBVIOUS
  <2> HIDE DEF g
  <2>5. Parsed(g, s, changes, old, e)
    BY <2>3, <2>4 DEF Parsed
  <2> QED BY <1>3, <2>5
<1> QED BY <1>4, <1>5

(* Where the parsing starts.                                               *)
Start(changes, old) ==
    Look([ring |-> parseEntities, next |-> parseEntitiesNum, index |-> 0,
          oldnum |-> LATER, left |-> DOMAIN changes], old)
StepsOf(changes, old) == Cardinality(DOMAIN changes) + old.num

(* The types of the client's ring and position.                            *)
ParseTypes == parseEntities \in ParseRings /\ parseEntitiesNum \in Nat

(* Where the parsing starts.                                               *)
LEMMA StartIs ==
  ASSUME ParseTypes, NEW changes, DOMAIN changes \subseteq 0 .. GONE - 1,
         NEW old, old.first \in Nat, old.num \in Nat
  PROVE  LET s == Start(changes, old) IN
         /\ s \in ParseStates
         /\ s.ring = parseEntities /\ s.next = parseEntitiesNum
         /\ s.index = 0 /\ s.left = DOMAIN changes
         /\ s.oldnum = IF 0 >= old.num THEN LATER
                       ELSE parseEntities[old.first % MAX_PARSE_ENTITIES].number
<1> DEFINE r == [ring |-> parseEntities, next |-> parseEntitiesNum, index |-> 0,
                 oldnum |-> LATER, left |-> DOMAIN changes]
           s == Start(changes, old)
           n == IF 0 >= old.num THEN LATER
                ELSE parseEntities[old.first % MAX_PARSE_ENTITIES].number
<1>1. s = [r EXCEPT !.oldnum = n]
  <2>1. old.first + 0 = old.first
    OBVIOUS
  <2> QED BY <2>1 DEF Start, Look, OldEntity
<1>2. n \in Nat
  <2>1. old.first % MAX_PARSE_ENTITIES \in 0 .. MAX_PARSE_ENTITIES - 1
    BY ParseSlot
  <2>2. parseEntities[old.first % MAX_PARSE_ENTITIES].number \in Nat
    BY <2>1 DEF ParseTypes, ParseRings, Entities
  <2> QED BY <2>2 DEF LATER
<1> HIDE DEF n
<1>3. s = [ring |-> parseEntities, next |-> parseEntitiesNum, index |-> 0,
           oldnum |-> n, left |-> DOMAIN changes]
  BY <1>1
<1> HIDE DEF s
<1>4. s \in ParseStates
  BY <1>2, <1>3 DEF ParseTypes, ParseStates
<1>5. /\ s.ring = parseEntities /\ s.next = parseEntitiesNum
      /\ s.index = 0 /\ s.left = DOMAIN changes /\ s.oldnum = n
  BY <1>3
<1> QED BY <1>4, <1>5 DEF s, n

(* The parsing is what is computed one by one.                             *)
LEMMA ParsedOneByOne ==
  ASSUME NEW changes, NEW old, StepsOf(changes, old) \in Nat
  PROVE  \E f : /\ Parsed(f, Start(changes, old), changes, old,
                          StepsOf(changes, old))
                /\ CL_ParsePacketEntities(changes, old)
                     = f[StepsOf(changes, old)]
<1> DEFINE b == StepsOf(changes, old)
           f == CHOOSE f : f = [n \in 0 .. b |->
                  IF n = 0 THEN Start(changes, old)
                           ELSE ParseEntity(f[n - 1], changes, old)]
<1>1. \E g : Parsed(g, Start(changes, old), changes, old, b)
  BY ParsedExists
<1>2. Parsed(f, Start(changes, old), changes, old, b)
  BY <1>1 DEF Parsed
<1>3. CL_ParsePacketEntities(changes, old) = f[b]
  BY DEF CL_ParsePacketEntities, Start, StepsOf
<1> QED BY <1>2, <1>3

(* Whatever the changes are made to, nothing but the oldest entities is    *)
(* lost.                                                                   *)
Moved(s, changes) ==
    /\ s \in ParseStates /\ s.left \subseteq DOMAIN changes
    /\ parseEntitiesNum <= s.next
    /\ \A p \in Nat : p < parseEntitiesNum /\ p + MAX_PARSE_ENTITIES > s.next =>
         s.ring[p % MAX_PARSE_ENTITIES] = parseEntities[p % MAX_PARSE_ENTITIES]

(* A step of the parsing only writes behind what is kept.                  *)
LEMMA StepMoves ==
  ASSUME ParseTypes, NEW changes \in ChangeLists, NEW s, Moved(s, changes),
         NEW old, old.first \in Nat, old.num \in Nat
  PROVE  Moved(ParseEntity(s, changes, old), changes)
<1> DEFINE t == ParseEntity(s, changes, old)
<1>1. s \in ParseStates /\ s.left \subseteq DOMAIN changes
  BY DEF Moved
<1>2. CASE t = s
  BY <1>2
<1>3. ASSUME NEW e, Written(s, t, e), t.left \subseteq s.left
      PROVE  Moved(t, changes)
  <2>1. /\ t \in ParseStates /\ s.next <= t.next
        /\ \A p \in Nat : p < s.next /\ p + MAX_PARSE_ENTITIES > s.next =>
             t.ring[p % MAX_PARSE_ENTITIES] = s.ring[p % MAX_PARSE_ENTITIES]
    <3> HIDE DEF t
    <3> QED BY <1>1, <1>3, StepWrites
  <2> HIDE DEF t
  <2>2. s.next \in Nat /\ t.next \in Nat /\ parseEntitiesNum \in Nat
        /\ MAX_PARSE_ENTITIES \in Nat
    BY <1>1, <2>1, RingsAssumption DEF ParseStates, ParseTypes
  <2>3. ASSUME NEW p \in Nat, p < parseEntitiesNum, p + MAX_PARSE_ENTITIES > t.next
        PROVE  t.ring[p % MAX_PARSE_ENTITIES]
                 = parseEntities[p % MAX_PARSE_ENTITIES]
    <3>1. p < s.next /\ p + MAX_PARSE_ENTITIES > s.next
      BY <2>1, <2>2, <2>3 DEF Moved
    <3> QED BY <2>1, <2>3, <3>1 DEF Moved
  <2>4. parseEntitiesNum <= t.next
    BY <2>1, <2>2 DEF Moved
  <2> QED BY <1>1, <1>3, <2>1, <2>3, <2>4 DEF Moved
<1>4. t = s \/ \E e : Written(s, t, e) /\ t.left \subseteq s.left
  <2> DEFINE n == NextChange(s)
  <2>1. /\ s.oldnum < n => Written(s, t, OldEntity(s, old)) /\ t.left = s.left
        /\ ~(s.oldnum < n) /\ n = LATER => t = s
        /\ ~(s.oldnum < n) /\ n # LATER /\ s.oldnum = n =>
             /\ Written(s, t, Apply(changes[n], n, OldEntity(s, old)))
             /\ t.left = s.left \ {n}
        /\ ~(s.oldnum < n) /\ n # LATER /\ s.oldnum # n =>
             /\ Written(s, t, Apply(changes[n], n, Entity(n, Baseline)))
             /\ t.left = s.left \ {n}
    BY <1>1, StepIs
  <2> HIDE DEF t, n
  <2> QED BY <2>1
<1> HIDE DEF t
<1>5. Moved(t, changes)
  BY <1>2, <1>3, <1>4
<1> QED BY <1>5 DEF t

(* The parsing of any changes, against any old list, only writes behind    *)
(* what is kept.                                                           *)
LEMMA ParseMoves ==
  ASSUME ParseTypes, NEW changes \in ChangeLists,
         NEW old, old.first \in Nat, old.num \in Nat
  PROVE  Moved(CL_ParsePacketEntities(changes, old), changes)
<1> DEFINE b == StepsOf(changes, old)
<1>1. PICK v \in Views, w \in Views : changes = SV_EmitPacketEntities(v, w)
  BY DEF ChangeLists
<1>2. b \in Nat /\ DOMAIN changes \subseteq 0 .. GONE - 1
  BY <1>1, ChangesAre DEF StepsOf
<1>3. PICK f : /\ Parsed(f, Start(changes, old), changes, old, b)
               /\ CL_ParsePacketEntities(changes, old) = f[b]
  BY <1>2, ParsedOneByOne
<1>4. Moved(Start(changes, old), changes)
  <2>1. parseEntitiesNum <= parseEntitiesNum
    BY DEF ParseTypes
  <2> QED BY <1>2, <2>1, StartIs DEF Moved
<1> HIDE DEF b
<1> DEFINE S == {n \in Nat : n <= b /\ ~Moved(f[n], changes)}
<1>5. ASSUME S # {} PROVE FALSE
  <2>1. PICK n \in S : \A m \in S : n <= m
    <3> HIDE DEF S
    <3>1. S \subseteq Nat
      BY DEF S
    <3> QED BY <1>5, <3>1, LeastNumber
  <2>2. n \in Nat /\ n <= b /\ ~Moved(f[n], changes) /\ n \in 0 .. b
    BY <1>2
  <2>3. f[n] = IF n = 0 THEN Start(changes, old)
               ELSE ParseEntity(f[n - 1], changes, old)
    BY <1>3, <2>2 DEF Parsed
  <2>4. n # 0
    BY <1>4, <2>2, <2>3
  <2>5. n - 1 \in Nat /\ n - 1 <= b /\ ~(n <= n - 1)
    BY <1>2, <2>2, <2>4
  <2>6. Moved(f[n - 1], changes)
    BY <2>1, <2>5
  <2> QED BY <2>2, <2>3, <2>4, <2>6, StepMoves
<1> QED BY <1>2, <1>3, <1>5

(* An entity of a view has a number below GONE.                            *)
LEMMA NumberIs ==
  ASSUME NEW v \in Views, NEW i \in DOMAIN v
  PROVE  v[i].number \in 0 .. GONE - 1 /\ v[i].number \in Nat
<1>1. v[i] \in ViewEntities
  BY ViewIs
<1>2. v[i].number \in 0 .. GONE - 1
  BY <1>1 DEF ViewEntities
<1>3. \A n \in 0 .. GONE - 1 : n \in Nat
  BY DEF GONE
<1> QED BY <1>2, <1>3

(* The entities of v that come before number x are the first m.            *)
Before(v, m, x) ==
    m \in 0 .. Len(v) /\ \A i \in DOMAIN v : i <= m <=> v[i].number < x

(* After the number y, the next of those that are left, there is one more  *)
(* if v has an entity of that number.                                      *)
LEMMA BeforeNext ==
  ASSUME NEW v \in Views, NEW m, NEW x \in Nat, NEW y \in Nat,
         Before(v, m, x), x <= y, \A q \in Numbers(v) : q < x \/ y <= q
  PROVE  /\ y \in Numbers(v) => /\ m + 1 \in DOMAIN v /\ v[m + 1].number = y
                                /\ Before(v, m + 1, y + 1)
         /\ y \notin Numbers(v) => Before(v, m, y + 1)
<1>1. /\ Len(v) \in Nat /\ DOMAIN v = 1 .. Len(v)
      /\ \A i \in DOMAIN v : v[i].number \in Nat /\ v[i].number \in Numbers(v)
      /\ \A i, j \in DOMAIN v : i < j => v[i].number < v[j].number
      /\ \A i, j \in DOMAIN v : v[i].number = v[j].number => i = j
  <2>1. \A i \in DOMAIN v : v[i].number \in Nat
    BY NumberIs
  <2> QED BY <2>1, ViewIs DEF Numbers
<1>2. m \in 0 .. Len(v) /\ \A i \in DOMAIN v : i <= m <=> v[i].number < x
  BY DEF Before
<1>3. ASSUME y \in Numbers(v)
      PROVE  /\ m + 1 \in DOMAIN v /\ v[m + 1].number = y
             /\ Before(v, m + 1, y + 1)
  <2>1. PICK k \in DOMAIN v : v[k].number = y
    BY <1>3 DEF Numbers
  <2>2. ~(k <= m)
    BY <1>2, <2>1
  <2>3. m + 1 \in DOMAIN v /\ m + 1 <= k /\ ~(m + 1 <= m)
    BY <1>1, <1>2, <2>1, <2>2
  <2>4. v[m + 1].number >= y
    BY <1>1, <1>2, <2>3
  <2>5. k = m + 1
    BY <1>1, <1>2, <2>1, <2>3, <2>4
  <2>6. ASSUME NEW i \in DOMAIN v PROVE i <= m + 1 <=> v[i].number < y + 1
    <3>1. CASE i <= m
      BY <1>1, <1>2, <3>1
    <3>2. CASE i = m + 1
      BY <1>1, <1>2, <2>1, <2>5, <3>2
    <3>3. CASE m + 1 < i
      <4>1. y < v[i].number
        BY <1>1, <2>1, <2>5, <3>3
      <4> QED BY <1>1, <1>2, <3>3, <4>1
    <3> QED BY <1>1, <1>2, <3>1, <3>2, <3>3
  <2>7. m + 1 \in 0 .. Len(v)
    BY <1>1, <1>2, <2>3
  <2> QED BY <2>1, <2>3, <2>5, <2>6, <2>7 DEF Before
<1>4. ASSUME y \notin Numbers(v) PROVE Before(v, m, y + 1)
  <2>1. ASSUME NEW i \in DOMAIN v PROVE v[i].number < x <=> v[i].number < y + 1
    <3>1. v[i].number # y
      BY <1>1, <1>4
    <3> QED BY <1>1, <3>1
  <2> QED BY <1>2, <2>1 DEF Before
<1> QED BY <1>3, <1>4

-----------------------------------------------------------------------------
(* The parsing makes the new list of the old one.                          *)

(* The old list is there, and what is written does not reach an entity of  *)
(* it before it has been read.                                             *)
Room(old, v, w) ==
    /\ v \in Views /\ w \in Views /\ old.first \in Nat /\ old.num = Len(v)
    /\ \A i \in DOMAIN v : LET p == old.first + i - 1 IN
         /\ p < parseEntitiesNum /\ parseEntitiesNum < p + MAX_PARSE_ENTITIES
         /\ parseEntities[p % MAX_PARSE_ENTITIES] = v[i]
         /\ \A j \in DOMAIN w : w[j].number < v[i].number =>
              parseEntitiesNum + j <= p + MAX_PARSE_ENTITIES

(* What comes before number x has been read, and written.                  *)
Count(s) == s.next - parseEntitiesNum
Right(s, old, v, w, x) ==
    /\ s \in ParseStates
    /\ parseEntitiesNum <= s.next
    /\ Before(v, s.index, x) /\ Before(w, Count(s), x)
    /\ s.left = {n \in Changed(v, w) : n >= x}
    /\ s.oldnum = IF s.index >= Len(v) THEN LATER ELSE v[s.index + 1].number
    /\ \A i \in DOMAIN v : i > s.index =>
         s.ring[(old.first + i - 1) % MAX_PARSE_ENTITIES] = v[i]
    /\ \A j \in DOMAIN w : LET p == parseEntitiesNum + j - 1 IN
         j <= Count(s) /\ p + MAX_PARSE_ENTITIES > s.next =>
           s.ring[p % MAX_PARSE_ENTITIES] = w[j]

(* A position that is less than a ring behind is not written.              *)
LEMMA NotReached ==
  ASSUME ParseTypes, NEW old, NEW v, NEW w, Room(old, v, w),
         NEW s, NEW x \in Nat, Right(s, old, v, w, x),
         NEW y \in Nat, x <= y, \A q \in Numbers(w) : q < x \/ y <= q,
         NEW i \in DOMAIN v, v[i].number >= y + 1,
         y \in Numbers(w) \/ i > s.index + 1
  PROVE  s.next < old.first + i - 1 + MAX_PARSE_ENTITIES
<1> DEFINE p == old.first + i - 1
           k == Count(s)
<1>1. v \in Views /\ w \in Views /\ old.first \in Nat
  BY DEF Room
<1>2. s.next \in Nat /\ parseEntitiesNum \in Nat /\ MAX_PARSE_ENTITIES \in Nat
      /\ s.index \in Nat
  BY RingsAssumption DEF Right, ParseStates, ParseTypes
<1>3. i \in Nat /\ DOMAIN v = 1 .. Len(v) /\ Len(v) \in Nat
      /\ DOMAIN w = 1 .. Len(w) /\ Len(w) \in Nat
  BY <1>1, ViewIs
<1>4. k \in 0 .. Len(w) /\ s.next = parseEntitiesNum + k
  BY <1>2 DEF Right, Before, Count
<1>5. \A n \in DOMAIN v : v[n].number \in Nat
  BY <1>1, NumberIs
<1>6. \A n \in DOMAIN w : w[n].number \in Nat
  BY <1>1, NumberIs
<1> HIDE DEF k
<1>7. CASE y \in Numbers(w)
  <2>1. k + 1 \in DOMAIN w /\ w[k + 1].number = y
    <3>1. Before(w, k, x)
      BY DEF Right, k
    <3> QED BY <1>1, <1>7, <3>1, BeforeNext
  <2>2. w[k + 1].number < v[i].number
    BY <1>5, <2>1
  <2>3. parseEntitiesNum + (k + 1) <= p + MAX_PARSE_ENTITIES
    BY <2>1, <2>2 DEF Room
  <2> QED BY <1>1, <1>2, <1>3, <1>4, <2>3
<1>8. CASE i > s.index + 1
  <2> DEFINE i1 == s.index + 1
  <2>1. i1 \in DOMAIN v /\ i1 < i
    BY <1>2, <1>3, <1>8
  <2>2. ~(v[i1].number < x)
    BY <1>2, <2>1 DEF Right, Before
  <2>3. CASE k = 0
    <3>1. parseEntitiesNum < p + MAX_PARSE_ENTITIES
      BY DEF Room
    <3> QED BY <1>2, <1>4, <2>3, <3>1
  <2>4. CASE k # 0
    <3>1. k \in DOMAIN w /\ k <= k
      BY <1>3, <1>4, <2>4
    <3>2. w[k].number < x
      BY <3>1 DEF Right, Before, k
    <3>3. w[k].number < v[i1].number
      BY <1>5, <1>6, <2>1, <2>2, <3>1, <3>2
    <3>4. parseEntitiesNum + k <= old.first + i1 - 1 + MAX_PARSE_ENTITIES
      BY <2>1, <3>1, <3>3 DEF Room
    <3>5. k \in Nat /\ i1 \in Nat
      BY <1>2, <1>3, <1>4
    <3> HIDE DEF i1
    <3> QED BY <1>1, <1>2, <1>3, <1>4, <2>1, <3>4, <3>5
  <2> QED BY <2>3, <2>4
<1> QED BY <1>7, <1>8

(* When an entity of number y has been read or written, or both, what      *)
(* comes before y + 1 is right.                                            *)
LEMMA OneWritten ==
  ASSUME ParseTypes, NEW old, NEW v, NEW w, Room(old, v, w),
         NEW s, NEW x \in Nat, Right(s, old, v, w, x),
         NEW y \in 0 .. GONE - 1, x <= y,
         \A q \in Numbers(v) \cup Numbers(w) : q < x \/ y <= q,
         NEW t, NEW e, Written(s, t, e),
         t.left = {n \in Changed(v, w) : n >= y + 1},
         \/ y \in Numbers(v) /\ OldRead(s, t, old)
         \/ y \notin Numbers(v) /\ t.index = s.index /\ t.oldnum = s.oldnum,
         \/ y \in Numbers(w) /\ e = Entity(y, ValueIn(w, y))
         \/ y \notin Numbers(w) /\ y \in Numbers(v) /\ e.number = GONE
  PROVE  Right(t, old, v, w, y + 1)
<1> DEFINE k == Count(s)
<1>1. v \in Views /\ w \in Views /\ old.first \in Nat /\ old.num = Len(v)
  BY DEF Room
<1>2. s.next \in Nat /\ parseEntitiesNum \in Nat /\ MAX_PARSE_ENTITIES \in Nat
      /\ s.index \in Nat /\ s \in ParseStates /\ y \in Nat /\ y # GONE
  <2>1. y \in Nat /\ y # GONE
    BY DEF GONE
  <2> QED BY <2>1, RingsAssumption DEF Right, ParseStates, ParseTypes
<1>3. DOMAIN v = 1 .. Len(v) /\ Len(v) \in Nat
      /\ DOMAIN w = 1 .. Len(w) /\ Len(w) \in Nat
  BY <1>1, ViewIs
<1>4. k \in 0 .. Len(w) /\ s.next = parseEntitiesNum + k
  BY <1>2 DEF Right, Before, Count
<1>5. Before(v, s.index, x) /\ Before(w, k, x)
  BY DEF Right
<1>6. /\ t \in ParseStates /\ s.next <= t.next /\ t.next <= s.next + 1
      /\ t.ring[s.next % MAX_PARSE_ENTITIES] = e
      /\ \A p \in Nat : p < s.next /\ p + MAX_PARSE_ENTITIES > s.next =>
           t.ring[p % MAX_PARSE_ENTITIES] = s.ring[p % MAX_PARSE_ENTITIES]
      /\ t.next \in Nat
  <2>1. t \in ParseStates
    BY DEF Written
  <2> QED BY <1>2, <2>1, StepWrites DEF ParseStates
<1>7. /\ y \in Numbers(v) => t.index = s.index + 1 /\ s.index + 1 \in DOMAIN v
                             /\ v[s.index + 1].number = y
      /\ y \notin Numbers(v) => t.index = s.index
      /\ Before(v, t.index, y + 1)
  <2>1. \A q \in Numbers(v) : q < x \/ y <= q
    OBVIOUS
  <2> QED BY <1>1, <1>2, <1>5, <2>1, BeforeNext DEF OldRead
<1>8. /\ y \in Numbers(w) => /\ k + 1 \in DOMAIN w /\ w[k + 1].number = y
                             /\ e = w[k + 1] /\ t.next = s.next + 1
      /\ y \notin Numbers(w) => t.next = s.next
      /\ Before(w, Count(t), y + 1)
  <2>1. \A q \in Numbers(w) : q < x \/ y <= q
    OBVIOUS
  <2>2. CASE y \in Numbers(w)
    <3>1. k + 1 \in DOMAIN w /\ w[k + 1].number = y /\ Before(w, k + 1, y + 1)
      BY <1>1, <1>2, <1>5, <2>1, <2>2, BeforeNext
    <3>2. e = w[k + 1]
      BY <1>1, <2>2, <3>1, ValueIs
    <3>3. t.next = s.next + 1
      BY <1>2, <2>2 DEF Written, Entity
    <3>4. Count(t) = k + 1
      BY <1>2, <3>3 DEF Count
    <3> QED BY <2>2, <3>1, <3>2, <3>3, <3>4
  <2>3. CASE y \notin Numbers(w)
    <3>1. t.next = s.next
      BY <2>3 DEF Written
    <3>2. Before(w, k, y + 1)
      BY <1>1, <1>2, <1>5, <2>1, <2>3, BeforeNext
    <3> QED BY <2>3, <3>1, <3>2 DEF Count
  <2> QED BY <2>2, <2>3
<1> HIDE DEF k
<1>9. ASSUME NEW i \in DOMAIN v, i > t.index
      PROVE  t.ring[(old.first + i - 1) % MAX_PARSE_ENTITIES] = v[i]
  <2>1. i > s.index /\ i \in Nat
    BY <1>2, <1>3, <1>7, <1>9
  <2>2. v[i].number >= y + 1
    <3>1. ~(i <= t.index)
      BY <1>2, <1>3, <1>7, <1>9
    <3>2. ~(v[i].number < y + 1)
      BY <1>7, <3>1 DEF Before
    <3>3. v[i].number \in Nat
      BY <1>1, NumberIs
    <3> QED BY <1>2, <3>2, <3>3
  <2>3. y \in Numbers(w) \/ i > s.index + 1
    BY <1>2, <1>3, <1>7, <1>9
  <2>4. s.next < old.first + i - 1 + MAX_PARSE_ENTITIES
    BY <1>2, <2>2, <2>3, NotReached
  <2>5. old.first + i - 1 < parseEntitiesNum
    BY DEF Room
  <2>6. old.first + i - 1 \in Nat /\ old.first + i - 1 < s.next
        /\ old.first + i - 1 + MAX_PARSE_ENTITIES > s.next
    BY <1>1, <1>2, <1>3, <1>4, <2>1, <2>4, <2>5
  <2>7. s.ring[(old.first + i - 1) % MAX_PARSE_ENTITIES] = v[i]
    BY <2>1 DEF Right
  <2> QED BY <1>6, <2>6, <2>7
<1>10. ASSUME NEW j \in DOMAIN w, j <= Count(t),
              parseEntitiesNum + j - 1 + MAX_PARSE_ENTITIES > t.next
       PROVE  t.ring[(parseEntitiesNum + j - 1) % MAX_PARSE_ENTITIES] = w[j]
  <2>1. j \in Nat /\ j >= 1 /\ parseEntitiesNum + j - 1 \in Nat
    BY <1>2, <1>3
  <2>2. CASE j <= k
    <3>1. parseEntitiesNum + j - 1 < s.next
          /\ parseEntitiesNum + j - 1 + MAX_PARSE_ENTITIES > s.next
      BY <1>2, <1>3, <1>4, <1>6, <1>10, <2>1, <2>2
    <3>2. s.ring[(parseEntitiesNum + j - 1) % MAX_PARSE_ENTITIES] = w[j]
      BY <2>2, <3>1 DEF Right, k
    <3> QED BY <1>6, <2>1, <3>1, <3>2
  <2>3. CASE ~(j <= k)
    <3>1. Count(t) <= k + 1 /\ Count(t) \in Nat /\ k \in Nat
      BY <1>2, <1>3, <1>4, <1>6 DEF Count
    <3>2. j = k + 1 /\ Count(t) = k + 1
      BY <1>10, <2>1, <2>3, <3>1
    <3>4. t.next # s.next
      BY <1>2, <1>4, <1>6, <3>1, <3>2 DEF Count
    <3>3. y \in Numbers(w) /\ parseEntitiesNum + j - 1 = s.next
      BY <1>2, <1>4, <1>8, <3>1, <3>2, <3>4
    <3> QED BY <1>6, <1>8, <3>2, <3>3
  <2> QED BY <2>2, <2>3
<1>11. t.oldnum = IF t.index >= Len(v) THEN LATER ELSE v[t.index + 1].number
  <2>1. CASE y \in Numbers(v)
    <3>1. t.oldnum = IF t.index >= old.num THEN LATER
                     ELSE t.ring[(old.first + t.index) % MAX_PARSE_ENTITIES].number
      BY <2>1 DEF OldRead
    <3>2. CASE t.index >= Len(v)
      BY <1>1, <3>1, <3>2
    <3>3. CASE ~(t.index >= Len(v))
      <4>1. t.index + 1 \in DOMAIN v /\ t.index + 1 > t.index
            /\ old.first + (t.index + 1) - 1 = old.first + t.index
        BY <1>1, <1>2, <1>3, <1>7, <2>1, <3>3
      <4> HIDE <1>7
      <4>2. t.ring[(old.first + t.index) % MAX_PARSE_ENTITIES] = v[t.index + 1]
        BY <1>9, <4>1
      <4> QED BY <1>1, <3>1, <3>3, <4>2
    <3> QED BY <3>2, <3>3
  <2>2. CASE y \notin Numbers(v)
    BY <1>7, <2>2 DEF Right
  <2> QED BY <2>1, <2>2
<1>12. parseEntitiesNum <= t.next
  BY <1>2, <1>4, <1>3, <1>6
<1> QED BY <1>6, <1>7, <1>8, <1>9, <1>10, <1>11, <1>12 DEF Right

(* The numbers that are left are those from the next one on.               *)
LEMMA NumbersAhead ==
  ASSUME NEW old, NEW v, NEW w, Room(old, v, w),
         NEW s, NEW x \in Nat, Right(s, old, v, w, x)
  PROVE  /\ s.oldnum # LATER => /\ s.index + 1 \in DOMAIN v
                                /\ v[s.index + 1].number = s.oldnum
                                /\ s.oldnum \in Numbers(v)
                                /\ s.oldnum \in 0 .. GONE - 1 /\ x <= s.oldnum
         /\ s.oldnum = LATER => s.index = Len(v)
         /\ \A q \in Numbers(v) : q < x \/ (s.oldnum # LATER /\ s.oldnum <= q)
         /\ s.left # {} => /\ NextChange(s) \in Changed(v, w)
                           /\ NextChange(s) \in 0 .. GONE - 1
                           /\ x <= NextChange(s)
         /\ \A q \in Changed(v, w) : q < x \/ (s.left # {} /\ NextChange(s) <= q)
<1>1. v \in Views /\ w \in Views /\ s \in ParseStates /\ s.index \in Nat
  BY DEF Room, Right, ParseStates
<1>2. /\ Len(v) \in Nat /\ DOMAIN v = 1 .. Len(v)
      /\ \A i, j \in DOMAIN v : i < j => v[i].number < v[j].number
  BY <1>1, ViewIs
<1>3. \A i \in DOMAIN v : v[i].number \in 0 .. GONE - 1 /\ v[i].number \in Nat
  BY <1>1, NumberIs
<1>4. LATER \notin 0 .. GONE - 1
  BY DEF LATER, GONE
<1>5. /\ s.index \in 0 .. Len(v)
      /\ \A i \in DOMAIN v : i <= s.index <=> v[i].number < x
      /\ s.oldnum = IF s.index >= Len(v) THEN LATER ELSE v[s.index + 1].number
      /\ s.left = {n \in Changed(v, w) : n >= x}
  BY DEF Right, Before
<1>6. CASE s.index >= Len(v)
  <2>1. s.oldnum = LATER /\ s.index = Len(v)
    BY <1>2, <1>5, <1>6
  <2>2. \A q \in Numbers(v) : q < x
    BY <1>2, <1>5, <2>1 DEF Numbers
  <2>3. QED
    <3>1. s.left # {} => /\ NextChange(s) \in Changed(v, w)
                         /\ NextChange(s) \in 0 .. GONE - 1
                         /\ x <= NextChange(s)
      BY <1>1, <1>5, NextChangeIs
    <3>2. ASSUME NEW q \in Changed(v, w)
          PROVE  q < x \/ (s.left # {} /\ NextChange(s) <= q)
      <4>1. q \in Nat
        BY <1>1, <1>3, NumberIs DEF Changed, Numbers
      <4>2. CASE q >= x
        BY <1>1, <1>5, <4>2, NextChangeIs
      <4> QED BY <4>1, <4>2
    <3> QED BY <2>1, <2>2, <3>1, <3>2
<1>7. CASE ~(s.index >= Len(v))
  <2>1. s.index + 1 \in DOMAIN v /\ ~(s.index + 1 <= s.index)
    BY <1>1, <1>2, <1>5, <1>7
  <2>2. s.oldnum = v[s.index + 1].number
    BY <1>5, <1>7
  <2>3. s.oldnum \in 0 .. GONE - 1 /\ s.oldnum \in Nat /\ s.oldnum # LATER
        /\ x <= s.oldnum /\ s.oldnum \in Numbers(v)
    BY <1>3, <1>4, <1>5, <2>1, <2>2 DEF Numbers
  <2>4. ASSUME NEW q \in Numbers(v) PROVE q < x \/ s.oldnum <= q
    <3>1. PICK i \in DOMAIN v : v[i].number = q
      BY DEF Numbers
    <3>2. i \in Nat
      BY <1>2
    <3>3. CASE i <= s.index
      BY <1>5, <3>1, <3>3
    <3>4. CASE i = s.index + 1
      BY <1>3, <2>2, <3>1, <3>4
    <3>5. CASE s.index + 1 < i
      <4>1. v[s.index + 1].number < v[i].number
        BY <1>2, <2>1, <3>5
      <4> QED BY <1>3, <2>1, <2>2, <3>1, <4>1
    <3> QED BY <1>1, <3>2, <3>3, <3>4, <3>5
  <2>5. s.left # {} => /\ NextChange(s) \in Changed(v, w)
                       /\ NextChange(s) \in 0 .. GONE - 1
                       /\ x <= NextChange(s)
    BY <1>1, <1>5, NextChangeIs
  <2>6. ASSUME NEW q \in Changed(v, w)
        PROVE  q < x \/ (s.left # {} /\ NextChange(s) <= q)
    <3>1. q \in Nat
      BY <1>1, <1>3, NumberIs DEF Changed, Numbers
    <3>2. CASE q >= x
      BY <1>1, <1>5, <3>2, NextChangeIs
    <3> QED BY <3>1, <3>2
  <2> QED BY <2>1, <2>2, <2>3, <2>4, <2>5, <2>6
<1> QED BY <1>6, <1>7

(* How much is left.                                                       *)
Work(s, v) == Len(v) - s.index + Cardinality(s.left)

(* What is left is a number; when it is 0 nothing is left.                 *)
LEMMA WorkIs ==
  ASSUME NEW old, NEW v, NEW w, Room(old, v, w),
         NEW s, NEW x, Right(s, old, v, w, x)
  PROVE  /\ IsFiniteSet(s.left) /\ Cardinality(s.left) \in Nat
         /\ s.index \in Nat /\ Len(v) \in Nat /\ s.index <= Len(v)
         /\ Work(s, v) \in Nat
         /\ Work(s, v) = 0 => s.left = {} /\ s.index = Len(v)
<1>1. IsFiniteSet(s.left) /\ Cardinality(s.left) \in Nat
  <2>1. s.left \subseteq 0 .. GONE - 1
    BY DEF Right, ParseStates
  <2>2. IsFiniteSet(0 .. GONE - 1)
    <3>1. 0 \in Int /\ GONE - 1 \in Int
      BY DEF GONE
    <3> QED BY <3>1, FS_Interval
  <2>3. IsFiniteSet(s.left)
    BY <2>1, <2>2, FS_Subset
  <2> QED BY <2>3, FS_CardinalityType
<1>2. s.index \in Nat /\ Len(v) \in Nat /\ s.index <= Len(v)
  <2>1. Len(v) \in Nat
    BY ViewIs DEF Room
  <2> QED BY <2>1 DEF Right, Before
<1>3. Cardinality(s.left) = 0 => s.left = {}
  BY <1>1, FS_EmptySet
<1> HIDE DEF Right
<1> QED BY <1>1, <1>2, <1>3 DEF Work

(* When nothing is left, the new list has been written.                    *)
LEMMA AllWritten ==
  ASSUME ParseTypes, NEW old, NEW v, NEW w, Room(old, v, w),
         NEW s, NEW x \in Nat, Right(s, old, v, w, x), Work(s, v) = 0
  PROVE  s.next = parseEntitiesNum + Len(w)
<1>1. v \in Views /\ w \in Views /\ s.next \in Nat /\ parseEntitiesNum \in Nat
  BY DEF Room, Right, ParseStates, ParseTypes
<1>2. s.left = {} /\ s.oldnum = LATER
  <2>1. s.left = {} /\ s.index = Len(v) /\ s.index \in Nat
    BY WorkIs
  <2>2. s.oldnum = IF s.index >= Len(v) THEN LATER ELSE v[s.index + 1].number
    BY DEF Right
  <2> QED BY <2>1, <2>2
<1>3. ASSUME NEW q \in Numbers(w) PROVE q < x
  <2>1. CASE q \in Changed(v, w)
    BY <1>2, <2>1, NumbersAhead
  <2>2. CASE q \notin Changed(v, w)
    <3>1. q \in Numbers(v)
      BY <2>2 DEF Changed
    <3> QED BY <1>2, <3>1, NumbersAhead
  <2> QED BY <2>1, <2>2
<1>4. /\ Count(s) \in 0 .. Len(w)
      /\ \A i \in DOMAIN w : i <= Count(s) <=> w[i].number < x
  BY DEF Right, Before
<1>5. Len(w) \in Nat /\ DOMAIN w = 1 .. Len(w)
  BY <1>1, ViewIs
<1>6. Count(s) = Len(w)
  <2>1. CASE Len(w) = 0
    BY <1>4, <2>1
  <2>2. CASE Len(w) # 0
    <3>1. Len(w) \in DOMAIN w
      BY <1>5, <2>2
    <3>2. w[Len(w)].number < x
      BY <1>3, <3>1 DEF Numbers
    <3> QED BY <1>4, <1>5, <3>1, <3>2
  <2> QED BY <2>1, <2>2
<1> QED BY <1>1, <1>5, <1>6 DEF Count

(* A step of the parsing.                                                  *)
LEMMA StepRight ==
  ASSUME ParseTypes, NEW old, NEW v, NEW w, Room(old, v, w),
         NEW changes, changes = SV_EmitPacketEntities(v, w),
         NEW s, NEW x \in Nat, Right(s, old, v, w, x)
  PROVE  LET t == ParseEntity(s, changes, old) IN
         \/ t = s /\ Work(s, v) = 0
         \/ \E y \in Nat : Right(t, old, v, w, y) /\ Work(t, v) < Work(s, v)
<1> DEFINE t == ParseEntity(s, changes, old)
           n == NextChange(s)
           o == s.oldnum
<1>1. /\ v \in Views /\ w \in Views /\ old.first \in Nat /\ old.num \in Nat
      /\ s \in ParseStates /\ s.index \in Nat /\ changes \in ChangeLists
  BY ViewIs DEF Room, Right, ParseStates, ChangeLists
<1>2. /\ DOMAIN changes = Changed(v, w) /\ Changed(v, w) \subseteq 0 .. GONE - 1
      /\ \A q \in Changed(v, w) : changes[q] = ChangeOf(v, w, q)
  BY <1>1, ChangesAre
<1>3. s.left = {q \in Changed(v, w) : q >= x} /\ s.left \subseteq DOMAIN changes
  BY <1>2 DEF Right
<1>4. /\ o < n => /\ Written(s, t, OldEntity(s, old))
                  /\ OldRead(s, t, old) /\ t.left = s.left
      /\ ~(o < n) /\ n = LATER => t = s
      /\ ~(o < n) /\ n # LATER /\ o = n =>
           /\ Written(s, t, Apply(changes[n], n, OldEntity(s, old)))
           /\ OldRead(s, t, old) /\ t.left = s.left \ {n}
      /\ ~(o < n) /\ n # LATER /\ o # n =>
           /\ Written(s, t, Apply(changes[n], n, Entity(n, Baseline)))
           /\ t.index = s.index /\ t.oldnum = s.oldnum
           /\ t.left = s.left \ {n}
  BY <1>1, <1>3, StepIs
<1>5. /\ \A q \in 0 .. GONE - 1 : q \in Nat /\ q < LATER
      /\ LATER \in Nat
  BY DEF LATER, GONE
<1>6. /\ o # LATER => /\ s.index + 1 \in DOMAIN v
                      /\ v[s.index + 1].number = o /\ o \in Numbers(v)
                      /\ o \in 0 .. GONE - 1 /\ x <= o
      /\ o = LATER => s.index = Len(v)
      /\ \A q \in Numbers(v) : q < x \/ (o # LATER /\ o <= q)
      /\ s.left # {} => /\ n \in Changed(v, w) /\ n \in 0 .. GONE - 1 /\ x <= n
      /\ \A q \in Changed(v, w) : q < x \/ (s.left # {} /\ n <= q)
  BY NumbersAhead
<1>7. (s.left = {}) <=> (n = LATER)
  BY <1>1, <1>5, NextChangeIs
<1>8. \A q \in Numbers(v) \cup Numbers(w) : q \in Nat
  BY <1>1, <1>5, NumbersAre
<1>9. \A q \in Numbers(w) : q \in Changed(v, w) \/ q \in Numbers(v)
  BY DEF Changed
<1>10. /\ IsFiniteSet(s.left) /\ Cardinality(s.left) \in Nat
       /\ Len(v) \in Nat /\ s.index <= Len(v)
  BY WorkIs
<1> HIDE DEF t, n, o
<1>11. o \in Nat /\ n \in Nat
  BY <1>5, <1>6, <1>7
<1>12. CASE o < n
  <2>1. o # LATER
    BY <1>5, <1>6, <1>7, <1>11, <1>12
  <2>2. \A q \in Numbers(v) \cup Numbers(w) : q < x \/ o <= q
    BY <1>6, <1>8, <1>9, <1>11, <1>12
  <2>3. o \notin Changed(v, w)
    BY <1>6, <1>11, <1>12, <2>1
  <2>4. o \in Numbers(w) /\ ValueIn(v, o) = ValueIn(w, o)
    BY <1>6, <2>1, <2>3 DEF Changed
  <2>5. OldEntity(s, old) = Entity(o, ValueIn(w, o))
    <3>1. OldEntity(s, old) = s.ring[(old.first + s.index) % MAX_PARSE_ENTITIES]
      BY <1>1, OldEntityIs
    <3>2. old.first + (s.index + 1) - 1 = old.first + s.index
          /\ s.index + 1 > s.index
      BY <1>1
    <3>3. OldEntity(s, old) = v[s.index + 1]
      BY <1>6, <2>1, <3>1, <3>2 DEF Right
    <3> QED BY <1>1, <1>6, <2>1, <2>4, <3>3, ValueIs
  <2>6. t.left = {q \in Changed(v, w) : q >= o + 1}
    <3>1. ASSUME NEW q \in Changed(v, w) PROVE q >= x <=> q >= o + 1
      <4>1. q \in Nat
        BY <1>2, <1>5
      <4> QED BY <1>6, <1>11, <1>12, <2>1, <4>1
    <3> QED BY <1>3, <1>4, <1>12, <3>1
  <2>7. Right(t, old, v, w, o + 1)
    BY <1>4, <1>6, <1>12, <2>1, <2>2, <2>4, <2>5, <2>6, OneWritten
  <2>8. Work(t, v) < Work(s, v)
    <3>1. t.left = s.left /\ t.index = s.index + 1
      BY <1>4, <1>12 DEF OldRead
    <3> QED BY <1>1, <1>10, <3>1 DEF Work
  <2> QED BY <1>11, <2>7, <2>8 DEF t
<1>13. CASE ~(o < n) /\ n = LATER
  <2>1. t = s
    BY <1>4, <1>13
  <2>2. o = LATER
    BY <1>5, <1>6, <1>11, <1>13
  <2>3. s.left = {} /\ s.index = Len(v) /\ Cardinality(s.left) = 0
    BY <1>6, <1>7, <1>10, <1>13, <2>2, FS_EmptySet
  <2>4. Work(s, v) = 0
    BY <1>10, <2>3 DEF Work
  <2> QED BY <2>1, <2>4 DEF t
<1>14. CASE ~(o < n) /\ n # LATER
  <2>1. n \in Changed(v, w) /\ n \in 0 .. GONE - 1 /\ x <= n /\ n \in s.left
    BY <1>1, <1>6, <1>7, <1>14, NextChangeIs DEF n
  <2>2. \A q \in Numbers(v) \cup Numbers(w) : q < x \/ n <= q
    BY <1>6, <1>8, <1>9, <1>11, <1>14
  <2>3. t.left = s.left \ {n}
    BY <1>4, <1>14
  <2>4. t.left = {q \in Changed(v, w) : q >= n + 1}
    <3>1. ASSUME NEW q \in Changed(v, w)
          PROVE  (q >= x /\ q # n) <=> q >= n + 1
      <4>1. q \in Nat
        BY <1>2, <1>5
      <4>2. q < x \/ n <= q
        BY <1>6
      <4> QED BY <1>11, <2>1, <4>1, <4>2
    <3> QED BY <1>3, <2>3, <3>1
  <2>5. Cardinality(t.left) = Cardinality(s.left) - 1
    BY <1>10, <2>1, <2>3, FS_RemoveElement
  <2>6. n \in Numbers(v) \cup Numbers(w)
    BY <2>1 DEF Changed
  <2>7. changes[n] = ChangeOf(v, w, n)
    BY <1>2, <2>1
  <2>8. CASE o = n
    <3>1. o # LATER /\ n \in Numbers(v)
      BY <1>6, <1>14, <2>8
    <3> DEFINE e == Apply(changes[n], n, OldEntity(s, old))
    <3>2. \/ n \in Numbers(w) /\ e = Entity(n, ValueIn(w, n))
          \/ n \notin Numbers(w) /\ n \in Numbers(v) /\ e.number = GONE
      <4>1. CASE n \in Numbers(w)
        BY <2>7, <3>1, <4>1 DEF Apply, ChangeOf, Change
      <4>2. CASE n \notin Numbers(w)
        BY <2>7, <3>1, <4>2 DEF Apply, ChangeOf, Change, Entity
      <4> QED BY <4>1, <4>2
    <3>3. Written(s, t, e) /\ OldRead(s, t, old)
      BY <1>4, <1>14, <2>8
    <3> HIDE DEF e
    <3>4. Right(t, old, v, w, n + 1)
      BY <2>1, <2>2, <2>4, <3>1, <3>2, <3>3, OneWritten
    <3>5. Work(t, v) < Work(s, v)
      <4>1. t.index = s.index + 1
        BY <3>3 DEF OldRead
      <4> QED BY <1>1, <1>10, <2>5, <4>1 DEF Work
    <3> QED BY <1>11, <3>4, <3>5 DEF t
  <2>9. CASE o # n
    <3>1. n \notin Numbers(v)
      BY <1>6, <1>11, <1>14, <2>1, <2>9
    <3>2. n \in Numbers(w)
      BY <2>6, <3>1
    <3> DEFINE e == Apply(changes[n], n, Entity(n, Baseline))
    <3>3. e = Entity(n, ValueIn(w, n))
      <4>1. CASE ValueIn(w, n) = Baseline
        BY <2>7, <3>1, <3>2, <4>1 DEF Apply, ChangeOf, Change, Entity
      <4>2. CASE ValueIn(w, n) # Baseline
        BY <2>7, <3>1, <3>2, <4>2 DEF Apply, ChangeOf, Change, Entity
      <4> QED BY <4>1, <4>2
    <3>4. Written(s, t, e) /\ t.index = s.index /\ t.oldnum = s.oldnum
      BY <1>4, <1>14, <2>9 DEF o
    <3> HIDE DEF e
    <3>5. Right(t, old, v, w, n + 1)
      BY <2>1, <2>2, <2>4, <3>1, <3>2, <3>3, <3>4, OneWritten
    <3>6. Work(t, v) < Work(s, v)
      BY <1>1, <1>10, <2>5, <3>4 DEF Work
    <3> QED BY <1>11, <3>5, <3>6 DEF t
  <2> QED BY <2>8, <2>9
<1> QED BY <1>12, <1>13, <1>14

(* The whole of it.                                                        *)
LEMMA ParseRight ==
  ASSUME ParseTypes, NEW old, NEW v, NEW w, Room(old, v, w),
         NEW changes, changes = SV_EmitPacketEntities(v, w)
  PROVE  LET s == CL_ParsePacketEntities(changes, old) IN
         /\ s.next = parseEntitiesNum + Len(w)
         /\ \A j \in DOMAIN w : LET p == parseEntitiesNum + j - 1 IN
              p + MAX_PARSE_ENTITIES > s.next =>
                s.ring[p % MAX_PARSE_ENTITIES] = w[j]
<1> DEFINE b == StepsOf(changes, old)
           s0 == Start(changes, old)
<1>1. /\ v \in Views /\ w \in Views /\ old.first \in Nat /\ old.num = Len(v)
      /\ Len(v) \in Nat /\ DOMAIN v = 1 .. Len(v)
      /\ Len(w) \in Nat /\ DOMAIN w = 1 .. Len(w)
  BY ViewIs DEF Room
<1>2. /\ DOMAIN changes = Changed(v, w) /\ DOMAIN changes \subseteq 0 .. GONE - 1
      /\ Cardinality(DOMAIN changes) \in Nat
  BY <1>1, ChangesAre
<1>3. b \in Nat /\ b = Cardinality(DOMAIN changes) + Len(v)
  BY <1>1, <1>2 DEF StepsOf
<1>4. PICK f : /\ Parsed(f, s0, changes, old, b)
               /\ CL_ParsePacketEntities(changes, old) = f[b]
  BY <1>3, ParsedOneByOne
<1>5. /\ s0 \in ParseStates
      /\ s0.ring = parseEntities /\ s0.next = parseEntitiesNum
      /\ s0.index = 0 /\ s0.left = DOMAIN changes
      /\ s0.oldnum = IF 0 >= old.num THEN LATER
                     ELSE parseEntities[old.first % MAX_PARSE_ENTITIES].number
  BY <1>1, <1>2, StartIs
<1> HIDE DEF s0, b
<1>6. Right(s0, old, v, w, 0)
  <2>1. parseEntitiesNum \in Nat
    BY DEF ParseTypes
  <2>2. Count(s0) = 0
    BY <1>5, <2>1 DEF Count
  <2>3. Before(v, 0, 0) /\ Before(w, 0, 0)
    <3>1. \A i \in DOMAIN v : v[i].number \in Nat
      BY <1>1, NumberIs
    <3>2. \A i \in DOMAIN w : w[i].number \in Nat
      BY <1>1, NumberIs
    <3> QED BY <1>1, <3>1, <3>2 DEF Before
  <2>4. s0.left = {q \in Changed(v, w) : q >= 0}
    <3>1. \A q \in 0 .. GONE - 1 : q >= 0
      OBVIOUS
    <3> QED BY <1>2, <1>5, <3>1
  <2>5. s0.oldnum = IF 0 >= Len(v) THEN LATER ELSE v[0 + 1].number
    <3>1. CASE 0 >= Len(v)
      BY <1>1, <1>5, <3>1
    <3>2. CASE ~(0 >= Len(v))
      <4>1. 1 \in DOMAIN v /\ old.first + 1 - 1 = old.first
        BY <1>1, <3>2
      <4>2. parseEntities[old.first % MAX_PARSE_ENTITIES] = v[1]
        BY <4>1 DEF Room
      <4> QED BY <1>1, <1>5, <3>2, <4>2
    <3> QED BY <3>1, <3>2
  <2>6. \A i \in DOMAIN v : s0.ring[(old.first + i - 1) % MAX_PARSE_ENTITIES] = v[i]
    BY <1>5 DEF Room
  <2>7. \A j \in DOMAIN w : ~(j <= 0)
    BY <1>1
  <2>8. parseEntitiesNum <= s0.next
    BY <1>5, <2>1
  <2> QED BY <1>5, <2>2, <2>3, <2>4, <2>5, <2>6, <2>7, <2>8 DEF Right
<1>7. Work(s0, v) <= b - 0
  BY <1>1, <1>2, <1>3, <1>5 DEF Work
<1> DEFINE P(n) == \E x \in Nat : /\ Right(f[n], old, v, w, x)
                                  /\ Work(f[n], v) = 0 \/ Work(f[n], v) <= b - n
           S == {n \in Nat : n <= b /\ ~P(n)}
<1>8. ASSUME S # {} PROVE FALSE
  <2>1. PICK n \in S : \A m \in S : n <= m
    <3> HIDE DEF S
    <3>1. S \subseteq Nat
      BY DEF S
    <3> QED BY <1>8, <3>1, LeastNumber
  <2>2. n \in Nat /\ n <= b /\ ~P(n) /\ n \in 0 .. b
    BY <1>3
  <2>3. f[n] = IF n = 0 THEN s0 ELSE ParseEntity(f[n - 1], changes, old)
    BY <1>4, <2>2 DEF Parsed
  <2>4. n # 0
    BY <1>6, <1>7, <2>2, <2>3
  <2>5. n - 1 \in Nat /\ n - 1 <= b /\ ~(n <= n - 1)
    BY <1>3, <2>2, <2>4
  <2>6. P(n - 1)
    BY <2>1, <2>5
  <2>7. PICK x \in Nat : /\ Right(f[n - 1], old, v, w, x)
                         /\ \/ Work(f[n - 1], v) = 0
                            \/ Work(f[n - 1], v) <= b - (n - 1)
    BY <2>6
  <2> DEFINE s == f[n - 1]
             t == f[n]
  <2>8. t = ParseEntity(s, changes, old)
    BY <2>3, <2>4
  <2> HIDE DEF s, t
  <2>9. \/ t = s /\ Work(s, v) = 0
        \/ \E y \in Nat : Right(t, old, v, w, y) /\ Work(t, v) < Work(s, v)
    BY <2>7, <2>8, StepRight DEF s
  <2>10. CASE t = s /\ Work(s, v) = 0
    BY <2>2, <2>7, <2>10 DEF s, t
  <2>11. ASSUME NEW y \in Nat, Right(t, old, v, w, y), Work(t, v) < Work(s, v)
         PROVE  FALSE
    <3>1. Work(s, v) \in Nat /\ Work(t, v) \in Nat
      BY <2>7, <2>11, WorkIs DEF s
    <3>2. Work(t, v) <= b - n
      BY <1>3, <2>2, <2>7, <2>11, <3>1 DEF s
    <3> QED BY <2>2, <2>11, <3>2 DEF t
  <2> QED BY <2>9, <2>10, <2>11
<1>9. P(b)
  BY <1>3, <1>8
<1> DEFINE s == CL_ParsePacketEntities(changes, old)
<1>10. PICK x \in Nat : Right(s, old, v, w, x) /\ (Work(s, v) = 0 \/ Work(s, v) <= b - b)
  BY <1>4, <1>9
<1> HIDE DEF s, S, P
<1>11. Work(s, v) = 0
  BY <1>3, <1>10, WorkIs
<1>12. s.next = parseEntitiesNum + Len(w)
  BY <1>10, <1>11, AllWritten
<1>13. Count(s) = Len(w)
  BY <1>1, <1>12 DEF Count, ParseTypes
<1>14. ASSUME NEW j \in DOMAIN w,
              parseEntitiesNum + j - 1 + MAX_PARSE_ENTITIES > s.next
       PROVE  s.ring[(parseEntitiesNum + j - 1) % MAX_PARSE_ENTITIES] = w[j]
  BY <1>1, <1>10, <1>13, <1>14 DEF Right
<1> QED BY <1>12, <1>14 DEF s

(* The messages in flight, in both directions.                             *)
Messages ==
    [sequence : Nat, kind : {"snapshot"}, lastframe : Nat,
     changes : ChangeLists, truth : Views]
      \cup [sequence : Nat, kind : {"gamestate"}, serverId : Nat]
      \cup [sequence : Nat, kind : {"empty"}]
Packets == [serverId : Nat, messageAcknowledge : Nat, delta : BOOLEAN]

-----------------------------------------------------------------------------
(* The inductive invariant.                                                *)

Types ==
    /\ TypeOK /\ toClient \in Seq(Messages) /\ toServer \in Seq(Packets)

(* Messages arrive in order, and the client acknowledges what it has had.  *)
OrderOK ==
    /\ serverMessageSequence < outgoingSequence
    /\ \A i \in DOMAIN toClient :
         /\ serverMessageSequence < toClient[i].sequence
         /\ toClient[i].sequence < outgoingSequence
    /\ \A i, j \in DOMAIN toClient :
         i < j => toClient[i].sequence < toClient[j].sequence
    /\ \A i \in DOMAIN toServer :
         toServer[i].messageAcknowledge <= serverMessageSequence

(* Only the last gamestate can be in flight; the client that has it writes *)
(* no other usercmds, and is not sent it again.                            *)
HasGamestate == clServerId = serverId
GamestatesOK ==
    /\ clServerId <= serverId
    /\ state = "ACTIVE" => HasGamestate
    /\ \A i \in DOMAIN toClient : toClient[i].kind = "gamestate" =>
         /\ toClient[i].sequence = gamestateMessageNum
         /\ toClient[i].serverId <= serverId
         /\ ~HasGamestate
    /\ \A i \in DOMAIN toServer : LET p == toServer[i] IN
         /\ p.serverId <= serverId
         /\ p.serverId = serverId => HasGamestate
         /\ HasGamestate => \/ p.serverId = serverId
                            \/ p.messageAcknowledge <= gamestateMessageNum

(* The client's ring of snapshots.                                         *)
Kept(n) == /\ snapshots[FrameSlot(n)].valid
           /\ snapshots[FrameSlot(n)].messageNum = n
RingOK ==
    /\ snap.valid => snapshots[FrameSlot(snap.messageNum)] = snap
    /\ snap.messageNum <= serverMessageSequence
    /\ \A i \in DOMAIN snapshots :
         snapshots[i].valid => snapshots[i].messageNum <= snap.messageNum

(* It has the snapshots it asks the server to use, and those the server    *)
(* has used, until they are too old.                                       *)
AskedKept ==
    /\ state = "ACTIVE" /\ deltaMessage > 0 =>
         /\ deltaMessage <= serverMessageSequence
         /\ outgoingSequence - deltaMessage < PACKET_BACKUP => Kept(deltaMessage)
    /\ \A i \in DOMAIN toServer : LET p == toServer[i] IN
         p.delta /\ p.serverId = serverId
           /\ outgoingSequence - p.messageAcknowledge < PACKET_BACKUP
           => Kept(p.messageAcknowledge)

BaseOf(m) == m.sequence - m.lastframe
DeltaOK(m) ==
    IF m.lastframe = 0
      THEN m.changes = SV_EmitPacketEntities(<<>>, m.truth)
      ELSE /\ m.lastframe < PACKET_BACKUP
           /\ BaseOf(m) \in 0 .. serverMessageSequence
           /\ Kept(BaseOf(m))
           /\ m.changes = SV_EmitPacketEntities(Base(m).truth, m.truth)
           /\ \A i \in DOMAIN toClient : toClient[i].kind = "gamestate" =>
                m.sequence < toClient[i].sequence
DeltasOK ==
    \A i \in DOMAIN toClient :
        toClient[i].kind = "snapshot" => DeltaOK(toClient[i])

(* The server's rings: what is left of the entities of a frame is what     *)
(* they were; the frames the client has or will have are those it was sent.*)
FrameHeld(f, next, ring) ==
    /\ f.num = Len(f.truth)
    /\ \A j \in 1 .. f.num :
         LET p == f.first + j - 1 IN
         /\ p < next
         /\ p + numSnapshotEntities >= next =>
              ring[p % numSnapshotEntities] = f.truth[j]
FrameIs(n, truth) ==
    outgoingSequence - n < PACKET_BACKUP =>
        /\ frames[FrameSlot(n)].truth = truth
        /\ FrameHeld(frames[FrameSlot(n)], nextSnapshotEntities,
                     snapshotEntities)
OfThisMap(m) ==
    \/ HasGamestate
    \/ \E i \in DOMAIN toClient :
         /\ toClient[i].kind = "gamestate" /\ toClient[i].serverId = serverId
         /\ toClient[i].sequence < m.sequence
FramesOK ==
    /\ HasGamestate => \A i \in DOMAIN snapshots : snapshots[i].valid =>
         FrameIs(snapshots[i].messageNum, snapshots[i].truth)
    /\ \A i \in DOMAIN toClient :
         toClient[i].kind = "snapshot" /\ OfThisMap(toClient[i]) =>
           FrameIs(toClient[i].sequence, toClient[i].truth)

DeltaInv == /\ Types /\ OrderOK /\ GamestatesOK /\ RingOK /\ AskedKept
            /\ DeltasOK /\ FramesOK

(* The client's ring of entities, in the same way.                         *)
Holds(s, next, ring) ==
    /\ s.num = Len(s.truth)
    /\ s.first + s.num <= next
    /\ \A j \in 1 .. s.num :
         LET p == s.first + j - 1 IN
         p + MAX_PARSE_ENTITIES > next =>
           ring[p % MAX_PARSE_ENTITIES] = s.truth[j]
EntitiesOK ==
    \A i \in DOMAIN snapshots :
      snapshots[i].valid /\ ~snapshots[i].overtaken =>
        Holds(snapshots[i], parseEntitiesNum, parseEntities)

-----------------------------------------------------------------------------
(* What the types say.                                                     *)

FrameRecords == [first : Nat, num : Nat, truth : Views]
SnapshotRecords == [valid : BOOLEAN, messageNum : Nat, first : Nat, num : Nat,
                    truth : Views, overtaken : BOOLEAN]

(* The types of the variables, and of the constants.                       *)
LEMMA TypesAre ==
  ASSUME TypeOK
  PROVE  /\ serverId \in Nat /\ clServerId \in Nat
         /\ outgoingSequence \in Nat /\ serverMessageSequence \in Nat
         /\ deltaMessage \in Int /\ gamestateMessageNum \in Int
         /\ frames \in [0 .. PACKET_BACKUP - 1 -> FrameRecords]
         /\ nextSnapshotEntities \in Nat
         /\ snapshotEntities \in [0 .. numSnapshotEntities - 1 -> Entities]
         /\ ParseTypes
         /\ snap \in SnapshotRecords
         /\ snapshots \in [0 .. PACKET_BACKUP - 1 -> SnapshotRecords]
         /\ PACKET_BACKUP \in Nat \ {0} /\ numSnapshotEntities \in Nat \ {0}
         /\ MAX_PARSE_ENTITIES \in Nat \ {0} /\ PARSE_MARGIN \in Nat \ {0}
<1>1. deltaMessage \in Int /\ gamestateMessageNum \in Int
  BY DEF TypeOK
<1> QED BY <1>1, BackupAssumption, RingsAssumption
        DEF TypeOK, FrameRecords, SnapshotRecords, Entities, Views, ParseTypes,
            ParseRings

(* A number has a slot in the rings of snapshots.                          *)
LEMMA BackupSlot ==
  ASSUME NEW n \in Nat
  PROVE  FrameSlot(n) \in 0 .. PACKET_BACKUP - 1
BY BackupAssumption, SlotOf DEF FrameSlot

(* Messages less than PACKET_BACKUP apart have different slots.            *)
LEMMA BackupSlotsDiffer ==
  ASSUME NEW m \in Nat, NEW n \in Nat, m < n, n - m < PACKET_BACKUP
  PROVE  FrameSlot(m) # FrameSlot(n)
<1>1. PACKET_BACKUP \in Nat \ {0} /\ n < m + PACKET_BACKUP
  BY BackupAssumption
<1> QED BY <1>1, SlotsOfNeighbours DEF FrameSlot

(* The fields of the client's snapshots.                                   *)
LEMMA SnapshotFields ==
  ASSUME TypeOK, NEW i \in DOMAIN snapshots
  PROVE  /\ snapshots[i] \in SnapshotRecords
         /\ snapshots[i].valid \in BOOLEAN /\ snapshots[i].messageNum \in Nat
         /\ snapshots[i].first \in Nat /\ snapshots[i].num \in Nat
         /\ snapshots[i].truth \in Views
<1>1. snapshots[i] \in SnapshotRecords
  BY TypesAre
<1> QED BY <1>1 DEF SnapshotRecords

(* The fields of a message.                                                *)
LEMMA MessageFields ==
  ASSUME NEW m \in Messages
  PROVE  /\ m.sequence \in Nat /\ m.kind \in {"snapshot", "gamestate", "empty"}
         /\ m.kind = "snapshot" => /\ m.lastframe \in Nat
                                   /\ m.changes \in ChangeLists
                                   /\ m.truth \in Views
         /\ m.kind = "gamestate" => m.serverId \in Nat
BY DEF Messages

(* What is in flight.                                                      *)
LEMMA FlightIs ==
  ASSUME Types
  PROVE  /\ TypeOK /\ toClient \in Seq(Messages) /\ toServer \in Seq(Packets)
         /\ DOMAIN toClient = 1 .. Len(toClient) /\ Len(toClient) \in Nat
         /\ \A i \in DOMAIN toClient :
              toClient[i] \in Messages /\ toClient[i].sequence \in Nat
         /\ DOMAIN toServer = 1 .. Len(toServer) /\ Len(toServer) \in Nat
         /\ \A i \in DOMAIN toServer :
              /\ toServer[i] \in Packets /\ toServer[i].serverId \in Nat
              /\ toServer[i].messageAcknowledge \in Nat
              /\ toServer[i].delta \in BOOLEAN
<1>1. TypeOK /\ toClient \in Seq(Messages) /\ toServer \in Seq(Packets)
  BY DEF Types
<1>2. /\ DOMAIN toClient = 1 .. Len(toClient) /\ Len(toClient) \in Nat
      /\ DOMAIN toServer = 1 .. Len(toServer) /\ Len(toServer) \in Nat
  BY <1>1, LenProperties
<1>3. \A i \in DOMAIN toClient : toClient[i] \in Messages
  BY <1>1, <1>2, ElementOfSeq
<1>4. \A i \in DOMAIN toServer : toServer[i] \in Packets
  BY <1>1, <1>2, ElementOfSeq
<1>5. \A i \in DOMAIN toClient : toClient[i].sequence \in Nat
  BY <1>3, MessageFields
<1>6. \A i \in DOMAIN toServer :
         /\ toServer[i].serverId \in Nat /\ toServer[i].messageAcknowledge \in Nat
         /\ toServer[i].delta \in BOOLEAN
  BY <1>4 DEF Packets
<1> QED BY <1>1, <1>2, <1>3, <1>4, <1>5, <1>6

-----------------------------------------------------------------------------
(* The server's ring of entities.                                          *)

LEMMA CopiedOut ==
  ASSUME TypeOK, NEW list \in Seq(ViewEntities), Len(list) <= numSnapshotEntities,
         CopyOut(list)
  PROVE  /\ nextSnapshotEntities' = nextSnapshotEntities + Len(list)
         /\ nextSnapshotEntities' \in Nat /\ Len(list) \in Nat
         /\ snapshotEntities' \in [0 .. numSnapshotEntities - 1 -> Entities]
         /\ \A i \in DOMAIN list :
              snapshotEntities'[(nextSnapshotEntities + i - 1)
                                  % numSnapshotEntities] = list[i]
         /\ \A p \in Nat :
              p < nextSnapshotEntities
                /\ p + numSnapshotEntities >= nextSnapshotEntities' =>
              snapshotEntities'[p % numSnapshotEntities]
                = snapshotEntities[p % numSnapshotEntities]
<1> DEFINE At(slot) == {i \in DOMAIN list :
                          (nextSnapshotEntities + i - 1) % numSnapshotEntities
                            = slot}
<1>1. /\ nextSnapshotEntities' = nextSnapshotEntities + Len(list)
      /\ snapshotEntities' =
           [slot \in DOMAIN snapshotEntities |->
              IF At(slot) # {} THEN list[CHOOSE i \in At(slot) : TRUE]
                               ELSE snapshotEntities[slot]]
  BY DEF CopyOut
<1>2. /\ nextSnapshotEntities \in Nat /\ numSnapshotEntities \in Nat \ {0}
      /\ snapshotEntities \in [0 .. numSnapshotEntities - 1 -> Entities]
      /\ DOMAIN snapshotEntities = 0 .. numSnapshotEntities - 1
  BY TypesAre
<1>3. Len(list) \in Nat /\ DOMAIN list = 1 .. Len(list)
  BY LenProperties
<1>4. \A i \in DOMAIN list : list[i] \in Entities
  <2>1. \A i \in DOMAIN list : list[i] \in ViewEntities
    BY <1>3, ElementOfSeq
  <2>2. \A n \in 0 .. GONE - 1 : n \in Nat
    BY DEF GONE
  <2> QED BY <2>1, <2>2 DEF ViewEntities, Entities
<1>5. ASSUME NEW slot \in 0 .. numSnapshotEntities - 1
      PROVE  snapshotEntities'[slot] \in Entities
  <2>1. CASE At(slot) # {}
    <3>1. (CHOOSE i \in At(slot) : TRUE) \in At(slot)
      BY <2>1
    <3>2. (CHOOSE i \in At(slot) : TRUE) \in DOMAIN list
      BY <3>1
    <3> HIDE DEF At
    <3> QED BY <1>1, <1>2, <1>4, <2>1, <3>2
  <2>2. CASE At(slot) = {}
    <3> HIDE DEF At
    <3> QED BY <1>1, <1>2, <2>2
  <2> QED BY <2>1, <2>2
<1>6. ASSUME NEW i \in DOMAIN list
      PROVE  snapshotEntities'[(nextSnapshotEntities + i - 1)
                                 % numSnapshotEntities] = list[i]
  <2> DEFINE slot == (nextSnapshotEntities + i - 1) % numSnapshotEntities
  <2>1. i \in Nat /\ i >= 1 /\ nextSnapshotEntities + i - 1 \in Nat
    BY <1>2, <1>3
  <2>2. slot \in 0 .. numSnapshotEntities - 1
    BY <1>2, <2>1, SlotOf
  <2>3. ASSUME NEW k \in At(slot) PROVE k = i
    <3>0. k \in DOMAIN list
      OBVIOUS
    <3>2. (nextSnapshotEntities + k - 1) % numSnapshotEntities = slot
      OBVIOUS
    <3> HIDE DEF At, slot
    <3>1. k \in DOMAIN list /\ k \in Nat /\ k >= 1
          /\ nextSnapshotEntities + k - 1 \in Nat
      BY <1>2, <1>3, <3>0
    <3>3. ~(k < i)
      <4>1. SUFFICES ASSUME k < i PROVE FALSE
        OBVIOUS
      <4>2. nextSnapshotEntities + k - 1 < nextSnapshotEntities + i - 1
            /\ nextSnapshotEntities + i - 1
                 < nextSnapshotEntities + k - 1 + numSnapshotEntities
        BY <1>2, <1>3, <2>1, <3>1, <4>1
      <4> QED BY <1>2, <2>1, <3>1, <3>2, <4>2, SlotsOfNeighbours DEF slot
    <3>4. ~(i < k)
      <4>1. SUFFICES ASSUME i < k PROVE FALSE
        OBVIOUS
      <4>2. nextSnapshotEntities + i - 1 < nextSnapshotEntities + k - 1
            /\ nextSnapshotEntities + k - 1
                 < nextSnapshotEntities + i - 1 + numSnapshotEntities
        BY <1>2, <1>3, <2>1, <3>1, <4>1
      <4> QED BY <1>2, <2>1, <3>1, <3>2, <4>2, SlotsOfNeighbours DEF slot
    <3> QED BY <2>1, <3>1, <3>3, <3>4
  <2>4. i \in At(slot)
    OBVIOUS
  <2>5. (CHOOSE k \in At(slot) : TRUE) = i
    <3> HIDE DEF At, slot
    <3> QED BY <2>3, <2>4
  <2> HIDE DEF At
  <2> QED BY <1>1, <1>2, <2>2, <2>4, <2>5
<1>7. ASSUME NEW p \in Nat, p < nextSnapshotEntities,
             p + numSnapshotEntities >= nextSnapshotEntities'
      PROVE  snapshotEntities'[p % numSnapshotEntities]
               = snapshotEntities[p % numSnapshotEntities]
  <2>1. p % numSnapshotEntities \in 0 .. numSnapshotEntities - 1
    BY <1>2, SlotOf
  <2>2. At(p % numSnapshotEntities) = {}
    <3>1. SUFFICES ASSUME NEW i \in DOMAIN list
                   PROVE  (nextSnapshotEntities + i - 1) % numSnapshotEntities
                            # p % numSnapshotEntities
      OBVIOUS
    <3>2. /\ nextSnapshotEntities + i - 1 \in Nat
          /\ p < nextSnapshotEntities + i - 1
          /\ nextSnapshotEntities + i - 1 < p + numSnapshotEntities
      BY <1>1, <1>2, <1>3, <1>7
    <3> QED BY <1>2, <3>2, SlotsOfNeighbours
  <2> HIDE DEF At
  <2> QED BY <1>1, <1>2, <2>1, <2>2
<1> HIDE DEF At
<1>8. snapshotEntities' \in [0 .. numSnapshotEntities - 1 -> Entities]
  <2>1. DOMAIN snapshotEntities' = 0 .. numSnapshotEntities - 1
        /\ snapshotEntities' = [slot \in 0 .. numSnapshotEntities - 1 |->
                                  snapshotEntities'[slot]]
    BY <1>1, <1>2
  <2> QED BY <1>5, <2>1
<1>9. nextSnapshotEntities' \in Nat
  BY <1>1, <1>2, <1>3
<1> QED BY <1>1, <1>3, <1>6, <1>7, <1>8, <1>9

(* What is left of a frame is still what it was.                           *)
LEMMA StillHeld ==
  ASSUME TypeOK, NEW list \in Seq(ViewEntities), Len(list) <= numSnapshotEntities,
         CopyOut(list), NEW f \in FrameRecords,
         FrameHeld(f, nextSnapshotEntities, snapshotEntities)
  PROVE  FrameHeld(f, nextSnapshotEntities', snapshotEntities')
<1>1. /\ nextSnapshotEntities' = nextSnapshotEntities + Len(list)
      /\ Len(list) \in Nat /\ nextSnapshotEntities' \in Nat
      /\ \A p \in Nat :
           p < nextSnapshotEntities
             /\ p + numSnapshotEntities >= nextSnapshotEntities' =>
           snapshotEntities'[p % numSnapshotEntities]
             = snapshotEntities[p % numSnapshotEntities]
  BY CopiedOut
<1>2. nextSnapshotEntities \in Nat /\ numSnapshotEntities \in Nat
      /\ f.first \in Nat /\ f.num \in Nat
  BY TypesAre DEF FrameRecords
<1>3. f.num = Len(f.truth)
  BY DEF FrameHeld
<1>4. ASSUME NEW j \in 1 .. f.num
      PROVE  /\ f.first + j - 1 < nextSnapshotEntities'
             /\ f.first + j - 1 + numSnapshotEntities >= nextSnapshotEntities' =>
                  snapshotEntities'[(f.first + j - 1) % numSnapshotEntities]
                    = f.truth[j]
  <2> DEFINE p == f.first + j - 1
  <2>1. p \in Nat
    BY <1>2
  <2>2. p < nextSnapshotEntities
    BY DEF FrameHeld
  <2>3. p + numSnapshotEntities >= nextSnapshotEntities =>
          snapshotEntities[p % numSnapshotEntities] = f.truth[j]
    BY DEF FrameHeld
  <2> HIDE DEF p
  <2>4. p < nextSnapshotEntities'
    BY <1>1, <1>2, <2>1, <2>2
  <2>5. ASSUME p + numSnapshotEntities >= nextSnapshotEntities'
        PROVE  snapshotEntities'[p % numSnapshotEntities] = f.truth[j]
    <3>1. p + numSnapshotEntities >= nextSnapshotEntities
      BY <1>1, <1>2, <2>1, <2>5
    <3> QED BY <1>1, <2>1, <2>2, <2>3, <2>5, <3>1
  <2> QED BY <2>4, <2>5 DEF p
<1> QED BY <1>3, <1>4 DEF FrameHeld

(* The snapshot that is built.                                             *)
LEMMA Built ==
  ASSUME TypeOK, NEW others \in Others, NEW world \in Worlds,
         SV_BuildClientSnapshot(others, world)
  PROVE  \E list \in Seq(ViewEntities), f \in FrameRecords :
           /\ Len(list) <= numSnapshotEntities /\ CopyOut(list)
           /\ frames' = [frames EXCEPT ![FrameSlot(outgoingSequence)] = f]
           /\ f.truth \in Views
           /\ FrameHeld(f, nextSnapshotEntities', snapshotEntities')
           /\ \A j \in 1 .. f.num :
                snapshotEntities'[(f.first + j - 1) % numSnapshotEntities]
                  = f.truth[j]
<1> DEFINE slot == FrameSlot(outgoingSequence)
<1>1. /\ nextSnapshotEntities \in Nat /\ outgoingSequence \in Nat
      /\ frames \in [0 .. PACKET_BACKUP - 1 -> FrameRecords]
      /\ numSnapshotEntities \in Nat
  BY TypesAre
<1>2. slot \in 0 .. PACKET_BACKUP - 1
  BY <1>1, BackupSlot
<1>3. others \in Seq(ViewEntities) /\ Len(others) \in Nat
      /\ world \in Seq(ViewEntities) /\ Len(world) \in Nat
      /\ Len(others) + Len(world) <= numSnapshotEntities
      /\ DOMAIN world = 1 .. Len(world)
  <2>1. others \in Seq(ViewEntities) /\ world \in Seq(ViewEntities)
    BY ViewsAssumption DEF ViewEntities
  <2> QED BY <2>1, LenProperties, WorldAssumption
<1> HIDE DEF slot
<1>4. CASE gentity
  <2> DEFINE list == others \o world
             f == [first |-> nextSnapshotEntities + Len(others),
                   num |-> Len(world), truth |-> world]
  <2>1. CopyOut(list) /\ frames' = [frames EXCEPT ![slot] = f]
    BY <1>4 DEF SV_BuildClientSnapshot, slot
  <2>2. /\ list \in Seq(ViewEntities) /\ Len(list) = Len(others) + Len(world)
        /\ \A i \in 1 .. Len(others) + Len(world) :
             list[i] = IF i <= Len(others) THEN others[i]
                       ELSE world[i - Len(others)]
    BY <1>3, ConcatProperties
  <2>3. f \in FrameRecords /\ f.truth \in Views
    BY <1>1, <1>3 DEF FrameRecords, Views
  <2>4. DOMAIN list = 1 .. Len(others) + Len(world)
    <3> HIDE DEF list
    <3> QED BY <2>2, LenProperties
  <2> HIDE DEF list
  <2>5. /\ nextSnapshotEntities' = nextSnapshotEntities + Len(list)
        /\ \A i \in DOMAIN list :
             snapshotEntities'[(nextSnapshotEntities + i - 1)
                                 % numSnapshotEntities] = list[i]
    BY <1>3, <2>1, <2>2, CopiedOut
  <2>6. ASSUME NEW j \in 1 .. Len(world)
        PROVE  /\ nextSnapshotEntities + Len(others) + j - 1
                    < nextSnapshotEntities'
               /\ snapshotEntities'[(nextSnapshotEntities + Len(others) + j - 1)
                                      % numSnapshotEntities] = world[j]
    <3>1. Len(others) + j \in 1 .. Len(others) + Len(world)
          /\ ~(Len(others) + j <= Len(others))
          /\ Len(others) + j - Len(others) = j
          /\ nextSnapshotEntities + (Len(others) + j) - 1
               = nextSnapshotEntities + Len(others) + j - 1
      BY <1>1, <1>3
    <3>2. list[Len(others) + j] = world[j]
      BY <2>2, <3>1
    <3>3. snapshotEntities'[(nextSnapshotEntities + (Len(others) + j) - 1)
                              % numSnapshotEntities] = list[Len(others) + j]
      BY <2>4, <2>5, <3>1
    <3>4. nextSnapshotEntities + Len(others) + j - 1 < nextSnapshotEntities'
      BY <1>1, <1>3, <2>2, <2>5
    <3> QED BY <3>1, <3>2, <3>3, <3>4
  <2>7. FrameHeld(f, nextSnapshotEntities', snapshotEntities')
    <3>1. f.first = nextSnapshotEntities + Len(others) /\ f.num = Len(world)
          /\ f.truth = world
      OBVIOUS
    <3> HIDE DEF f
    <3> QED BY <2>6, <3>1 DEF FrameHeld
  <2>8. \A j \in 1 .. f.num :
          snapshotEntities'[(f.first + j - 1) % numSnapshotEntities] = f.truth[j]
    <3>1. f.first = nextSnapshotEntities + Len(others) /\ f.num = Len(world)
          /\ f.truth = world
      OBVIOUS
    <3> HIDE DEF f
    <3> QED BY <2>6, <3>1
  <2> HIDE DEF f
  <2> QED BY <1>3, <2>1, <2>2, <2>3, <2>7, <2>8 DEF slot
<1>5. CASE ~gentity
  <2> DEFINE f == [frames[slot] EXCEPT !.num = 0, !.truth = <<>>]
  <2>1. CopyOut(others)
    BY <1>5 DEF SV_BuildClientSnapshot
  <2>2. frames' = [frames EXCEPT ![slot].num = 0, ![slot].truth = <<>>]
    BY <1>5 DEF SV_BuildClientSnapshot, slot
  <2>3. frames[slot] \in FrameRecords
    BY <1>1, <1>2
  <2>4. frames' = [frames EXCEPT ![slot] = f]
    BY <1>1, <1>2, <2>2, <2>3
  <2>5. f.num = 0 /\ f.truth = <<>> /\ f \in FrameRecords /\ f.truth \in Views
    BY <2>3 DEF FrameRecords, Views
  <2> HIDE DEF f
  <2>6. FrameHeld(f, nextSnapshotEntities', snapshotEntities')
    BY <2>5 DEF FrameHeld
  <2>7. Len(others) <= numSnapshotEntities
    BY <1>1, <1>3
  <2>8. \A j \in 1 .. f.num :
          snapshotEntities'[(f.first + j - 1) % numSnapshotEntities] = f.truth[j]
    BY <2>5
  <2> QED BY <1>3, <2>1, <2>4, <2>5, <2>6, <2>7, <2>8 DEF slot
<1> QED BY <1>4, <1>5

(* Messages that are in flight no more.                                    *)
LEMMA FewerInFlight ==
  ASSUME DeltaInv, UNCHANGED <<serverVars, clientVars>>,
         toClient' \in Seq(Messages), InOrderFrom(toClient', toClient),
         toServer' \in Seq(Packets),
         \A i \in DOMAIN toServer' :
            \E j \in DOMAIN toServer : toServer'[i] = toServer[j]
  PROVE  DeltaInv'
<1>1. /\ Types /\ OrderOK /\ GamestatesOK /\ RingOK /\ AskedKept
      /\ DeltasOK /\ FramesOK
  BY DEF DeltaInv
<1>2. /\ \A i \in DOMAIN toClient' :
           \E j \in DOMAIN toClient : toClient'[i] = toClient[j]
      /\ \A i1, i2 \in DOMAIN toClient' : i1 < i2 =>
           \E j1, j2 \in DOMAIN toClient :
              j1 < j2 /\ toClient'[i1] = toClient[j1] /\ toClient'[i2] = toClient[j2]
  BY DEF InOrderFrom
<1>3. Types'
  BY <1>1 DEF Types, TypeOK, serverVars, clientVars
<1>4. OrderOK'
  <2>1. \A i, j \in DOMAIN toClient' :
          i < j => toClient'[i].sequence < toClient'[j].sequence
    BY <1>1, <1>2 DEF OrderOK
  <2> QED BY <1>1, <1>2, <2>1 DEF OrderOK, serverVars, clientVars
<1>5. GamestatesOK'
  BY <1>1, <1>2 DEF GamestatesOK, HasGamestate, serverVars, clientVars
<1>6. RingOK'
  BY <1>1 DEF RingOK, clientVars
<1>7. AskedKept'
  BY <1>1 DEF AskedKept, Kept, serverVars, clientVars
<1>8. DeltasOK'
  BY <1>1, <1>2 DEF DeltasOK, DeltaOK, BaseOf, Base, Kept, serverVars, clientVars
<1>9. FramesOK'
  <2>2. HasGamestate' <=> HasGamestate
    BY DEF HasGamestate, serverVars, clientVars
  <2>4. snapshots' = snapshots
    BY DEF clientVars
  <2>5. ASSUME NEW i \in DOMAIN toClient', toClient'[i].kind = "snapshot",
               OfThisMap(toClient[i])'
        PROVE  FrameIs(toClient[i].sequence, toClient[i].truth)'
    <3>1. PICK j \in DOMAIN toClient : toClient'[i] = toClient[j]
      BY <1>2
    <3>2. OfThisMap(toClient[j])
      BY <1>2, <2>5, <3>1 DEF OfThisMap, HasGamestate, serverVars, clientVars
    <3>3. FrameIs(toClient[j].sequence, toClient[j].truth)
      BY <1>1, <2>5, <3>1, <3>2 DEF FramesOK
    <3> QED BY <3>1, <3>3 DEF FrameIs, FrameHeld, serverVars
  <2>6. ASSUME HasGamestate', NEW i \in DOMAIN snapshots', snapshots'[i].valid
        PROVE  FrameIs(snapshots[i].messageNum, snapshots[i].truth)'
    <3>1. FrameIs(snapshots[i].messageNum, snapshots[i].truth)
      BY <1>1, <2>2, <2>4, <2>6 DEF FramesOK
    <3> QED BY <2>4, <3>1 DEF FrameIs, FrameHeld, serverVars
  <2> QED BY <2>5, <2>6 DEF FramesOK
<1> QED BY <1>3, <1>4, <1>5, <1>6, <1>7, <1>8, <1>9 DEF DeltaInv

(* A message or usercmds are lost.                                         *)
LEMMA LoseStep ==
  ASSUME DeltaInv, Lose, UNCHANGED <<serverVars, clientVars>>
  PROVE  DeltaInv'
<1>1. Types
  BY DEF DeltaInv
<1>2. toClient \in Seq(Messages) /\ toServer \in Seq(Packets)
  BY <1>1, FlightIs
<1>3. ASSUME NEW i \in DOMAIN toServer, toServer' = RemoveAt(toServer, i),
             UNCHANGED toClient
      PROVE  DeltaInv'
  <2>1. toServer' \in Seq(Packets) /\ InOrderFrom(toServer', toServer)
    BY <1>2, <1>3, LostInOrder
  <2>2. InOrderFrom(toClient', toClient)
    BY <1>3 DEF InOrderFrom
  <2>3. toClient' \in Seq(Messages)
    BY <1>2, <1>3
  <2>4. \A k \in DOMAIN toServer' :
          \E j \in DOMAIN toServer : toServer'[k] = toServer[j]
    BY <2>1 DEF InOrderFrom
  <2> QED BY <2>1, <2>2, <2>3, <2>4, FewerInFlight
<1>4. ASSUME NEW i \in DOMAIN toClient, toClient' = RemoveAt(toClient, i),
             UNCHANGED toServer
      PROVE  DeltaInv'
  <2>1. toClient' \in Seq(Messages) /\ InOrderFrom(toClient', toClient)
    BY <1>2, <1>4, LostInOrder
  <2>2. /\ toServer' \in Seq(Packets)
        /\ \A k \in DOMAIN toServer' :
             \E j \in DOMAIN toServer : toServer'[k] = toServer[j]
    BY <1>2, <1>4
  <2> QED BY <2>1, <2>2, FewerInFlight
<1> QED BY <1>3, <1>4 DEF Lose

(* Steps that leave the messages to the client, its rings and the server's *)
(* counters as they are.                                                   *)
LEMMA DeltasStay ==
  ASSUME DeltasOK,
         UNCHANGED <<toClient, serverMessageSequence, snapshots>>
  PROVE  DeltasOK'
BY DEF DeltasOK, DeltaOK, BaseOf, Base, Kept

(* The same for the frames.                                                *)
LEMMA FramesStay ==
  ASSUME FramesOK,
         UNCHANGED <<serverId, clServerId, toClient, snapshots,
                     outgoingSequence, frames, nextSnapshotEntities,
                     snapshotEntities>>
  PROVE  FramesOK'
BY DEF FramesOK, OfThisMap, HasGamestate, FrameIs, FrameHeld

(* The same for the client's ring.                                         *)
LEMMA RingStays ==
  ASSUME RingOK, UNCHANGED <<snap, snapshots, serverMessageSequence>>
  PROVE  RingOK'
BY DEF RingOK

(* The client writes usercmds: it has the snapshot it asks for.            *)
LEMMA WriteStep ==
  ASSUME DeltaInv, CL_WritePacket
  PROVE  DeltaInv'
<1> DEFINE p == [serverId |-> clServerId,
                 messageAcknowledge |-> serverMessageSequence,
                 delta |-> AsksForDelta]
<1>1. /\ Types /\ OrderOK /\ GamestatesOK /\ RingOK /\ AskedKept
      /\ DeltasOK /\ FramesOK
  BY DEF DeltaInv
<1>2. toServer' = Append(toServer, p) /\ UNCHANGED <<serverVars, toClient, clientVars>>
  BY DEF CL_WritePacket
<1>3. /\ serverId' = serverId /\ clServerId' = clServerId /\ state' = state
      /\ outgoingSequence' = outgoingSequence
      /\ gamestateMessageNum' = gamestateMessageNum
      /\ deltaMessage' = deltaMessage
      /\ frames' = frames /\ nextSnapshotEntities' = nextSnapshotEntities
      /\ snapshotEntities' = snapshotEntities
      /\ toClient' = toClient /\ snap' = snap /\ snapshots' = snapshots
      /\ serverMessageSequence' = serverMessageSequence
  BY <1>2 DEF serverVars, clientVars
<1>4. /\ p \in Packets /\ p.serverId = clServerId
      /\ p.messageAcknowledge = serverMessageSequence /\ p.delta = AsksForDelta
  <2>1. AsksForDelta \in BOOLEAN
    BY <1>1, TypesAre DEF Types, AsksForDelta, SnapshotRecords
  <2>2. clServerId \in Nat /\ serverMessageSequence \in Nat
    BY <1>1, TypesAre DEF Types
  <2> QED BY <2>1, <2>2 DEF Packets
<1> HIDE DEF p
<1>5. /\ toServer \in Seq(Packets) /\ DOMAIN toServer = 1 .. Len(toServer)
      /\ Len(toServer) \in Nat
  BY <1>1, FlightIs
<1>6. /\ toServer' \in Seq(Packets)
      /\ \A i \in DOMAIN toServer' :
           toServer'[i] = p \/ (i \in DOMAIN toServer /\ toServer'[i] = toServer[i])
  <2>1. /\ toServer' \in Seq(Packets) /\ DOMAIN toServer' = 1 .. Len(toServer) + 1
        /\ \A i \in 1 .. Len(toServer) : toServer'[i] = toServer[i]
        /\ toServer'[Len(toServer) + 1] = p
    BY <1>2, <1>4, <1>5, AppendedMessage
  <2>2. \A i \in DOMAIN toServer' : i \in 1 .. Len(toServer) \/ i = Len(toServer) + 1
    BY <1>5, <2>1
  <2> QED BY <1>5, <2>1, <2>2
<1>7. Types'
  BY <1>1, <1>2, <1>6 DEF Types, TypeOK, serverVars, clientVars
<1>8. OrderOK'
  <2>1. serverMessageSequence <= serverMessageSequence
    BY <1>1, TypesAre DEF Types
  <2>2. \A i \in DOMAIN toServer' :
          toServer'[i].messageAcknowledge <= serverMessageSequence
    BY <1>1, <1>4, <1>6, <2>1 DEF OrderOK
  <2> QED BY <1>1, <1>3, <2>2 DEF OrderOK
<1>9. GamestatesOK'
  <2>1. ASSUME NEW i \in DOMAIN toServer'
        PROVE  LET q == toServer'[i] IN
               /\ q.serverId <= serverId
               /\ q.serverId = serverId => HasGamestate
               /\ HasGamestate => \/ q.serverId = serverId
                                  \/ q.messageAcknowledge <= gamestateMessageNum
    <3>1. CASE toServer'[i] = p
      BY <1>1, <1>4, <3>1 DEF GamestatesOK, HasGamestate
    <3>2. CASE i \in DOMAIN toServer /\ toServer'[i] = toServer[i]
      BY <1>1, <3>2 DEF GamestatesOK
    <3> QED BY <1>6, <3>1, <3>2
  <2> QED BY <1>1, <1>3, <2>1 DEF GamestatesOK, HasGamestate
<1>10. AskedKept'
  <2>1. ASSUME NEW i \in DOMAIN toServer',
               toServer'[i].delta, toServer'[i].serverId = serverId,
               outgoingSequence - toServer'[i].messageAcknowledge < PACKET_BACKUP
        PROVE  Kept(toServer'[i].messageAcknowledge)
    <3>1. CASE toServer'[i] = p
      <4>1. snap.valid /\ snap.messageNum = serverMessageSequence
        BY <1>4, <2>1, <3>1 DEF AsksForDelta
      <4>2. snapshots[FrameSlot(snap.messageNum)] = snap
        BY <1>1, <4>1 DEF RingOK
      <4> QED BY <1>4, <3>1, <4>1, <4>2 DEF Kept
    <3>2. CASE i \in DOMAIN toServer /\ toServer'[i] = toServer[i]
      BY <1>1, <2>1, <3>2 DEF AskedKept
    <3> QED BY <1>6, <3>1, <3>2
  <2> QED BY <1>1, <1>3, <2>1 DEF AskedKept, Kept
<1>11. RingOK' /\ DeltasOK' /\ FramesOK'
  BY <1>1, <1>3, RingStays, DeltasStay, FramesStay
<1> QED BY <1>7, <1>8, <1>9, <1>10, <1>11 DEF DeltaInv

(* A map is loaded: nothing in flight is of the new map, and the client    *)
(* has no gamestate of it.                                                 *)
LEMMA SpawnStep ==
  ASSUME DeltaInv, SV_SpawnServer
  PROVE  DeltaInv'
<1>1. /\ Types /\ OrderOK /\ GamestatesOK /\ RingOK /\ AskedKept
      /\ DeltasOK /\ FramesOK
  BY DEF DeltaInv
<1>2. /\ serverId' = serverId + 1 /\ clServerId' = clServerId
      /\ state' = "CONNECTED"
      /\ outgoingSequence' = outgoingSequence
      /\ gamestateMessageNum' = gamestateMessageNum
      /\ toClient' = toClient /\ toServer' = toServer
      /\ snap' = snap /\ snapshots' = snapshots
      /\ serverMessageSequence' = serverMessageSequence
  BY DEF SV_SpawnServer, clientVars
<1>3. serverId \in Nat /\ clServerId \in Nat
  BY <1>1, TypesAre DEF Types
<1>4. ~HasGamestate'
  <2>1. clServerId <= serverId
    BY <1>1 DEF GamestatesOK
  <2> QED BY <1>2, <1>3, <2>1 DEF HasGamestate
<1>5. \A i \in DOMAIN toClient : toClient[i].kind = "gamestate" =>
         toClient[i].serverId \in Nat /\ toClient[i].serverId < serverId + 1
  <2>1. \A i \in DOMAIN toClient : toClient[i].kind = "gamestate" =>
           toClient[i].serverId \in Nat
    BY <1>1, FlightIs, MessageFields
  <2> QED BY <1>1, <1>3, <2>1 DEF GamestatesOK
<1>6. \A i \in DOMAIN toServer :
         toServer[i].serverId \in Nat /\ toServer[i].serverId < serverId + 1
  <2>1. \A i \in DOMAIN toServer : toServer[i].serverId \in Nat
    BY <1>1, FlightIs
  <2> QED BY <1>1, <1>3, <2>1 DEF GamestatesOK
<1>7. Types'
  <2>1. TypeOK /\ NoEntity \in Entities
    BY <1>1 DEF Types, NoEntity, Entity, Baseline, Entities
  <2>2. snapshotEntities' \in [0 .. numSnapshotEntities - 1 -> Entities]
    BY <2>1, TypesAre DEF SV_SpawnServer
  <2>3. /\ serverId' \in Nat /\ nextSnapshotEntities' = 0
        /\ state' \in {"CONNECTED", "PRIMED", "ACTIVE"} /\ gentity' = FALSE
        /\ UNCHANGED <<outgoingSequence, gamestateMessageNum, deltaMessage,
                       frames, clientVars>>
    BY <1>3 DEF SV_SpawnServer
  <2>4. TypeOK'
    BY <2>1, <2>2, <2>3 DEF TypeOK, clientVars, Entities
  <2> QED BY <1>1, <1>2, <2>4 DEF Types
<1>8. OrderOK'
  BY <1>1, <1>2 DEF OrderOK
<1>9. GamestatesOK'
  <2>1. clServerId <= serverId + 1
    BY <1>1, <1>3 DEF GamestatesOK
  <2>2. \A i \in DOMAIN toClient : toClient[i].kind = "gamestate" =>
           toClient[i].sequence = gamestateMessageNum
           /\ toClient[i].serverId <= serverId + 1
    BY <1>1, <1>3, <1>5 DEF GamestatesOK
  <2>3. \A i \in DOMAIN toServer : toServer[i].serverId <= serverId + 1
                                   /\ toServer[i].serverId # serverId + 1
    BY <1>3, <1>6
  <2> QED BY <1>2, <1>4, <2>1, <2>2, <2>3 DEF GamestatesOK
<1>10. AskedKept'
  <2>1. \A i \in DOMAIN toServer : toServer[i].serverId # serverId + 1
    BY <1>3, <1>6
  <2> QED BY <1>2, <2>1 DEF AskedKept
<1>11. RingOK' /\ DeltasOK'
  BY <1>1, <1>2, RingStays, DeltasStay
<1>12. FramesOK'
  <2>1. \A i \in DOMAIN toClient : toClient[i].kind = "gamestate" =>
           toClient[i].serverId # serverId + 1
    BY <1>3, <1>5
  <2>2. \A i \in DOMAIN toClient' : ~OfThisMap(toClient[i])'
    BY <1>2, <1>4, <2>1 DEF OfThisMap
  <2> QED BY <1>4, <2>2 DEF FramesOK
<1> QED BY <1>7, <1>8, <1>9, <1>10, <1>11, <1>12 DEF DeltaInv

(* A message is sent.                                                      *)
LEMMA FlightGrows ==
  ASSUME Types, NEW m \in Messages, toClient' = Append(toClient, m)
  PROVE  /\ toClient' \in Seq(Messages)
         /\ DOMAIN toClient' = 1 .. Len(toClient) + 1
         /\ toClient'[Len(toClient) + 1] = m
         /\ \A i \in DOMAIN toClient : i \in DOMAIN toClient'
                                       /\ toClient'[i] = toClient[i]
         /\ \A i \in DOMAIN toClient' :
              \/ i = Len(toClient) + 1
              \/ i \in DOMAIN toClient /\ toClient'[i] = toClient[i]
<1>1. /\ toClient \in Seq(Messages) /\ Len(toClient) \in Nat
      /\ DOMAIN toClient = 1 .. Len(toClient)
  BY FlightIs
<1>2. /\ toClient' \in Seq(Messages) /\ DOMAIN toClient' = 1 .. Len(toClient) + 1
      /\ \A i \in 1 .. Len(toClient) : toClient'[i] = toClient[i]
      /\ toClient'[Len(toClient) + 1] = m
  BY <1>1, AppendedMessage
<1>3. \A i \in 1 .. Len(toClient) + 1 : i \in 1 .. Len(toClient) \/ i = Len(toClient) + 1
  BY <1>1
<1>4. \A i \in 1 .. Len(toClient) : i \in 1 .. Len(toClient) + 1
  BY <1>1
<1> QED BY <1>1, <1>2, <1>3, <1>4

(* A message that is sent is the last in order.                            *)
LEMMA OrderSent ==
  ASSUME Types, OrderOK, NEW m \in Messages, m.sequence = outgoingSequence,
         toClient' = Append(toClient, m),
         outgoingSequence' = outgoingSequence + 1,
         UNCHANGED serverMessageSequence,
         \A i \in DOMAIN toServer' :
            \E j \in DOMAIN toServer : toServer'[i] = toServer[j]
  PROVE  OrderOK'
<1>1. outgoingSequence \in Nat /\ serverMessageSequence \in Nat
  BY TypesAre DEF Types
<1>2. /\ toClient'[Len(toClient) + 1] = m
      /\ \A i \in DOMAIN toClient' :
           \/ i = Len(toClient) + 1
           \/ i \in DOMAIN toClient /\ toClient'[i] = toClient[i]
  BY FlightGrows
<1>3. /\ DOMAIN toClient = 1 .. Len(toClient) /\ Len(toClient) \in Nat
      /\ \A i \in DOMAIN toClient : toClient[i].sequence \in Nat
  BY FlightIs
<1>4. ASSUME NEW i \in DOMAIN toClient'
      PROVE  /\ serverMessageSequence < toClient'[i].sequence
             /\ toClient'[i].sequence < outgoingSequence + 1
  <2>1. CASE i = Len(toClient) + 1
    BY <1>1, <1>2, <2>1 DEF OrderOK
  <2>2. CASE i \in DOMAIN toClient /\ toClient'[i] = toClient[i]
    <3>1. /\ serverMessageSequence < toClient[i].sequence
          /\ toClient[i].sequence < outgoingSequence
          /\ toClient[i].sequence \in Nat
      BY <1>3, <2>2 DEF OrderOK
    <3> QED BY <1>1, <2>2, <3>1
  <2> QED BY <1>2, <2>1, <2>2
<1>5. ASSUME NEW i \in DOMAIN toClient', NEW j \in DOMAIN toClient', i < j
      PROVE  toClient'[i].sequence < toClient'[j].sequence
  <2>1. i \in DOMAIN toClient /\ toClient'[i] = toClient[i]
    <3>1. j \in DOMAIN toClient \/ j = Len(toClient) + 1
      BY <1>2
    <3>2. i # Len(toClient) + 1
      BY <1>3, <1>5, <3>1
    <3> QED BY <1>2, <3>2
  <2>2. CASE j = Len(toClient) + 1
    BY <1>2, <2>1, <2>2 DEF OrderOK
  <2>3. CASE j \in DOMAIN toClient /\ toClient'[j] = toClient[j]
    BY <1>5, <2>1, <2>3 DEF OrderOK
  <2> QED BY <1>2, <2>2, <2>3
<1>6. serverMessageSequence < outgoingSequence + 1
  BY <1>1 DEF OrderOK
<1>7. \A i \in DOMAIN toServer' :
         toServer'[i].messageAcknowledge <= serverMessageSequence
  BY DEF OrderOK
<1> QED BY <1>4, <1>5, <1>6, <1>7 DEF OrderOK

(* The snapshots in flight keep their bases.                               *)
LEMMA DeltasSent ==
  ASSUME Types, OrderOK, DeltasOK,
         NEW m \in Messages, m.sequence = outgoingSequence,
         toClient' = Append(toClient, m),
         UNCHANGED <<serverMessageSequence, snapshots>>,
         m.kind = "snapshot" => DeltaOK(m)
  PROVE  DeltasOK'
<1>1. /\ toClient'[Len(toClient) + 1] = m
      /\ \A i \in DOMAIN toClient' :
           \/ i = Len(toClient) + 1
           \/ i \in DOMAIN toClient /\ toClient'[i] = toClient[i]
  BY FlightGrows
<1>2. ASSUME NEW i \in DOMAIN toClient', toClient'[i].kind = "snapshot"
      PROVE  DeltaOK(toClient[i])'
  <2>1. CASE i = Len(toClient) + 1
    <3>1. toClient'[i] = m /\ m.kind = "snapshot" /\ DeltaOK(m)
      BY <1>1, <1>2, <2>1
    <3>2. \A j \in DOMAIN toClient' : toClient'[j].kind = "gamestate" =>
             j \in DOMAIN toClient /\ toClient'[j] = toClient[j]
      BY <1>1, <3>1
    <3> QED BY <3>1, <3>2 DEF DeltaOK, BaseOf, Base, Kept
  <2>2. CASE i \in DOMAIN toClient /\ toClient'[i] = toClient[i]
    <3>1. DeltaOK(toClient[i]) /\ toClient[i].sequence < outgoingSequence
      BY <1>2, <2>2 DEF DeltasOK, OrderOK
    <3>2. toClient[i].lastframe # 0 =>
            \A j \in DOMAIN toClient' : toClient'[j].kind = "gamestate" =>
               toClient[i].sequence < toClient'[j].sequence
      BY <1>1, <3>1 DEF DeltaOK
    <3> QED BY <2>2, <3>1, <3>2 DEF DeltaOK, BaseOf, Base, Kept
  <2> QED BY <1>1, <2>1, <2>2
<1> QED BY <1>2 DEF DeltasOK

(* The usercmds at the head of the queue are taken.                        *)
LEMMA UsercmdsTaken ==
  ASSUME Types, toServer # <<>>, toServer' = Tail(toServer)
  PROVE  /\ Head(toServer) = toServer[1] /\ 1 \in DOMAIN toServer
         /\ Head(toServer) \in Packets
         /\ toServer' \in Seq(Packets)
         /\ \A i \in DOMAIN toServer' :
              \E j \in DOMAIN toServer : toServer'[i] = toServer[j]
<1>1. toServer \in Seq(Packets) /\ \A i \in DOMAIN toServer : toServer[i] \in Packets
  BY FlightIs
<1>2. /\ Head(toServer) = toServer[1] /\ 1 \in DOMAIN toServer
      /\ toServer' \in Seq(Packets)
      /\ \A i \in DOMAIN toServer' :
           i + 1 \in DOMAIN toServer /\ toServer'[i] = toServer[i + 1]
  BY <1>1, TailOfMessages
<1> QED BY <1>1, <1>2

(* Nothing changes but that usercmds are taken, and what they ask for.     *)
LEMMA QuietStep ==
  ASSUME DeltaInv, toServer # <<>>, toServer' = Tail(toServer),
         UNCHANGED <<serverId, frames, nextSnapshotEntities, snapshotEntities,
                     outgoingSequence, gamestateMessageNum, toClient,
                     clientVars>>,
         state' \in {"CONNECTED", "PRIMED", "ACTIVE"}, gentity' \in BOOLEAN,
         deltaMessage' \in Nat \cup {-1},
         state' = "ACTIVE" => HasGamestate,
         state' = "ACTIVE" /\ deltaMessage' > 0 =>
           /\ deltaMessage' <= serverMessageSequence
           /\ outgoingSequence - deltaMessage' < PACKET_BACKUP
                => Kept(deltaMessage')
  PROVE  DeltaInv'
<1>1. /\ Types /\ OrderOK /\ GamestatesOK /\ RingOK /\ AskedKept
      /\ DeltasOK /\ FramesOK
  BY DEF DeltaInv
<1>2. /\ toServer' \in Seq(Packets)
      /\ \A i \in DOMAIN toServer' :
           \E j \in DOMAIN toServer : toServer'[i] = toServer[j]
  BY <1>1, UsercmdsTaken
<1>3. /\ serverId' = serverId /\ clServerId' = clServerId
      /\ outgoingSequence' = outgoingSequence
      /\ gamestateMessageNum' = gamestateMessageNum
      /\ toClient' = toClient /\ snap' = snap /\ snapshots' = snapshots
      /\ serverMessageSequence' = serverMessageSequence
  BY DEF clientVars
<1>4. Types'
  <2>1. TypeOK'
    BY <1>1 DEF Types, TypeOK, clientVars
  <2> QED BY <1>1, <1>2, <1>3, <2>1 DEF Types
<1>5. OrderOK'
  BY <1>1, <1>2, <1>3 DEF OrderOK
<1>6. GamestatesOK'
  BY <1>1, <1>2, <1>3 DEF GamestatesOK, HasGamestate
<1>7. AskedKept'
  BY <1>1, <1>2, <1>3 DEF AskedKept, Kept
<1>8. RingOK' /\ DeltasOK' /\ FramesOK'
  BY <1>1, <1>3, RingStays, DeltasStay, FramesStay
<1> QED BY <1>4, <1>5, <1>6, <1>7, <1>8 DEF DeltaInv

(* The gamestate is sent again: none is in flight, and the client has not  *)
(* got that of this map.                                                   *)
LEMMA GamestateStep ==
  ASSUME DeltaInv, toServer # <<>>, toServer' = Tail(toServer),
         Head(toServer).serverId # serverId,
         Head(toServer).messageAcknowledge > gamestateMessageNum,
         SV_SendClientGameState,
         UNCHANGED <<gentity, deltaMessage, serverId, frames,
                     nextSnapshotEntities, snapshotEntities, clientVars>>
  PROVE  DeltaInv'
<1> DEFINE m == [sequence |-> outgoingSequence, kind |-> "gamestate",
                 serverId |-> serverId]
<1>1. /\ Types /\ OrderOK /\ GamestatesOK /\ RingOK /\ AskedKept
      /\ DeltasOK /\ FramesOK /\ TypeOK
  BY DEF DeltaInv, Types
<1>2. /\ Head(toServer) = toServer[1] /\ 1 \in DOMAIN toServer
      /\ toServer' \in Seq(Packets)
      /\ \A i \in DOMAIN toServer' :
           \E j \in DOMAIN toServer : toServer'[i] = toServer[j]
  BY <1>1, UsercmdsTaken
<1>3. /\ serverId' = serverId /\ clServerId' = clServerId /\ state' = "PRIMED"
      /\ outgoingSequence' = outgoingSequence + 1
      /\ gamestateMessageNum' = outgoingSequence
      /\ toClient' = Append(toClient, m)
      /\ snap' = snap /\ snapshots' = snapshots
      /\ serverMessageSequence' = serverMessageSequence
  BY DEF clientVars, SV_SendClientGameState, SendMessage
<1>4. /\ outgoingSequence \in Nat /\ serverId \in Nat
      /\ gamestateMessageNum \in Int /\ serverMessageSequence \in Nat
      /\ clServerId \in Nat /\ PACKET_BACKUP \in Nat
  BY <1>1, TypesAre
<1>5. /\ m \in Messages /\ m.sequence = outgoingSequence /\ m.kind = "gamestate"
      /\ m.serverId = serverId
  BY <1>4 DEF Messages
<1> HIDE DEF m
<1>6. /\ toClient' \in Seq(Messages)
      /\ toClient'[Len(toClient) + 1] = m
      /\ \A i \in DOMAIN toClient' :
           \/ i = Len(toClient) + 1
           \/ i \in DOMAIN toClient /\ toClient'[i] = toClient[i]
  BY <1>1, <1>3, <1>5, FlightGrows
<1>7. ~HasGamestate
  BY <1>1, <1>2, <1>4, FlightIs DEF GamestatesOK
<1>8. \A i \in DOMAIN toClient : toClient[i].kind # "gamestate"
  <2>1. toServer[1].messageAcknowledge <= serverMessageSequence
        /\ toServer[1].messageAcknowledge \in Nat
    BY <1>1, <1>2, FlightIs DEF OrderOK
  <2>2. \A i \in DOMAIN toClient : serverMessageSequence < toClient[i].sequence
                                   /\ toClient[i].sequence \in Nat
    BY <1>1, FlightIs DEF OrderOK
  <2>3. \A i \in DOMAIN toClient : toClient[i].sequence # gamestateMessageNum
    BY <1>2, <1>4, <2>1, <2>2
  <2> QED BY <1>1, <2>3 DEF GamestatesOK
<1>9. Types'
  <2>1. TypeOK'
    BY <1>1, <1>3, <1>4 DEF TypeOK, clientVars
  <2> QED BY <1>2, <1>6, <2>1 DEF Types
<1>10. OrderOK'
  BY <1>1, <1>2, <1>3, <1>5, OrderSent
<1>11. GamestatesOK'
  <2>1. \A i \in DOMAIN toClient' : toClient'[i].kind = "gamestate" =>
           toClient'[i].sequence = outgoingSequence
           /\ toClient'[i].serverId = serverId
    BY <1>5, <1>6, <1>8
  <2>2. serverId <= serverId
    BY <1>4
  <2>3. \A i \in DOMAIN toServer' : toServer'[i].serverId <= serverId
                                    /\ (toServer'[i].serverId = serverId
                                          => HasGamestate)
    BY <1>1, <1>2 DEF GamestatesOK
  <2>4. clServerId <= serverId
    BY <1>1 DEF GamestatesOK
  <2>5. HasGamestate' <=> HasGamestate
    BY <1>3 DEF HasGamestate
  <2> QED BY <1>3, <1>7, <2>1, <2>2, <2>3, <2>4, <2>5 DEF GamestatesOK
<1>12. AskedKept'
  <2>1. \A i \in DOMAIN toServer' : toServer'[i].serverId # serverId
    BY <1>1, <1>2, <1>7 DEF GamestatesOK
  <2> QED BY <1>3, <2>1 DEF AskedKept
<1>13. RingOK' /\ DeltasOK'
  BY <1>1, <1>3, <1>5, RingStays, DeltasSent
<1>14. FramesOK'
  <2>1. ~HasGamestate'
    BY <1>3, <1>7 DEF HasGamestate
  <2>2. ASSUME NEW i \in DOMAIN toClient', toClient'[i].kind = "snapshot",
               OfThisMap(toClient[i])'
        PROVE  FALSE
    <3>1. i \in DOMAIN toClient /\ toClient'[i] = toClient[i]
      BY <1>5, <1>6, <2>2
    <3>2. toClient[i].sequence < outgoingSequence /\ toClient[i].sequence \in Nat
      BY <1>1, <3>1, FlightIs DEF OrderOK
    <3>3. PICK j \in DOMAIN toClient' : toClient'[j].kind = "gamestate"
                     /\ toClient'[j].sequence < toClient'[i].sequence
      BY <2>1, <2>2 DEF OfThisMap
    <3>4. toClient'[j] = m
      BY <1>6, <1>8, <3>3
    <3> QED BY <1>4, <1>5, <3>1, <3>2, <3>3, <3>4
  <2> QED BY <2>1, <2>2 DEF FramesOK
<1> QED BY <1>9, <1>10, <1>11, <1>12, <1>13, <1>14 DEF DeltaInv

(* The server takes usercmds: the snapshot they ask for is one the client  *)
(* has.                                                                    *)
LEMMA UsercmdsStep ==
  ASSUME DeltaInv, SV_ExecuteClientMessage
  PROVE  DeltaInv'
<1> DEFINE m == Head(toServer)
<1>1. /\ Types /\ OrderOK /\ GamestatesOK /\ AskedKept /\ TypeOK
  BY DEF DeltaInv, Types
<1>2. /\ toServer # <<>> /\ toServer' = Tail(toServer)
      /\ OutdatedUsercmds(m) \/ FirstUsercmds(m) \/ LaterUsercmds(m)
      /\ UNCHANGED <<serverId, frames, nextSnapshotEntities, snapshotEntities,
                     clientVars>>
  BY DEF SV_ExecuteClientMessage
<1>3. /\ m = toServer[1] /\ 1 \in DOMAIN toServer /\ m \in Packets
  BY <1>1, <1>2, UsercmdsTaken
<1> HIDE DEF m
<1>4. /\ state \in {"CONNECTED", "PRIMED", "ACTIVE"} /\ gentity \in BOOLEAN
      /\ deltaMessage \in Nat \cup {-1}
  BY <1>1 DEF TypeOK
<1>5. CASE OutdatedUsercmds(m)
  <2>1. CASE m.messageAcknowledge > gamestateMessageNum
    BY <1>2, <1>5, <2>1, GamestateStep DEF OutdatedUsercmds, m
  <2>2. CASE ~(m.messageAcknowledge > gamestateMessageNum)
    <3>1. UNCHANGED <<state, outgoingSequence, gamestateMessageNum, toClient,
                      gentity, deltaMessage>>
      BY <1>5, <2>2 DEF OutdatedUsercmds
    <3>2. state = "ACTIVE" => HasGamestate
      BY <1>1 DEF GamestatesOK
    <3>3. state = "ACTIVE" /\ deltaMessage > 0 =>
            /\ deltaMessage <= serverMessageSequence
            /\ outgoingSequence - deltaMessage < PACKET_BACKUP
                 => Kept(deltaMessage)
      BY <1>1 DEF AskedKept
    <3> QED BY <1>2, <1>4, <3>1, <3>2, <3>3, QuietStep
  <2> QED BY <2>1, <2>2
<1>6. CASE FirstUsercmds(m)
  <2>1. HasGamestate
    BY <1>1, <1>3, <1>6 DEF FirstUsercmds, GamestatesOK
  <2>2. /\ state' = "ACTIVE" /\ gentity' = TRUE /\ deltaMessage' = -1
        /\ UNCHANGED <<outgoingSequence, gamestateMessageNum, toClient>>
    BY <1>6 DEF FirstUsercmds
  <2> QED BY <1>2, <2>1, <2>2, QuietStep
<1>7. CASE LaterUsercmds(m)
  <2>1. HasGamestate
    BY <1>1, <1>3, <1>7 DEF LaterUsercmds, GamestatesOK
  <2>2. /\ state' = state /\ gentity' = gentity
        /\ deltaMessage' = IF m.delta THEN m.messageAcknowledge ELSE -1
        /\ UNCHANGED <<outgoingSequence, gamestateMessageNum, toClient>>
    BY <1>7 DEF LaterUsercmds
  <2>3. deltaMessage' \in Nat \cup {-1}
    BY <1>3, <2>2 DEF Packets
  <2>4. ASSUME deltaMessage' > 0
        PROVE  /\ deltaMessage' <= serverMessageSequence
               /\ outgoingSequence - deltaMessage' < PACKET_BACKUP
                    => Kept(deltaMessage')
    <3>1. m.delta /\ deltaMessage' = m.messageAcknowledge
      BY <2>2, <2>4
    <3>2. m.serverId = serverId
      BY <1>7 DEF LaterUsercmds
    <3> QED BY <1>1, <1>3, <3>1, <3>2 DEF OrderOK, AskedKept
  <2> QED BY <1>2, <1>4, <2>1, <2>2, <2>3, <2>4, QuietStep
<1> QED BY <1>2, <1>5, <1>6, <1>7

(* The message at the head of the queue is taken.                          *)
LEMMA MessageTaken ==
  ASSUME Types, OrderOK, toClient # <<>>, toClient' = Tail(toClient)
  PROVE  /\ Head(toClient) = toClient[1] /\ 1 \in DOMAIN toClient
         /\ Head(toClient) \in Messages
         /\ Head(toClient).sequence \in Nat
         /\ serverMessageSequence < Head(toClient).sequence
         /\ Head(toClient).sequence < outgoingSequence
         /\ toClient' \in Seq(Messages)
         /\ \A i \in DOMAIN toClient' :
              /\ toClient'[i].sequence \in Nat
              /\ Head(toClient).sequence < toClient'[i].sequence
              /\ \E j \in DOMAIN toClient : toClient'[i] = toClient[j]
         /\ InOrderFrom(toClient', toClient)
<1>1. /\ toClient \in Seq(Messages)
      /\ DOMAIN toClient = 1 .. Len(toClient) /\ Len(toClient) \in Nat
      /\ \A i \in DOMAIN toClient : toClient[i] \in Messages
                                    /\ toClient[i].sequence \in Nat
  BY FlightIs
<1>2. /\ Head(toClient) = toClient[1] /\ 1 \in DOMAIN toClient
      /\ toClient' \in Seq(Messages)
      /\ \A i \in DOMAIN toClient' :
           i + 1 \in DOMAIN toClient /\ toClient'[i] = toClient[i + 1]
  BY <1>1, TailOfMessages
<1>3. ASSUME NEW i \in DOMAIN toClient'
      PROVE  /\ toClient'[i].sequence \in Nat
             /\ Head(toClient).sequence < toClient'[i].sequence
             /\ \E j \in DOMAIN toClient : toClient'[i] = toClient[j]
  <2>1. i \in Nat /\ i >= 1
    <3>1. DOMAIN toClient' = 1 .. Len(toClient')
      BY <1>2, LenProperties
    <3> QED BY <3>1
  <2>2. 1 < i + 1
    BY <2>1
  <2>3. toClient[1].sequence < toClient[i + 1].sequence
    BY <1>2, <2>2 DEF OrderOK
  <2> QED BY <1>1, <1>2, <2>3
<1>4. InOrderFrom(toClient', toClient)
  BY <1>1, TakenInOrder
<1> QED BY <1>1, <1>2, <1>3, <1>4 DEF OrderOK

(* The messages stay in order when the first is taken.                     *)
LEMMA OrderReceived ==
  ASSUME Types, OrderOK, toClient # <<>>, toClient' = Tail(toClient),
         serverMessageSequence' = Head(toClient).sequence,
         UNCHANGED <<outgoingSequence, toServer>>
  PROVE  OrderOK'
<1>1. /\ serverMessageSequence < Head(toClient).sequence
      /\ Head(toClient).sequence < outgoingSequence
      /\ Head(toClient).sequence \in Nat
      /\ \A i \in DOMAIN toClient' :
           /\ Head(toClient).sequence < toClient'[i].sequence
           /\ \E j \in DOMAIN toClient : toClient'[i] = toClient[j]
      /\ \A i1, i2 \in DOMAIN toClient' : i1 < i2 =>
           \E j1, j2 \in DOMAIN toClient :
              j1 < j2 /\ toClient'[i1] = toClient[j1] /\ toClient'[i2] = toClient[j2]
  BY MessageTaken DEF InOrderFrom
<1>2. serverMessageSequence \in Nat
  BY TypesAre DEF Types
<1>3. ASSUME NEW i \in DOMAIN toServer
      PROVE  toServer[i].messageAcknowledge <= Head(toClient).sequence
  <2>1. /\ toServer[i].messageAcknowledge \in Nat
        /\ toServer[i].messageAcknowledge <= serverMessageSequence
    BY FlightIs DEF OrderOK
  <2> QED BY <1>1, <1>2, <2>1
<1>4. \A i \in DOMAIN toClient' : toClient'[i].sequence < outgoingSequence
  BY <1>1 DEF OrderOK
<1>5. \A i1, i2 \in DOMAIN toClient' :
         i1 < i2 => toClient'[i1].sequence < toClient'[i2].sequence
  BY <1>1 DEF OrderOK
<1> QED BY <1>1, <1>3, <1>4, <1>5 DEF OrderOK

(* What is left in flight of this map was of this map.                     *)
LEMMA OfThisMapStill ==
  ASSUME InOrderFrom(toClient', toClient), UNCHANGED <<serverId, clServerId>>,
         NEW i \in DOMAIN toClient', OfThisMap(toClient[i])'
  PROVE  OfThisMap(toClient'[i])
BY DEF InOrderFrom, OfThisMap, HasGamestate

(* The client takes a message, and keeps its snapshots as they are.        *)
LEMMA SkipStep ==
  ASSUME DeltaInv, toClient # <<>>, toClient' = Tail(toClient),
         serverMessageSequence' = Head(toClient).sequence,
         UNCHANGED <<serverVars, toServer, clServerId, snap, snapshots>>,
         ParseTypes'
  PROVE  DeltaInv'
<1>1. /\ Types /\ OrderOK /\ GamestatesOK /\ RingOK /\ AskedKept
      /\ DeltasOK /\ FramesOK
  BY DEF DeltaInv
<1>2. /\ Head(toClient).sequence \in Nat
      /\ serverMessageSequence < Head(toClient).sequence
      /\ toClient' \in Seq(Messages)
      /\ \A i \in DOMAIN toClient' :
           \E j \in DOMAIN toClient : toClient'[i] = toClient[j]
      /\ InOrderFrom(toClient', toClient)
  BY <1>1, MessageTaken
<1>3. /\ serverId' = serverId /\ clServerId' = clServerId /\ state' = state
      /\ outgoingSequence' = outgoingSequence
      /\ gamestateMessageNum' = gamestateMessageNum
      /\ deltaMessage' = deltaMessage
      /\ frames' = frames /\ nextSnapshotEntities' = nextSnapshotEntities
      /\ snapshotEntities' = snapshotEntities
      /\ toServer' = toServer /\ snap' = snap /\ snapshots' = snapshots
  BY DEF serverVars
<1>4. serverMessageSequence \in Nat /\ deltaMessage \in Int
  BY <1>1, TypesAre DEF Types
<1>5. Types'
  <2>1. TypeOK'
    BY <1>1, <1>2 DEF Types, TypeOK, serverVars, ParseTypes, ParseRings, Entities
  <2> QED BY <1>1, <1>2, <1>3, <2>1 DEF Types
<1>6. OrderOK'
  BY <1>1, <1>3, OrderReceived
<1>7. GamestatesOK'
  BY <1>1, <1>2, <1>3 DEF GamestatesOK, HasGamestate
<1>8. RingOK'
  <2>1. snap.messageNum \in Nat
    BY <1>1, TypesAre DEF Types, SnapshotRecords
  <2>2. snap.messageNum <= Head(toClient).sequence
    BY <1>1, <1>2, <1>4, <2>1 DEF RingOK
  <2> QED BY <1>1, <1>3, <2>2 DEF RingOK
<1>9. AskedKept'
  <2>1. deltaMessage <= serverMessageSequence
          => deltaMessage <= Head(toClient).sequence
    BY <1>2, <1>4
  <2> QED BY <1>1, <1>3, <2>1 DEF AskedKept, Kept
<1>10. DeltasOK'
  <2>1. 0 .. serverMessageSequence \subseteq 0 .. Head(toClient).sequence
    BY <1>2, <1>4
  <2>2. ASSUME NEW i \in DOMAIN toClient', toClient'[i].kind = "snapshot"
        PROVE  DeltaOK(toClient[i])'
    <3>1. PICK j \in DOMAIN toClient : toClient'[i] = toClient[j]
      BY <1>2
    <3>2. DeltaOK(toClient[j])
      BY <1>1, <2>2, <3>1 DEF DeltasOK
    <3>3. \A k \in DOMAIN toClient' : toClient'[k].kind = "gamestate" =>
             \E n \in DOMAIN toClient : toClient'[k] = toClient[n]
                                        /\ toClient[n].kind = "gamestate"
      BY <1>2
    <3> QED BY <1>3, <2>1, <3>1, <3>2, <3>3 DEF DeltaOK, BaseOf, Base, Kept
  <2> QED BY <2>2 DEF DeltasOK
<1>11. FramesOK'
  <2>1. ASSUME NEW i \in DOMAIN toClient', toClient'[i].kind = "snapshot",
               OfThisMap(toClient[i])'
        PROVE  FrameIs(toClient[i].sequence, toClient[i].truth)'
    <3>1. PICK j \in DOMAIN toClient : toClient'[i] = toClient[j]
      BY <1>2
    <3>2. OfThisMap(toClient'[i])
      BY <1>2, <1>3, <2>1, OfThisMapStill
    <3>3. FrameIs(toClient[j].sequence, toClient[j].truth)
      BY <1>1, <2>1, <3>1, <3>2 DEF FramesOK
    <3> QED BY <1>3, <3>1, <3>3 DEF FrameIs, FrameHeld
  <2>2. ASSUME HasGamestate', NEW i \in DOMAIN snapshots', snapshots'[i].valid
        PROVE  FrameIs(snapshots[i].messageNum, snapshots[i].truth)'
    <3>1. FrameIs(snapshots[i].messageNum, snapshots[i].truth)
      BY <1>1, <1>3, <2>2 DEF FramesOK, HasGamestate
    <3> QED BY <1>3, <3>1 DEF FrameIs, FrameHeld
  <2> QED BY <2>1, <2>2 DEF FramesOK
<1> QED BY <1>5, <1>6, <1>7, <1>8, <1>9, <1>10, <1>11 DEF DeltaInv

(* The cleared ring of entities is one.                                    *)
LEMMA EntitiesCleared ==
  ParseTypes => ClearedEntities \in ParseRings
<1>1. NoEntity \in Entities
  BY DEF NoEntity, Entity, Baseline, Entities
<1> QED BY <1>1 DEF ClearedEntities, ParseRings

(* The client takes a gamestate: no delta compressed snapshot was sent     *)
(* after it and is still in flight, nor are usercmds for its map.          *)
LEMMA GamestateParsed ==
  ASSUME DeltaInv, toClient # <<>>, toClient' = Tail(toClient),
         serverMessageSequence' = Head(toClient).sequence,
         Head(toClient).kind = "gamestate", CL_ParseGamestate(Head(toClient)),
         UNCHANGED <<serverVars, toServer>>
  PROVE  DeltaInv'
<1> DEFINE m == Head(toClient)
<1>1. /\ Types /\ OrderOK /\ GamestatesOK /\ RingOK /\ AskedKept
      /\ DeltasOK /\ FramesOK /\ TypeOK
  BY DEF DeltaInv, Types
<1>2. /\ m = toClient[1] /\ 1 \in DOMAIN toClient /\ m \in Messages
      /\ m.sequence \in Nat /\ serverMessageSequence < m.sequence
      /\ toClient' \in Seq(Messages)
      /\ \A i \in DOMAIN toClient' :
           /\ toClient'[i].sequence \in Nat /\ m.sequence < toClient'[i].sequence
           /\ \E j \in DOMAIN toClient : toClient'[i] = toClient[j]
  BY <1>1, MessageTaken
<1>3. /\ serverId' = serverId /\ state' = state
      /\ outgoingSequence' = outgoingSequence
      /\ gamestateMessageNum' = gamestateMessageNum
      /\ deltaMessage' = deltaMessage
      /\ frames' = frames /\ nextSnapshotEntities' = nextSnapshotEntities
      /\ snapshotEntities' = snapshotEntities /\ toServer' = toServer
      /\ clServerId' = m.serverId /\ snap' = NoSnapshot
      /\ snapshots' = ClearedSnapshots
      /\ parseEntitiesNum' = 0 /\ parseEntities' = ClearedEntities
      /\ serverMessageSequence' = m.sequence
  BY DEF serverVars, CL_ParseGamestate
<1>4. /\ serverMessageSequence \in Nat /\ gamestateMessageNum \in Int
      /\ serverId \in Nat /\ clServerId \in Nat
  BY <1>1, TypesAre
<1>5. m.kind = "gamestate" /\ m.serverId \in Nat
  BY <1>2, MessageFields
<1> HIDE DEF m
<1>6. m.sequence = gamestateMessageNum /\ m.serverId <= serverId /\ ~HasGamestate
  BY <1>1, <1>2, <1>5 DEF GamestatesOK
<1>7. \A i \in DOMAIN toClient' : toClient'[i].kind # "gamestate"
  <2>1. \A i \in DOMAIN toClient' : toClient'[i].sequence # gamestateMessageNum
    BY <1>2, <1>6
  <2>2. \A i \in DOMAIN toClient' : toClient'[i].kind = "gamestate" =>
           toClient'[i].sequence = gamestateMessageNum
    BY <1>1, <1>2 DEF GamestatesOK
  <2> QED BY <2>1, <2>2
<1>8. /\ DOMAIN ClearedSnapshots = 0 .. PACKET_BACKUP - 1
      /\ \A i \in DOMAIN ClearedSnapshots : ClearedSnapshots[i] = NoSnapshot
      /\ NoSnapshot.valid = FALSE /\ NoSnapshot.messageNum = 0
      /\ NoSnapshot \in SnapshotRecords
  BY DEF ClearedSnapshots, NoSnapshot, SnapshotRecords, Views
<1>9. Types'
  <2>1. ClearedEntities \in ParseRings
    BY <1>1, EntitiesCleared, TypesAre
  <2>2. ClearedSnapshots \in [0 .. PACKET_BACKUP - 1 -> SnapshotRecords]
    BY <1>8 DEF ClearedSnapshots
  <2>3. TypeOK'
    BY <1>1, <1>2, <1>3, <1>5, <1>8, <2>1, <2>2
       DEF TypeOK, serverVars, SnapshotRecords, Views, ParseRings, Entities
  <2> QED BY <1>1, <1>2, <1>3, <2>3 DEF Types
<1>10. OrderOK'
  BY <1>1, <1>3, OrderReceived DEF m
<1>11. GamestatesOK'
  <2>1. state # "ACTIVE"
    BY <1>1, <1>6 DEF GamestatesOK
  <2>2. ASSUME NEW i \in DOMAIN toServer
        PROVE  /\ toServer[i].serverId <= serverId
               /\ toServer[i].serverId # serverId
               /\ toServer[i].messageAcknowledge <= gamestateMessageNum
    <3>1. /\ toServer[i].messageAcknowledge \in Nat
          /\ toServer[i].messageAcknowledge <= serverMessageSequence
      BY <1>1, FlightIs DEF OrderOK
    <3>2. toServer[i].messageAcknowledge <= gamestateMessageNum
      BY <1>2, <1>4, <1>6, <3>1
    <3> QED BY <1>1, <1>6, <3>2 DEF GamestatesOK
  <2> QED BY <1>3, <1>6, <1>7, <2>1, <2>2 DEF GamestatesOK
<1>12. RingOK'
  <2>1. 0 <= m.sequence
    BY <1>2
  <2> QED BY <1>3, <1>8, <2>1 DEF RingOK
<1>13. AskedKept'
  <2>1. state # "ACTIVE" /\ \A i \in DOMAIN toServer : toServer[i].serverId # serverId
    BY <1>1, <1>6 DEF GamestatesOK
  <2> QED BY <1>3, <2>1 DEF AskedKept
<1>14. DeltasOK'
  <2>1. ASSUME NEW i \in DOMAIN toClient', toClient'[i].kind = "snapshot"
        PROVE  DeltaOK(toClient[i])'
    <3>1. PICK j \in DOMAIN toClient : toClient'[i] = toClient[j]
      BY <1>2
    <3>2. DeltaOK(toClient[j])
      BY <1>1, <2>1, <3>1 DEF DeltasOK
    <3>3. m.sequence < toClient[j].sequence /\ toClient[j].sequence \in Nat
      BY <1>2, <3>1
    <3>4. ~(toClient[j].sequence < m.sequence)
      BY <1>2, <3>3
    <3>5. toClient[j].lastframe = 0
      BY <1>2, <1>5, <3>2, <3>4 DEF DeltaOK
    <3> QED BY <3>1, <3>2, <3>5 DEF DeltaOK
  <2> QED BY <2>1 DEF DeltasOK
<1>15. FramesOK'
  <2>1. ASSUME NEW i \in DOMAIN toClient', toClient'[i].kind = "snapshot",
               OfThisMap(toClient[i])'
        PROVE  FrameIs(toClient[i].sequence, toClient[i].truth)'
    <3>1. PICK j \in DOMAIN toClient : toClient'[i] = toClient[j]
      BY <1>2
    <3>2. m.serverId = serverId
      BY <1>3, <1>7, <2>1 DEF OfThisMap, HasGamestate
    <3>3. OfThisMap(toClient[j])
      BY <1>2, <1>5, <3>1, <3>2 DEF OfThisMap
    <3>4. FrameIs(toClient[j].sequence, toClient[j].truth)
      BY <1>1, <2>1, <3>1, <3>3 DEF FramesOK
    <3> QED BY <1>3, <3>1, <3>4 DEF FrameIs, FrameHeld
  <2>2. \A i \in DOMAIN snapshots' : ~snapshots'[i].valid
    BY <1>3, <1>8
  <2> QED BY <2>1, <2>2 DEF FramesOK
<1> QED BY <1>9, <1>10, <1>11, <1>12, <1>13, <1>14, <1>15 DEF DeltaInv

(* What a snapshot leaves of the client's ring of entities.                *)
LEMMA SnapshotRead ==
  ASSUME DeltaInv, toClient # <<>>, Head(toClient).kind = "snapshot",
         CL_ParseSnapshot(Head(toClient))
  PROVE  LET m == Head(toClient)
             old == IF m.lastframe > 0 THEN Base(m) ELSE NoSnapshot
         IN /\ m.lastframe \in Nat /\ m.changes \in ChangeLists
            /\ m.truth \in Views /\ DeltaOK(m)
            /\ m.lastframe > 0 =>
                 /\ BaseOf(m) \in Nat
                 /\ FrameSlot(BaseOf(m)) \in DOMAIN snapshots
                 /\ Base(m) = snapshots[FrameSlot(BaseOf(m))]
            /\ old \in SnapshotRecords
            /\ parseEntities' = CL_ParsePacketEntities(m.changes, old).ring
            /\ parseEntitiesNum' = CL_ParsePacketEntities(m.changes, old).next
            /\ ParseTypes' /\ parseEntitiesNum <= parseEntitiesNum'
            /\ \A p \in Nat :
                 p < parseEntitiesNum
                   /\ p + MAX_PARSE_ENTITIES > parseEntitiesNum' =>
                 parseEntities'[p % MAX_PARSE_ENTITIES]
                   = parseEntities[p % MAX_PARSE_ENTITIES]
<1> DEFINE m == Head(toClient)
           old == IF m.lastframe > 0 THEN Base(m) ELSE NoSnapshot
           parsed == CL_ParsePacketEntities(m.changes, old)
<1>1. Types /\ TypeOK /\ DeltasOK
  BY DEF DeltaInv, Types
<1>2. m \in Messages /\ m = toClient[1] /\ 1 \in DOMAIN toClient
  <2>1. toClient \in Seq(Messages) /\ \A i \in DOMAIN toClient : toClient[i] \in Messages
    BY <1>1, FlightIs
  <2> QED BY <2>1, TailOfMessages
<1>3. m.kind = "snapshot" /\ CL_ParseSnapshot(m)
  OBVIOUS
<1>4. parseEntities' = parsed.ring /\ parseEntitiesNum' = parsed.next
  BY DEF CL_ParseSnapshot
<1> HIDE DEF m, parsed
<1>5. m.lastframe \in Nat /\ m.changes \in ChangeLists /\ m.truth \in Views
  BY <1>2, <1>3, MessageFields
<1>6. DeltaOK(m)
  BY <1>1, <1>2, <1>3 DEF DeltasOK
<1>7. serverMessageSequence \in Nat
      /\ snapshots \in [0 .. PACKET_BACKUP - 1 -> SnapshotRecords] /\ ParseTypes
  BY <1>1, TypesAre
<1>8. ASSUME m.lastframe > 0
      PROVE  /\ BaseOf(m) \in Nat
             /\ FrameSlot(BaseOf(m)) \in DOMAIN snapshots
             /\ Base(m) = snapshots[FrameSlot(BaseOf(m))]
             /\ Base(m) \in SnapshotRecords
  <2>1. BaseOf(m) \in 0 .. serverMessageSequence
    BY <1>5, <1>6, <1>8 DEF DeltaOK
  <2>2. BaseOf(m) \in Nat
    BY <1>7, <2>1
  <2>3. FrameSlot(BaseOf(m)) \in 0 .. PACKET_BACKUP - 1
    BY <2>2, BackupSlot
  <2>4. Base(m) = snapshots[FrameSlot(BaseOf(m))]
    BY DEF Base, BaseOf
  <2> QED BY <1>7, <2>2, <2>3, <2>4
<1>9. old \in SnapshotRecords
  <2>1. NoSnapshot \in SnapshotRecords
    BY DEF NoSnapshot, SnapshotRecords, Views
  <2> QED BY <1>8, <2>1
<1> HIDE DEF old
<1>10. old.first \in Nat /\ old.num \in Nat
  BY <1>9 DEF SnapshotRecords
<1>11. Moved(parsed, m.changes)
  BY <1>5, <1>7, <1>10, ParseMoves DEF parsed
<1>12. /\ parsed.ring \in ParseRings /\ parsed.next \in Nat
       /\ parseEntitiesNum <= parsed.next
       /\ \A p \in Nat :
            p < parseEntitiesNum /\ p + MAX_PARSE_ENTITIES > parsed.next =>
            parsed.ring[p % MAX_PARSE_ENTITIES]
              = parseEntities[p % MAX_PARSE_ENTITIES]
  BY <1>11 DEF Moved, ParseStates
<1>13. ParseTypes'
  BY <1>4, <1>12 DEF ParseTypes, ParseRings
<1> QED BY <1>4, <1>5, <1>6, <1>8, <1>9, <1>12, <1>13 DEF m, old, parsed

(* The client's snapshots when message m has been put among them.          *)
PutSnapshot(m) ==
    snapshots' = [i \in DOMAIN snapshots |->
                    IF i = FrameSlot(m.sequence) THEN snap'
                    ELSE IF i \in Between(m.sequence)
                      THEN [snapshots[i] EXCEPT !.valid = FALSE]
                      ELSE snapshots[i]]

(* One that is not too old stays.                                          *)
LEMMA KeptStays ==
  ASSUME TypeOK, RingOK, NEW m, m.sequence \in Nat, PutSnapshot(m),
         NEW b \in Nat, b < m.sequence, m.sequence - b < PACKET_BACKUP, Kept(b)
  PROVE  /\ snapshots'[FrameSlot(b)] = snapshots[FrameSlot(b)]
         /\ Kept(b)'
<1>1. /\ PACKET_BACKUP \in Nat \ {0} /\ snap.messageNum \in Nat
      /\ DOMAIN snapshots = 0 .. PACKET_BACKUP - 1
  BY TypesAre DEF SnapshotRecords
<1>2. FrameSlot(b) \in DOMAIN snapshots
  BY <1>1, BackupSlot
<1>3. FrameSlot(b) # FrameSlot(m.sequence)
  BY BackupSlotsDiffer
<1>4. b <= snap.messageNum
  BY <1>2 DEF RingOK, Kept
<1>5. FrameSlot(b) \notin Between(m.sequence)
  <2>1. Between(m.sequence)
          = {FrameSlot(i) : i \in snap.messageNum + 1 .. m.sequence - 1}
    <3>1. ~(m.sequence - (snap.messageNum + 1) >= PACKET_BACKUP)
      BY <1>1, <1>4
    <3> QED BY <3>1 DEF Between
  <2>2. ASSUME NEW i \in snap.messageNum + 1 .. m.sequence - 1
        PROVE  FrameSlot(i) # FrameSlot(b)
    <3>1. i \in Nat /\ b < i /\ i - b < PACKET_BACKUP
      BY <1>1, <1>4
    <3> QED BY <3>1, BackupSlotsDiffer
  <2> QED BY <2>1, <2>2
<1>6. snapshots'[FrameSlot(b)] = snapshots[FrameSlot(b)]
  BY <1>2, <1>3, <1>5 DEF PutSnapshot
<1> QED BY <1>6 DEF Kept

(* A snapshot that is good is the new one, or was there.                   *)
LEMMA GoodSnapshots ==
  ASSUME TypeOK, NEW m, PutSnapshot(m), NEW i \in DOMAIN snapshots',
         snapshots'[i].valid
  PROVE  /\ i \in DOMAIN snapshots
         /\ \/ i = FrameSlot(m.sequence) /\ snapshots'[i] = snap'
            \/ snapshots'[i] = snapshots[i] /\ snapshots[i].valid
<1>1. i \in DOMAIN snapshots
  BY DEF PutSnapshot
<1>2. snapshots[i] \in SnapshotRecords
  BY <1>1, SnapshotFields
<1>3. CASE i = FrameSlot(m.sequence)
  BY <1>1, <1>3 DEF PutSnapshot
<1>4. CASE i # FrameSlot(m.sequence) /\ i \in Between(m.sequence)
  <2>1. snapshots'[i] = [snapshots[i] EXCEPT !.valid = FALSE]
    BY <1>1, <1>4 DEF PutSnapshot
  <2> QED BY <1>2, <2>1 DEF SnapshotRecords
<1>5. CASE i # FrameSlot(m.sequence) /\ i \notin Between(m.sequence)
  BY <1>1, <1>5 DEF PutSnapshot
<1> QED BY <1>1, <1>3, <1>4, <1>5

(* The client takes a snapshot it can use, which pushes none out that is a *)
(* base of one in flight.                                                  *)
LEMMA SnapshotPut ==
  ASSUME DeltaInv, toClient # <<>>, toClient' = Tail(toClient),
         serverMessageSequence' = Head(toClient).sequence,
         Head(toClient).kind = "snapshot", CL_ParseSnapshot(Head(toClient)),
         Usable(Head(toClient)), UNCHANGED <<serverVars, toServer>>
  PROVE  DeltaInv'
<1> DEFINE m == Head(toClient)
           old == IF m.lastframe > 0 THEN Base(m) ELSE NoSnapshot
           over == old.overtaken \/ Overtakes(old, m.truth)
<1>1. /\ Types /\ OrderOK /\ GamestatesOK /\ RingOK /\ AskedKept
      /\ DeltasOK /\ FramesOK /\ TypeOK
  BY DEF DeltaInv, Types
<1>2. /\ m = toClient[1] /\ 1 \in DOMAIN toClient /\ m \in Messages
      /\ m.sequence \in Nat /\ serverMessageSequence < m.sequence
      /\ m.sequence < outgoingSequence
      /\ toClient' \in Seq(Messages)
      /\ \A i \in DOMAIN toClient' :
           /\ toClient'[i].sequence \in Nat /\ m.sequence < toClient'[i].sequence
           /\ \E j \in DOMAIN toClient : toClient'[i] = toClient[j]
      /\ InOrderFrom(toClient', toClient)
  BY <1>1, MessageTaken
<1>3. /\ serverId' = serverId /\ clServerId' = clServerId /\ state' = state
      /\ outgoingSequence' = outgoingSequence
      /\ gamestateMessageNum' = gamestateMessageNum
      /\ deltaMessage' = deltaMessage
      /\ frames' = frames /\ nextSnapshotEntities' = nextSnapshotEntities
      /\ snapshotEntities' = snapshotEntities /\ toServer' = toServer
      /\ serverMessageSequence' = m.sequence
  BY DEF serverVars, CL_ParseSnapshot
<1>4. /\ m.truth \in Views /\ ParseTypes' /\ parseEntitiesNum <= parseEntitiesNum'
      /\ over \in BOOLEAN
  <2>1. /\ m.truth \in Views /\ old \in SnapshotRecords
        /\ ParseTypes' /\ parseEntitiesNum <= parseEntitiesNum'
    BY SnapshotRead
  <2>2. old.overtaken \in BOOLEAN
    BY <2>1 DEF SnapshotRecords
  <2>3. Overtakes(old, m.truth) \in BOOLEAN
    BY DEF Overtakes
  <2> QED BY <2>1, <2>2, <2>3
<1>5. /\ snap' = [valid |-> TRUE, messageNum |-> m.sequence,
                  first |-> parseEntitiesNum,
                  num |-> parseEntitiesNum' - parseEntitiesNum,
                  truth |-> m.truth, overtaken |-> over]
      /\ PutSnapshot(m)
  BY DEF CL_ParseSnapshot, PutSnapshot
<1>6. m.kind = "snapshot"
  OBVIOUS
<1> HIDE DEF over, old, m
<1>7. /\ serverMessageSequence \in Nat /\ deltaMessage \in Int
      /\ outgoingSequence \in Nat /\ PACKET_BACKUP \in Nat \ {0}
      /\ snapshots \in [0 .. PACKET_BACKUP - 1 -> SnapshotRecords]
      /\ snap.messageNum \in Nat /\ ParseTypes
  BY <1>1, TypesAre DEF SnapshotRecords
<1>8. /\ snap' \in SnapshotRecords /\ snap'.valid = TRUE
      /\ snap'.messageNum = m.sequence /\ snap'.truth = m.truth
  <2>1. parseEntitiesNum \in Nat /\ parseEntitiesNum' - parseEntitiesNum \in Nat
    <3>1. parseEntitiesNum \in Nat /\ parseEntitiesNum' \in Nat
          /\ parseEntitiesNum <= parseEntitiesNum'
      BY <1>4, <1>7 DEF ParseTypes
    <3>2. \A p, q \in Nat : p <= q => q - p \in Nat
      OBVIOUS
    <3> QED BY <3>1, <3>2, Zenon
  <2> QED BY <1>2, <1>4, <1>5, <2>1 DEF SnapshotRecords
<1>9. ASSUME NEW b \in Nat, b <= serverMessageSequence,
             m.sequence - b < PACKET_BACKUP, Kept(b)
      PROVE  snapshots'[FrameSlot(b)] = snapshots[FrameSlot(b)]
  <2>1. b < m.sequence
    BY <1>2, <1>7, <1>9
  <2> QED BY <1>1, <1>2, <1>5, <1>9, <2>1, KeptStays
<1>10. /\ FrameSlot(m.sequence) \in 0 .. PACKET_BACKUP - 1
       /\ snapshots' \in [0 .. PACKET_BACKUP - 1 -> SnapshotRecords]
       /\ snapshots'[FrameSlot(m.sequence)] = snap'
  <2>1. FrameSlot(m.sequence) \in 0 .. PACKET_BACKUP - 1
    BY <1>2, BackupSlot
  <2>2. ASSUME NEW i \in 0 .. PACKET_BACKUP - 1
        PROVE  [snapshots[i] EXCEPT !.valid = FALSE] \in SnapshotRecords
    <3>1. snapshots[i] \in SnapshotRecords
      BY <1>7
    <3> QED BY <3>1 DEF SnapshotRecords
  <2>3. snapshots' \in [0 .. PACKET_BACKUP - 1 -> SnapshotRecords]
    BY <1>5, <1>7, <1>8, <2>2 DEF PutSnapshot
  <2> QED BY <1>5, <1>7, <2>1, <2>3 DEF PutSnapshot
<1>11. Types'
  <2>1. TypeOK'
    BY <1>1, <1>2, <1>3, <1>4, <1>8, <1>10
       DEF TypeOK, serverVars, ParseTypes, ParseRings, Entities,
           SnapshotRecords, Views
  <2> QED BY <1>1, <1>2, <1>3, <2>1 DEF Types
<1>12. OrderOK'
  BY <1>1, <1>3, OrderReceived DEF m
<1>13. GamestatesOK'
  BY <1>1, <1>2, <1>3 DEF GamestatesOK, HasGamestate
<1>14. RingOK'
  <2>1. ASSUME NEW i \in DOMAIN snapshots', snapshots'[i].valid
        PROVE  snapshots'[i].messageNum <= m.sequence
    <3>1. /\ i \in DOMAIN snapshots
          /\ \/ snapshots'[i] = snap'
             \/ snapshots'[i] = snapshots[i] /\ snapshots[i].valid
      BY <1>1, <1>5, <2>1, GoodSnapshots
    <3>2. CASE snapshots'[i] = snap'
      BY <1>2, <1>8, <3>2
    <3>3. CASE snapshots'[i] = snapshots[i] /\ snapshots[i].valid
      <4>1. snapshots[i].messageNum \in Nat
        BY <1>1, <3>1, SnapshotFields
      <4>2. /\ snapshots[i].messageNum <= snap.messageNum
            /\ snap.messageNum <= serverMessageSequence
        BY <1>1, <3>1, <3>3 DEF RingOK
      <4> QED BY <1>2, <1>7, <3>3, <4>1, <4>2
    <3> QED BY <3>1, <3>2, <3>3
  <2>2. m.sequence <= m.sequence
    BY <1>2
  <2> QED BY <1>3, <1>8, <1>10, <2>1, <2>2 DEF RingOK
<1>15. AskedKept'
  <2>1. ASSUME state = "ACTIVE", deltaMessage > 0
        PROVE  /\ deltaMessage <= m.sequence
               /\ outgoingSequence - deltaMessage < PACKET_BACKUP =>
                    /\ snapshots'[FrameSlot(deltaMessage)].valid
                    /\ snapshots'[FrameSlot(deltaMessage)].messageNum
                         = deltaMessage
    <3>1. /\ deltaMessage \in Nat /\ deltaMessage <= serverMessageSequence
          /\ outgoingSequence - deltaMessage < PACKET_BACKUP
               => Kept(deltaMessage)
      BY <1>1, <1>7, <2>1 DEF AskedKept
    <3>2. deltaMessage <= m.sequence
      BY <1>2, <1>7, <3>1
    <3>3. outgoingSequence - deltaMessage < PACKET_BACKUP
            => m.sequence - deltaMessage < PACKET_BACKUP
      BY <1>2, <1>7, <3>1
    <3> QED BY <1>9, <3>1, <3>2, <3>3 DEF Kept
  <2>2. ASSUME NEW i \in DOMAIN toServer,
               toServer[i].delta, toServer[i].serverId = serverId,
               outgoingSequence - toServer[i].messageAcknowledge < PACKET_BACKUP
        PROVE  LET b == toServer[i].messageAcknowledge IN
               /\ snapshots'[FrameSlot(b)].valid
               /\ snapshots'[FrameSlot(b)].messageNum = b
    <3> DEFINE b == toServer[i].messageAcknowledge
    <3>1. b \in Nat /\ b <= serverMessageSequence /\ Kept(b)
      BY <1>1, <2>2, FlightIs DEF OrderOK, AskedKept
    <3>2. outgoingSequence - b < PACKET_BACKUP
      BY <2>2
    <3> HIDE DEF b
    <3>3. m.sequence - b < PACKET_BACKUP
      BY <1>2, <1>7, <3>1, <3>2
    <3>4. snapshots'[FrameSlot(b)] = snapshots[FrameSlot(b)]
      BY <1>9, <3>1, <3>3
    <3> QED BY <3>1, <3>4 DEF b, Kept
  <2> QED BY <1>3, <2>1, <2>2 DEF AskedKept, Kept
<1>16. DeltasOK'
  <2>2. ASSUME NEW i \in DOMAIN toClient', toClient'[i].kind = "snapshot"
        PROVE  DeltaOK(toClient[i])'
    <3>1. PICK j \in DOMAIN toClient : toClient'[i] = toClient[j]
      BY <1>2
    <3> DEFINE q == toClient[j]
               b == BaseOf(q)
    <3>2. DeltaOK(q) /\ q.kind = "snapshot" /\ q \in Messages
      BY <1>1, <2>2, <3>1, FlightIs DEF DeltasOK
    <3>3. m.sequence < q.sequence /\ q.sequence \in Nat /\ toClient'[i] = q
      BY <1>2, <3>1
    <3> HIDE DEF q
    <3>4. q.lastframe \in Nat
      BY <3>2, MessageFields
    <3>5. \A k \in DOMAIN toClient' : toClient'[k].kind = "gamestate" =>
             \E n \in DOMAIN toClient : toClient'[k] = toClient[n]
                                        /\ toClient[n].kind = "gamestate"
      BY <1>2
    <3>6. CASE q.lastframe = 0
      BY <3>2, <3>3, <3>6 DEF DeltaOK
    <3>7. CASE q.lastframe # 0
      <4>1. /\ q.lastframe < PACKET_BACKUP /\ b \in 0 .. serverMessageSequence
            /\ Kept(b)
            /\ q.changes = SV_EmitPacketEntities(Base(q).truth, q.truth)
            /\ \A k \in DOMAIN toClient : toClient[k].kind = "gamestate" =>
                 q.sequence < toClient[k].sequence
        BY <3>2, <3>7 DEF DeltaOK
      <4>2. b = q.sequence - q.lastframe
        BY DEF BaseOf
      <4> HIDE DEF b
      <4>3. /\ b \in Nat /\ b <= serverMessageSequence
            /\ m.sequence - b < PACKET_BACKUP /\ b \in 0 .. m.sequence
        <5>1. /\ b \in 0 .. serverMessageSequence /\ q.lastframe < PACKET_BACKUP
              /\ serverMessageSequence \in Nat /\ PACKET_BACKUP \in Nat
              /\ m.sequence \in Nat /\ serverMessageSequence < m.sequence
          BY <1>2, <1>7, <4>1
        <5> QED BY <3>3, <3>4, <4>2, <5>1
      <4>4. snapshots'[FrameSlot(b)] = snapshots[FrameSlot(b)]
        BY <1>9, <4>1, <4>3
      <4>5. snapshots'[FrameSlot(q.sequence - q.lastframe)] = Base(q)
        BY <4>2, <4>4 DEF Base
      <4>6. /\ snapshots'[FrameSlot(b)].valid
            /\ snapshots'[FrameSlot(b)].messageNum = b
        BY <4>1, <4>4 DEF Kept
      <4>7. \A k \in DOMAIN toClient' : toClient'[k].kind = "gamestate" =>
               q.sequence < toClient'[k].sequence
        BY <3>5, <4>1
      <4> QED BY <1>3, <3>3, <3>7, <4>1, <4>2, <4>3, <4>5, <4>6, <4>7
              DEF DeltaOK, BaseOf, Base, Kept
    <3> QED BY <3>6, <3>7
  <2> QED BY <2>2 DEF DeltasOK
<1>17. FramesOK'
  <2>1. ASSUME NEW i \in DOMAIN toClient', toClient'[i].kind = "snapshot",
               OfThisMap(toClient[i])'
        PROVE  FrameIs(toClient[i].sequence, toClient[i].truth)'
    <3>1. PICK j \in DOMAIN toClient : toClient'[i] = toClient[j]
      BY <1>2
    <3>2. OfThisMap(toClient'[i])
      BY <1>2, <1>3, <2>1, OfThisMapStill
    <3>3. FrameIs(toClient[j].sequence, toClient[j].truth)
      BY <1>1, <2>1, <3>1, <3>2 DEF FramesOK
    <3> QED BY <1>3, <3>1, <3>3 DEF FrameIs, FrameHeld
  <2>2. ASSUME HasGamestate', NEW i \in DOMAIN snapshots', snapshots'[i].valid
        PROVE  FrameIs(snapshots[i].messageNum, snapshots[i].truth)'
    <3>1. HasGamestate
      BY <1>3, <2>2 DEF HasGamestate
    <3>2. /\ i \in DOMAIN snapshots
          /\ \/ snapshots'[i] = snap'
             \/ snapshots'[i] = snapshots[i] /\ snapshots[i].valid
      BY <1>1, <1>5, <2>2, GoodSnapshots
    <3>3. CASE snapshots'[i] = snap'
      <4>1. FrameIs(m.sequence, m.truth)
        BY <1>1, <1>2, <1>6, <3>1 DEF FramesOK, OfThisMap
      <4> QED BY <1>3, <1>8, <3>3, <4>1 DEF FrameIs, FrameHeld
    <3>4. CASE snapshots'[i] = snapshots[i] /\ snapshots[i].valid
      <4>1. FrameIs(snapshots[i].messageNum, snapshots[i].truth)
        BY <1>1, <3>1, <3>2, <3>4 DEF FramesOK
      <4> QED BY <1>3, <3>4, <4>1 DEF FrameIs, FrameHeld
    <3> QED BY <3>2, <3>3, <3>4
  <2> QED BY <2>1, <2>2 DEF FramesOK
<1> QED BY <1>11, <1>12, <1>13, <1>14, <1>15, <1>16, <1>17 DEF DeltaInv

(* The client takes a message.                                             *)
LEMMA ParseStep ==
  ASSUME DeltaInv, CL_ParseServerMessage
  PROVE  DeltaInv'
<1> DEFINE m == Head(toClient)
<1>1. /\ toClient # <<>> /\ serverMessageSequence' = m.sequence
      /\ toClient' = Tail(toClient) /\ UNCHANGED <<serverVars, toServer>>
      /\ \/ m.kind = "snapshot" /\ CL_ParseSnapshot(m)
         \/ m.kind = "gamestate" /\ CL_ParseGamestate(m)
         \/ /\ m.kind = "empty"
            /\ UNCHANGED <<clServerId, snap, snapshots, parseEntitiesNum,
                           parseEntities>>
  BY DEF CL_ParseServerMessage
<1>2. CASE m.kind = "snapshot" /\ CL_ParseSnapshot(m) /\ Usable(m)
  BY <1>1, <1>2, SnapshotPut
<1>3. CASE m.kind = "snapshot" /\ CL_ParseSnapshot(m) /\ ~Usable(m)
  <2>1. UNCHANGED <<clServerId, snap, snapshots>>
    BY <1>3 DEF CL_ParseSnapshot
  <2>2. ParseTypes'
    BY <1>1, <1>3, SnapshotRead
  <2> QED BY <1>1, <2>1, <2>2, SkipStep
<1>4. CASE m.kind = "gamestate" /\ CL_ParseGamestate(m)
  BY <1>1, <1>4, GamestateParsed
<1>5. CASE /\ m.kind = "empty"
           /\ UNCHANGED <<clServerId, snap, snapshots, parseEntitiesNum,
                          parseEntities>>
  <2>1. ParseTypes
    BY TypesAre DEF DeltaInv, Types
  <2>2. ParseTypes'
    BY <1>5, <2>1 DEF ParseTypes, ParseRings
  <2> QED BY <1>1, <1>5, <2>2, SkipStep
<1> QED BY <1>1, <1>2, <1>3, <1>4, <1>5

(* The entities of a frame that is still in the ring are those it had.     *)
LEMMA FrameRead ==
  ASSUME TypeOK, NEW f \in FrameRecords, f.truth \in Views,
         f.num = Len(f.truth),
         \A j \in 1 .. f.num :
            snapshotEntities'[(f.first + j - 1) % numSnapshotEntities] = f.truth[j]
  PROVE  FrameEntities(f) = f.truth
<1>1. DOMAIN f.truth = 1 .. f.num /\ f.truth \in Seq(ViewEntities)
  BY ViewIs
<1>2. f.truth = [j \in 1 .. f.num |-> f.truth[j]]
  BY <1>1
<1> QED BY <1>2 DEF FrameEntities

(* A frame that was sent, when a snapshot has been built.                  *)
LEMMA FrameStays ==
  ASSUME TypeOK, NEW list \in Seq(ViewEntities), Len(list) <= numSnapshotEntities,
         CopyOut(list), NEW f \in FrameRecords,
         frames' = [frames EXCEPT ![FrameSlot(outgoingSequence)] = f],
         NEW n \in Nat, NEW t, n < outgoingSequence,
         outgoingSequence - n < PACKET_BACKUP, FrameIs(n, t)
  PROVE  /\ frames'[FrameSlot(n)] = frames[FrameSlot(n)]
         /\ frames[FrameSlot(n)] \in FrameRecords
         /\ frames'[FrameSlot(n)].truth = t
         /\ FrameHeld(frames[FrameSlot(n)], nextSnapshotEntities',
                      snapshotEntities')
         /\ FrameHeld(frames'[FrameSlot(n)], nextSnapshotEntities',
                      snapshotEntities')
<1>1. /\ frames \in [0 .. PACKET_BACKUP - 1 -> FrameRecords]
      /\ outgoingSequence \in Nat
  BY TypesAre
<1>2. FrameSlot(n) \in 0 .. PACKET_BACKUP - 1
  BY BackupSlot
<1>3. FrameSlot(n) # FrameSlot(outgoingSequence)
  BY <1>1, BackupSlotsDiffer
<1>4. /\ frames'[FrameSlot(n)] = frames[FrameSlot(n)]
      /\ frames[FrameSlot(n)] \in FrameRecords
  BY <1>1, <1>2, <1>3
<1>5. /\ frames[FrameSlot(n)].truth = t
      /\ FrameHeld(frames[FrameSlot(n)], nextSnapshotEntities, snapshotEntities)
  BY DEF FrameIs
<1>6. FrameHeld(frames[FrameSlot(n)], nextSnapshotEntities', snapshotEntities')
  BY <1>4, <1>5, StillHeld
<1> QED BY <1>4, <1>5, <1>6

(* A snapshot, or an empty message, is sent.                               *)
LEMMA MessageSent ==
  ASSUME DeltaInv, NEW list \in Seq(ViewEntities),
         Len(list) <= numSnapshotEntities, CopyOut(list),
         NEW f \in FrameRecords,
         frames' = [frames EXCEPT ![FrameSlot(outgoingSequence)] = f],
         FrameHeld(f, nextSnapshotEntities', snapshotEntities'),
         NEW m \in Messages, m.sequence = outgoingSequence,
         m.kind # "gamestate",
         m.kind = "snapshot" => DeltaOK(m) /\ m.truth = f.truth,
         toClient' = Append(toClient, m),
         outgoingSequence' = outgoingSequence + 1,
         UNCHANGED <<state, serverId, gentity, gamestateMessageNum,
                     deltaMessage, toServer, clientVars>>
  PROVE  DeltaInv'
<1>1. /\ Types /\ OrderOK /\ GamestatesOK /\ RingOK /\ AskedKept
      /\ DeltasOK /\ FramesOK /\ TypeOK
  BY DEF DeltaInv, Types
<1>2. /\ serverId' = serverId /\ clServerId' = clServerId /\ state' = state
      /\ gamestateMessageNum' = gamestateMessageNum
      /\ deltaMessage' = deltaMessage
      /\ toServer' = toServer /\ snap' = snap /\ snapshots' = snapshots
      /\ serverMessageSequence' = serverMessageSequence
  BY DEF clientVars
<1>3. /\ outgoingSequence \in Nat /\ serverMessageSequence \in Nat
      /\ deltaMessage \in Int /\ PACKET_BACKUP \in Nat \ {0}
      /\ frames \in [0 .. PACKET_BACKUP - 1 -> FrameRecords]
      /\ snap.messageNum \in Nat
  BY <1>1, TypesAre DEF SnapshotRecords
<1>4. /\ toClient' \in Seq(Messages) /\ DOMAIN toClient' = 1 .. Len(toClient) + 1
      /\ toClient'[Len(toClient) + 1] = m
      /\ \A i \in DOMAIN toClient' :
           \/ i = Len(toClient) + 1
           \/ i \in DOMAIN toClient /\ toClient'[i] = toClient[i]
  BY <1>1, FlightGrows
<1>5. /\ nextSnapshotEntities' \in Nat
      /\ snapshotEntities' \in [0 .. numSnapshotEntities - 1 -> Entities]
  BY <1>1, CopiedOut
<1>6. Types'
  <2>1. FrameSlot(outgoingSequence) \in 0 .. PACKET_BACKUP - 1
    BY <1>3, BackupSlot
  <2>2. frames' \in [0 .. PACKET_BACKUP - 1 -> FrameRecords]
    BY <1>3, <2>1
  <2>3. outgoingSequence' \in Nat
    BY <1>3
  <2>4. TypeOK'
    BY <1>1, <1>2, <1>5, <2>2, <2>3
       DEF TypeOK, clientVars, FrameRecords, Views, Entities
  <2> QED BY <1>1, <1>2, <1>4, <2>4 DEF Types
<1>7. OrderOK'
  BY <1>1, <1>2, OrderSent
<1>8. GamestatesOK'
  <2>1. \A i \in DOMAIN toClient' : toClient'[i].kind = "gamestate" =>
           i \in DOMAIN toClient /\ toClient'[i] = toClient[i]
    BY <1>4
  <2> QED BY <1>1, <1>2, <2>1 DEF GamestatesOK, HasGamestate
<1>9. RingOK' /\ DeltasOK'
  BY <1>1, <1>2, RingStays, DeltasSent
<1>10. AskedKept'
  <2>1. \A n \in Int : outgoingSequence' - n < PACKET_BACKUP =>
                       outgoingSequence - n < PACKET_BACKUP
    BY <1>3
  <2>2. \A i \in DOMAIN toServer : toServer[i].messageAcknowledge \in Int
    BY <1>1, FlightIs
  <2> QED BY <1>1, <1>2, <1>3, <2>1, <2>2 DEF AskedKept, Kept
<1>11. ASSUME NEW n \in Nat, NEW t, n < outgoingSequence, FrameIs(n, t),
              outgoingSequence' - n < PACKET_BACKUP
       PROVE  /\ frames'[FrameSlot(n)].truth = t
              /\ FrameHeld(frames'[FrameSlot(n)], nextSnapshotEntities',
                           snapshotEntities')
  <2>1. outgoingSequence - n < PACKET_BACKUP
    BY <1>3, <1>11
  <2> QED BY <1>1, <1>11, <2>1, FrameStays
<1>12. FramesOK'
  <2>1. ASSUME NEW i \in DOMAIN toClient', toClient'[i].kind = "snapshot",
               OfThisMap(toClient[i])'
        PROVE  FrameIs(toClient[i].sequence, toClient[i].truth)'
    <3>1. CASE i = Len(toClient) + 1
      <4>1. toClient'[i] = m /\ m.truth = f.truth
        BY <1>4, <2>1, <3>1
      <4>2. frames'[FrameSlot(outgoingSequence)] = f
        BY <1>3, BackupSlot
      <4>3. FrameHeld(frames'[FrameSlot(outgoingSequence)],
                      nextSnapshotEntities', snapshotEntities')
        BY <4>2
      <4> QED BY <4>1, <4>2, <4>3 DEF FrameIs, FrameHeld
    <3>2. CASE i \in DOMAIN toClient /\ toClient'[i] = toClient[i]
      <4>1. OfThisMap(toClient[i])
        <5>1. \A k \in DOMAIN toClient' : toClient'[k].kind = "gamestate" =>
                 k \in DOMAIN toClient /\ toClient'[k] = toClient[k]
          BY <1>4
        <5> QED BY <1>2, <2>1, <3>2, <5>1 DEF OfThisMap, HasGamestate
      <4>2. /\ FrameIs(toClient[i].sequence, toClient[i].truth)
            /\ toClient[i].sequence \in Nat
            /\ toClient[i].sequence < outgoingSequence
        BY <1>1, <2>1, <3>2, <4>1, FlightIs DEF FramesOK, OrderOK
      <4>3. outgoingSequence' - toClient[i].sequence < PACKET_BACKUP =>
              /\ frames'[FrameSlot(toClient[i].sequence)].truth
                   = toClient[i].truth
              /\ FrameHeld(frames'[FrameSlot(toClient[i].sequence)],
                           nextSnapshotEntities', snapshotEntities')
        BY <1>11, <4>2
      <4> QED BY <3>2, <4>3 DEF FrameIs, FrameHeld
    <3> QED BY <1>4, <3>1, <3>2
  <2>2. ASSUME HasGamestate', NEW i \in DOMAIN snapshots', snapshots'[i].valid
        PROVE  FrameIs(snapshots[i].messageNum, snapshots[i].truth)'
    <3>1. i \in DOMAIN snapshots /\ snapshots[i].valid /\ HasGamestate
      BY <1>2, <2>2 DEF HasGamestate
    <3>2. /\ FrameIs(snapshots[i].messageNum, snapshots[i].truth)
          /\ snapshots[i].messageNum \in Nat
          /\ snapshots[i].messageNum <= snap.messageNum
          /\ snap.messageNum <= serverMessageSequence
          /\ serverMessageSequence < outgoingSequence
      BY <1>1, <3>1, SnapshotFields DEF FramesOK, RingOK, OrderOK
    <3>3. snapshots[i].messageNum < outgoingSequence
      BY <1>3, <3>2
    <3>4. outgoingSequence' - snapshots[i].messageNum < PACKET_BACKUP =>
            /\ frames'[FrameSlot(snapshots[i].messageNum)].truth
                 = snapshots[i].truth
            /\ FrameHeld(frames'[FrameSlot(snapshots[i].messageNum)],
                         nextSnapshotEntities', snapshotEntities')
      BY <1>11, <3>2, <3>3
    <3> QED BY <1>2, <3>4 DEF FrameIs, FrameHeld
  <2> QED BY <2>1, <2>2 DEF FramesOK
<1> QED BY <1>6, <1>7, <1>8, <1>9, <1>10, <1>12 DEF DeltaInv

(* The snapshot the server writes is a difference from what it meant the   *)
(* base to be, which the client has.                                       *)
LEMMA SnapshotIs ==
  ASSUME DeltaInv, NEW list \in Seq(ViewEntities),
         Len(list) <= numSnapshotEntities, CopyOut(list),
         NEW f \in FrameRecords, f.truth \in Views,
         frames' = [frames EXCEPT ![FrameSlot(outgoingSequence)] = f],
         FrameHeld(f, nextSnapshotEntities', snapshotEntities'),
         \A j \in 1 .. f.num :
            snapshotEntities'[(f.first + j - 1) % numSnapshotEntities] = f.truth[j]
  PROVE  /\ SnapshotMessage \in Messages
         /\ SnapshotMessage.sequence = outgoingSequence
         /\ SnapshotMessage.kind = "snapshot"
         /\ SnapshotMessage.truth = f.truth
         /\ DeltaOK(SnapshotMessage)
<1> DEFINE d == deltaMessage
           g == frames[FrameSlot(d)]
           base == IF HasBase THEN FrameEntities(frames'[FrameSlot(d)]) ELSE <<>>
           last == IF HasBase THEN outgoingSequence - d ELSE 0
           m == SnapshotMessage
<1>1. /\ Types /\ OrderOK /\ GamestatesOK /\ AskedKept /\ FramesOK /\ TypeOK
  BY DEF DeltaInv, Types
<1>2. /\ outgoingSequence \in Nat /\ serverMessageSequence \in Nat
      /\ d \in Int /\ PACKET_BACKUP \in Nat \ {0}
      /\ frames \in [0 .. PACKET_BACKUP - 1 -> FrameRecords]
      /\ snapshots \in [0 .. PACKET_BACKUP - 1 -> SnapshotRecords]
      /\ numSnapshotEntities \in Nat
  BY <1>1, TypesAre
<1>3. frames'[FrameSlot(outgoingSequence)] = f
  BY <1>2, BackupSlot
<1>4. FrameEntities(f) = f.truth
  BY <1>1, FrameRead DEF FrameHeld
<1>5. m = [sequence |-> outgoingSequence, kind |-> "snapshot", lastframe |-> last,
           changes |-> SV_EmitPacketEntities(base, f.truth), truth |-> f.truth]
  BY <1>3, <1>4 DEF SnapshotMessage
<1> HIDE DEF m
<1>6. CASE ~HasBase
  <2>1. last = 0 /\ base = <<>> /\ <<>> \in Views
    BY <1>6 DEF Views
  <2>2. m \in Messages
    BY <1>2, <1>5, <2>1 DEF Messages, ChangeLists
  <2> QED BY <1>5, <2>1, <2>2 DEF DeltaOK, m
<1>7. CASE HasBase
  <2>1. /\ d > 0 /\ state = "ACTIVE" /\ d \in Nat
        /\ outgoingSequence - d < PACKET_BACKUP - BACKUP_MARGIN
        /\ frames'[FrameSlot(d)].first
             > nextSnapshotEntities' - numSnapshotEntities
    BY <1>2, <1>7 DEF HasBase
  <2>2. outgoingSequence - d < PACKET_BACKUP
    <3>1. BACKUP_MARGIN \in Nat
      BY <1>2, BackupAssumption
    <3> QED BY <1>2, <2>1, <3>1
  <2>3. d <= serverMessageSequence /\ Kept(d) /\ d < outgoingSequence
    <3>1. /\ d <= serverMessageSequence /\ Kept(d)
          /\ serverMessageSequence < outgoingSequence
      BY <1>1, <2>1, <2>2 DEF AskedKept, OrderOK
    <3> QED BY <1>2, <3>1
  <2>4. HasGamestate
    BY <1>1, <2>1 DEF GamestatesOK
  <2>5. FrameSlot(d) \in 0 .. PACKET_BACKUP - 1 /\ FrameSlot(d) \in DOMAIN snapshots
    BY <1>2, <2>1, BackupSlot
  <2> DEFINE t == snapshots[FrameSlot(d)].truth
  <2>6. FrameIs(d, t) /\ t \in Views
    <3>1. /\ snapshots[FrameSlot(d)].valid
          /\ snapshots[FrameSlot(d)].messageNum = d
      BY <2>3 DEF Kept
    <3> QED BY <1>1, <2>4, <2>5, <3>1, SnapshotFields DEF FramesOK
  <2> HIDE DEF t
  <2>7. /\ frames'[FrameSlot(d)] = g /\ g \in FrameRecords
        /\ g.truth = t
        /\ FrameHeld(g, nextSnapshotEntities', snapshotEntities')
    BY <1>1, <2>1, <2>2, <2>3, <2>6, FrameStays
  <2>8. FrameEntities(g) = t
    <3> HIDE DEF g
    <3>1. nextSnapshotEntities' \in Nat /\ g.first \in Nat /\ g.num \in Nat
      BY <1>1, <2>7, CopiedOut DEF FrameRecords
    <3>2. g.first > nextSnapshotEntities' - numSnapshotEntities
      BY <2>1, <2>7
    <3>3. \A j \in 1 .. g.num :
            g.first + j - 1 + numSnapshotEntities >= nextSnapshotEntities'
      BY <1>2, <3>1, <3>2
    <3>4. /\ g.num = Len(g.truth)
          /\ \A j \in 1 .. g.num :
               snapshotEntities'[(g.first + j - 1) % numSnapshotEntities]
                 = g.truth[j]
      BY <2>7, <3>3 DEF FrameHeld
    <3> QED BY <1>1, <2>6, <2>7, <3>4, FrameRead
  <2>9. base = t /\ last = outgoingSequence - d
    BY <1>7, <2>7, <2>8
  <2>10. last \in Nat /\ last # 0 /\ last < PACKET_BACKUP
         /\ outgoingSequence - last = d /\ d \in 0 .. serverMessageSequence
    BY <1>2, <2>1, <2>2, <2>3, <2>9
  <2> HIDE DEF base, last, d, g
  <2>11. m \in Messages
    BY <1>2, <1>5, <2>6, <2>9, <2>10 DEF Messages, ChangeLists
  <2>12. \A i \in DOMAIN toClient : toClient[i].kind # "gamestate"
    BY <1>1, <2>4 DEF GamestatesOK
  <2>13. BaseOf(m) = d /\ Base(m).truth = t
    BY <1>5, <2>10 DEF BaseOf, Base, t
  <2>14. DeltaOK(m)
    BY <1>5, <2>3, <2>9, <2>10, <2>12, <2>13 DEF DeltaOK
  <2> QED BY <1>5, <2>11, <2>14 DEF m
<1> QED BY <1>6, <1>7

(* The server sends a snapshot, or an empty message in its place.          *)
LEMMA SendStep ==
  ASSUME DeltaInv, SV_SendClientMessages
  PROVE  DeltaInv'
<1>1. TypeOK
  BY DEF DeltaInv, Types
<1>2. PICK others \in Others, world \in Worlds : SV_BuildClientSnapshot(others, world)
  BY DEF SV_SendClientMessages
<1>3. PICK list \in Seq(ViewEntities), f \in FrameRecords :
        /\ Len(list) <= numSnapshotEntities /\ CopyOut(list)
        /\ frames' = [frames EXCEPT ![FrameSlot(outgoingSequence)] = f]
        /\ f.truth \in Views
        /\ FrameHeld(f, nextSnapshotEntities', snapshotEntities')
        /\ \A j \in 1 .. f.num :
             snapshotEntities'[(f.first + j - 1) % numSnapshotEntities]
               = f.truth[j]
  BY <1>1, <1>2, Built
<1>4. UNCHANGED <<state, serverId, gentity, gamestateMessageNum,
                  deltaMessage, toServer, clientVars>>
  BY DEF SV_SendClientMessages
<1>5. CASE SendMessage(SnapshotMessage)
  <2>1. toClient' = Append(toClient, SnapshotMessage)
        /\ outgoingSequence' = outgoingSequence + 1
    BY <1>5 DEF SendMessage
  <2>2. /\ SnapshotMessage \in Messages
        /\ SnapshotMessage.sequence = outgoingSequence
        /\ SnapshotMessage.kind = "snapshot"
        /\ SnapshotMessage.truth = f.truth
        /\ DeltaOK(SnapshotMessage)
    BY <1>3, SnapshotIs
  <2> QED BY <1>3, <1>4, <2>1, <2>2, MessageSent
<1>6. CASE SendMessage([sequence |-> outgoingSequence, kind |-> "empty"])
  <2> DEFINE m == [sequence |-> outgoingSequence, kind |-> "empty"]
  <2>1. toClient' = Append(toClient, m)
        /\ outgoingSequence' = outgoingSequence + 1
    BY <1>6 DEF SendMessage
  <2>2. m \in Messages /\ m.sequence = outgoingSequence /\ m.kind = "empty"
    BY <1>1, TypesAre DEF Messages
  <2> HIDE DEF m
  <2> QED BY <1>3, <1>4, <2>1, <2>2, MessageSent
<1> QED BY <1>5, <1>6 DEF SV_SendClientMessages

(* The invariant holds at first, when nothing is in flight.                *)
LEMMA InitInv == Init => DeltaInv
<1> SUFFICES ASSUME Init PROVE DeltaInv
  OBVIOUS
<1>1. /\ state = "CONNECTED" /\ serverId = 1 /\ gentity = TRUE
      /\ outgoingSequence = 1 /\ gamestateMessageNum = -1 /\ deltaMessage = 0
      /\ frames = [i \in 0 .. PACKET_BACKUP - 1 |->
                     [first |-> 0, num |-> 0, truth |-> <<>>]]
      /\ nextSnapshotEntities = 0
      /\ snapshotEntities = [i \in 0 .. numSnapshotEntities - 1 |-> NoEntity]
      /\ toClient = <<>> /\ toServer = <<>>
      /\ clServerId = 0 /\ serverMessageSequence = 0
      /\ snap = NoSnapshot /\ snapshots = ClearedSnapshots
      /\ parseEntitiesNum = 0 /\ parseEntities = ClearedEntities
  BY DEF Init
<1>2. DOMAIN toClient = {} /\ DOMAIN toServer = {}
  BY <1>1
<1>3. /\ DOMAIN ClearedSnapshots = 0 .. PACKET_BACKUP - 1
      /\ \A i \in DOMAIN ClearedSnapshots : ClearedSnapshots[i] = NoSnapshot
      /\ NoSnapshot.valid = FALSE /\ NoSnapshot.messageNum = 0
      /\ NoSnapshot \in SnapshotRecords
      /\ ClearedSnapshots \in [0 .. PACKET_BACKUP - 1 -> SnapshotRecords]
  <2>1. NoSnapshot \in SnapshotRecords
    BY DEF NoSnapshot, SnapshotRecords, Views
  <2> QED BY <2>1 DEF ClearedSnapshots, NoSnapshot
<1>4. TypeOK
  <2>1. NoEntity \in Entities
    BY DEF NoEntity, Entity, Baseline, Entities
  <2>2. /\ ClearedEntities \in [0 .. MAX_PARSE_ENTITIES - 1 -> Entities]
        /\ snapshotEntities \in [0 .. numSnapshotEntities - 1 -> Entities]
    BY <1>1, <2>1 DEF ClearedEntities
  <2>3. frames \in [0 .. PACKET_BACKUP - 1 -> FrameRecords]
    <3>1. [first |-> 0, num |-> 0, truth |-> <<>>] \in FrameRecords
      BY DEF FrameRecords, Views
    <3> QED BY <1>1, <3>1
  <2> QED BY <1>1, <1>3, <2>2, <2>3
          DEF TypeOK, FrameRecords, SnapshotRecords, Views, Entities
<1>5. Types
  BY <1>1, <1>4 DEF Types
<1>6. OrderOK /\ GamestatesOK
  BY <1>1, <1>2 DEF OrderOK, GamestatesOK, HasGamestate
<1>7. RingOK /\ AskedKept
  BY <1>1, <1>2, <1>3 DEF RingOK, AskedKept
<1>8. DeltasOK /\ FramesOK
  BY <1>1, <1>2, <1>3 DEF DeltasOK, FramesOK
<1> QED BY <1>5, <1>6, <1>7, <1>8 DEF DeltaInv

(* Nothing changes.                                                        *)
LEMMA StutterStep ==
  ASSUME DeltaInv, UNCHANGED vars
  PROVE  DeltaInv'
<1>1. toClient \in Seq(Messages) /\ toServer \in Seq(Packets)
  BY FlightIs DEF DeltaInv
<1>2. InOrderFrom(toClient', toClient)
  BY DEF InOrderFrom, vars
<1>3. /\ UNCHANGED <<serverVars, clientVars>>
      /\ toClient' = toClient /\ toServer' = toServer
  BY DEF vars
<1>4. \A i \in DOMAIN toServer' : \E j \in DOMAIN toServer : toServer'[i] = toServer[j]
  BY <1>3
<1> QED BY <1>1, <1>2, <1>3, <1>4, FewerInFlight

(* The inductive invariant holds: messages are in order, the client has    *)
(* what it asks for and what the server uses, and the frames the server    *)
(* compares are those it was sent, for rings of every size, views of every *)
(* length and any losses (sv_snapshot.cpp, cl_parse.cpp).                  *)
THEOREM SnapshotInvariance == Spec => []DeltaInv
<1>1. Init => DeltaInv
  BY InitInv
<1>2. DeltaInv /\ [Next]_vars => DeltaInv'
  <2> SUFFICES ASSUME DeltaInv, [Next]_vars PROVE DeltaInv'
    OBVIOUS
  <2>1. CASE SV_SendClientMessages
    BY <2>1, SendStep
  <2>2. CASE SV_SpawnServer
    BY <2>2, SpawnStep
  <2>3. CASE SV_ExecuteClientMessage
    BY <2>3, UsercmdsStep
  <2>4. CASE CL_ParseServerMessage
    BY <2>4, ParseStep
  <2>5. CASE CL_WritePacket
    BY <2>5, WriteStep
  <2>6. CASE Lose /\ UNCHANGED <<serverVars, clientVars>>
    BY <2>6, LoseStep
  <2>7. CASE UNCHANGED vars
    BY <2>7, StutterStep
  <2> QED BY <2>1, <2>2, <2>3, <2>4, <2>5, <2>6, <2>7 DEF Next
<1> QED BY <1>1, <1>2, PTL DEF Spec

(* The variables of both ends keep their types (sv_snapshot.cpp,           *)
(* cl_parse.cpp).                                                          *)
THEOREM TypeCorrect == Spec => []TypeOK
<1>1. DeltaInv => TypeOK
  BY DEF DeltaInv, Types
<1> QED BY <1>1, SnapshotInvariance, PTL

(* The client has the base of every delta compressed snapshot that reaches *)
(* it: "delta from invalid frame" and "delta frame too old" never happen   *)
(* (cl_parse.cpp:238).                                                     *)
THEOREM BasesAreKept == Spec => []BasesKept
<1>1. DeltaInv => BasesKept
  <2> SUFFICES ASSUME DeltaInv, toClient # <<>>,
                      Head(toClient).kind = "snapshot",
                      Head(toClient).lastframe > 0
               PROVE  BaseKept(Head(toClient))
    BY DEF BasesKept
  <2>1. Types /\ DeltasOK
    BY DEF DeltaInv
  <2>2. toClient \in Seq(Messages) /\ \A i \in DOMAIN toClient : toClient[i] \in Messages
    BY <2>1, FlightIs
  <2>3. Head(toClient) = toClient[1] /\ 1 \in DOMAIN toClient
    BY <2>2, TailOfMessages
  <2>4. DeltaOK(Head(toClient))
    BY <2>1, <2>3 DEF DeltasOK
  <2> QED BY <2>4 DEF DeltaOK, BaseKept, Base, BaseOf, Kept
<1> QED BY <1>1, SnapshotInvariance, PTL

(* What is left of a snapshot is still what it was.                        *)
LEMMA SnapshotHeld ==
  ASSUME NEW s \in SnapshotRecords, ParseTypes, ParseTypes',
         Holds(s, parseEntitiesNum, parseEntities),
         parseEntitiesNum <= parseEntitiesNum',
         \A p \in Nat :
            p < parseEntitiesNum
              /\ p + MAX_PARSE_ENTITIES > parseEntitiesNum' =>
            parseEntities'[p % MAX_PARSE_ENTITIES]
              = parseEntities[p % MAX_PARSE_ENTITIES]
  PROVE  Holds(s, parseEntitiesNum', parseEntities')
<1>1. /\ s.first \in Nat /\ s.num \in Nat /\ MAX_PARSE_ENTITIES \in Nat
      /\ parseEntitiesNum \in Nat /\ parseEntitiesNum' \in Nat
      /\ s.num = Len(s.truth) /\ s.first + s.num <= parseEntitiesNum
  BY RingsAssumption DEF SnapshotRecords, ParseTypes, Holds
<1>2. s.first + s.num <= parseEntitiesNum'
  BY <1>1
<1>3. ASSUME NEW j \in 1 .. s.num,
             s.first + j - 1 + MAX_PARSE_ENTITIES > parseEntitiesNum'
      PROVE  parseEntities'[(s.first + j - 1) % MAX_PARSE_ENTITIES] = s.truth[j]
  <2>1. /\ s.first + j - 1 \in Nat /\ s.first + j - 1 < parseEntitiesNum
        /\ s.first + j - 1 + MAX_PARSE_ENTITIES > parseEntitiesNum
    <3>1. j \in Nat /\ 1 <= j /\ j <= s.num
      BY <1>1
    <3>2. s.first + j - 1 \in Nat /\ s.first + j - 1 < parseEntitiesNum
      BY <1>1, <3>1
    <3> QED BY <1>1, <1>3, <3>1, <3>2
  <2>2. parseEntities[(s.first + j - 1) % MAX_PARSE_ENTITIES] = s.truth[j]
    BY <2>1 DEF Holds
  <2> QED BY <1>3, <2>1, <2>2
<1> QED BY <1>1, <1>2, <1>3 DEF Holds

(* The client has the base it uses, and keeps it while it reads it.        *)
LEMMA BaseHasRoom ==
  ASSUME ParseTypes, NEW old \in SnapshotRecords,
         Holds(old, parseEntitiesNum, parseEntities),
         parseEntitiesNum - old.first <= MAX_PARSE_ENTITIES - PARSE_MARGIN,
         NEW w \in Views, ~Overtakes(old, w)
  PROVE  Room(old, old.truth, w)
<1> DEFINE v == old.truth
<1>1. /\ old.first \in Nat /\ old.num \in Nat /\ v \in Views
      /\ parseEntitiesNum \in Nat /\ MAX_PARSE_ENTITIES \in Nat \ {0}
      /\ PARSE_MARGIN \in Nat \ {0} /\ old.num = Len(v)
      /\ old.first + old.num <= parseEntitiesNum
  BY RingsAssumption DEF SnapshotRecords, ParseTypes, Holds
<1> HIDE DEF v
<1>2. DOMAIN v = 1 .. old.num /\ DOMAIN w = 1 .. Len(w) /\ Len(w) \in Nat
  BY <1>1, ViewIs
<1>3. ASSUME NEW i \in DOMAIN v
      PROVE  /\ old.first + i - 1 < parseEntitiesNum
             /\ parseEntitiesNum < old.first + i - 1 + MAX_PARSE_ENTITIES
             /\ parseEntities[(old.first + i - 1) % MAX_PARSE_ENTITIES] = v[i]
  <2>1. /\ old.first + i - 1 < parseEntitiesNum
        /\ parseEntitiesNum < old.first + i - 1 + MAX_PARSE_ENTITIES
    BY <1>1, <1>2
  <2>2. parseEntities[(old.first + i - 1) % MAX_PARSE_ENTITIES] = v[i]
    BY <1>2, <2>1 DEF Holds, v
  <2> QED BY <2>1, <2>2
<1>4. ASSUME NEW i \in DOMAIN v, NEW j \in DOMAIN w,
             w[j].number < v[i].number
      PROVE  parseEntitiesNum + j <= old.first + i - 1 + MAX_PARSE_ENTITIES
  <2> DEFINE p == old.first + i - 1 + MAX_PARSE_ENTITIES
  <2>1. p \notin parseEntitiesNum .. parseEntitiesNum + j - 1
    BY <1>4 DEF Overtakes, v
  <2>2. p \in Nat /\ parseEntitiesNum < p /\ j \in Nat
    BY <1>1, <1>2, <1>3
  <2> HIDE DEF p
  <2>3. parseEntitiesNum + j <= p
    BY <1>1, <2>1, <2>2
  <2> QED BY <2>3 DEF p
<1> QED BY <1>1, <1>3, <1>4 DEF Room, v

(* The new snapshot has the entities the server meant.                     *)
LEMMA SnapshotHeldNew ==
  ASSUME DeltaInv, EntitiesOK, toClient # <<>>,
         Head(toClient).kind = "snapshot", CL_ParseSnapshot(Head(toClient)),
         Usable(Head(toClient)), ~snap'.overtaken
  PROVE  Holds(snap', parseEntitiesNum', parseEntities')
<1> DEFINE m == Head(toClient)
           old == IF m.lastframe > 0 THEN Base(m) ELSE NoSnapshot
           v == IF m.lastframe > 0 THEN Base(m).truth ELSE <<>>
           w == m.truth
           parsed == CL_ParsePacketEntities(m.changes, old)
<1>1. /\ m.lastframe \in Nat /\ w \in Views /\ DeltaOK(m)
      /\ m.lastframe > 0 =>
           /\ FrameSlot(BaseOf(m)) \in DOMAIN snapshots
           /\ Base(m) = snapshots[FrameSlot(BaseOf(m))]
      /\ old \in SnapshotRecords
      /\ parseEntities' = parsed.ring /\ parseEntitiesNum' = parsed.next
      /\ ParseTypes'
  BY SnapshotRead
<1>2. snap' = [valid |-> TRUE, messageNum |-> m.sequence,
               first |-> parseEntitiesNum,
               num |-> parsed.next - parseEntitiesNum, truth |-> m.truth,
               overtaken |-> old.overtaken \/ Overtakes(old, m.truth)]
  BY DEF CL_ParseSnapshot
<1>3. ParseTypes /\ Usable(m)
  BY TypesAre DEF DeltaInv, Types
<1> HIDE DEF m, parsed
<1>4. Room(old, v, w) /\ m.changes = SV_EmitPacketEntities(v, w)
  <2>1. CASE m.lastframe > 0
    <3>1. /\ Base(m).valid
          /\ parseEntitiesNum - Base(m).first
               <= MAX_PARSE_ENTITIES - PARSE_MARGIN
      BY <1>3, <2>1 DEF Usable, BaseKept
    <3>2. ~Base(m).overtaken /\ ~Overtakes(Base(m), w)
      BY <1>2, <2>1
    <3>3. Holds(Base(m), parseEntitiesNum, parseEntities)
      BY <1>1, <2>1, <3>1, <3>2 DEF EntitiesOK
    <3>6. Base(m) \in SnapshotRecords
      BY <1>1, <2>1
    <3>4. Room(Base(m), Base(m).truth, w)
      BY <1>1, <1>3, <3>1, <3>2, <3>3, <3>6, BaseHasRoom
    <3>5. m.changes = SV_EmitPacketEntities(Base(m).truth, m.truth)
      BY <1>1, <2>1 DEF DeltaOK
    <3> QED BY <2>1, <3>4, <3>5
  <2>2. CASE ~(m.lastframe > 0)
    <3>1. m.lastframe = 0
      BY <1>1, <2>2
    <3>2. m.changes = SV_EmitPacketEntities(<<>>, w)
      BY <1>1, <3>1 DEF DeltaOK
    <3>3. /\ NoSnapshot.first = 0 /\ NoSnapshot.num = 0 /\ Len(<<>>) = 0
          /\ <<>> \in Views /\ DOMAIN <<>> = {}
      BY DEF NoSnapshot, Views
    <3>4. Room(NoSnapshot, <<>>, w)
      BY <1>1, <3>3 DEF Room
    <3> QED BY <2>2, <3>2, <3>4
  <2> QED BY <2>1, <2>2
<1> HIDE DEF old, v
<1>5. /\ parsed.next = parseEntitiesNum + Len(w)
      /\ \A j \in DOMAIN w :
           parseEntitiesNum + j - 1 + MAX_PARSE_ENTITIES > parsed.next =>
             parsed.ring[(parseEntitiesNum + j - 1) % MAX_PARSE_ENTITIES] = w[j]
  BY <1>3, <1>4, ParseRight DEF parsed
<1>6. Len(w) \in Nat /\ DOMAIN w = 1 .. Len(w) /\ parseEntitiesNum \in Nat
  BY <1>1, <1>3, ViewIs DEF ParseTypes
<1>7. /\ snap'.first = parseEntitiesNum /\ snap'.num = Len(w) /\ snap'.truth = w
      /\ snap'.first + snap'.num <= parsed.next
  <2>1. parsed.next - parseEntitiesNum = Len(w)
        /\ parseEntitiesNum + Len(w) <= parsed.next
    BY <1>5, <1>6
  <2> QED BY <1>2, <2>1
<1> QED BY <1>1, <1>5, <1>6, <1>7 DEF Holds

(* What the client's ring holds of its snapshots, when it takes a message. *)
LEMMA EntitiesParsed ==
  ASSUME DeltaInv, EntitiesOK, CL_ParseServerMessage
  PROVE  EntitiesOK'
<1> DEFINE m == Head(toClient)
<1>1. /\ toClient # <<>>
      /\ \/ m.kind = "snapshot" /\ CL_ParseSnapshot(m)
         \/ m.kind = "gamestate" /\ CL_ParseGamestate(m)
         \/ /\ m.kind = "empty"
            /\ UNCHANGED <<clServerId, snap, snapshots, parseEntitiesNum,
                           parseEntities>>
  BY DEF CL_ParseServerMessage
<1>2. TypeOK /\ ParseTypes
  BY TypesAre DEF DeltaInv, Types
<1>3. CASE m.kind = "snapshot" /\ CL_ParseSnapshot(m)
  <2>1. ASSUME NEW i \in DOMAIN snapshots, snapshots[i].valid,
               ~snapshots[i].overtaken
        PROVE  Holds(snapshots[i], parseEntitiesNum', parseEntities')
    <3>1. snapshots[i] \in SnapshotRecords
      BY <1>2, SnapshotFields
    <3>2. Holds(snapshots[i], parseEntitiesNum, parseEntities)
      BY <2>1 DEF EntitiesOK
    <3>3. /\ ParseTypes' /\ parseEntitiesNum <= parseEntitiesNum'
          /\ \A p \in Nat :
               p < parseEntitiesNum
                 /\ p + MAX_PARSE_ENTITIES > parseEntitiesNum' =>
               parseEntities'[p % MAX_PARSE_ENTITIES]
                 = parseEntities[p % MAX_PARSE_ENTITIES]
      BY <1>1, <1>3, SnapshotRead
    <3> QED BY <1>2, <3>1, <3>2, <3>3, SnapshotHeld
  <2>2. CASE ~Usable(m)
    <3>1. snapshots' = snapshots
      BY <1>3, <2>2 DEF CL_ParseSnapshot
    <3> QED BY <2>1, <3>1 DEF EntitiesOK
  <2>3. CASE Usable(m)
    <3>1. PutSnapshot(m)
      BY <1>3, <2>3 DEF CL_ParseSnapshot, PutSnapshot
    <3>2. ~snap'.overtaken => Holds(snap', parseEntitiesNum', parseEntities')
      BY <1>1, <1>3, <2>3, SnapshotHeldNew
    <3> HIDE DEF m
    <3>3. ASSUME NEW i \in DOMAIN snapshots', snapshots'[i].valid,
                 ~snapshots'[i].overtaken
          PROVE  Holds(snapshots'[i], parseEntitiesNum', parseEntities')
      <4>1. /\ i \in DOMAIN snapshots
            /\ \/ snapshots'[i] = snap'
               \/ snapshots'[i] = snapshots[i] /\ snapshots[i].valid
        BY <1>2, <3>1, <3>3, GoodSnapshots
      <4> QED BY <2>1, <3>2, <3>3, <4>1
    <3> QED BY <3>3 DEF EntitiesOK
  <2> QED BY <2>2, <2>3
<1>4. CASE m.kind = "gamestate" /\ CL_ParseGamestate(m)
  <2>1. /\ snapshots' = ClearedSnapshots
        /\ \A i \in DOMAIN ClearedSnapshots : ~ClearedSnapshots[i].valid
    BY <1>4 DEF CL_ParseGamestate, ClearedSnapshots, NoSnapshot
  <2> QED BY <2>1 DEF EntitiesOK
<1>5. CASE UNCHANGED <<clServerId, snap, snapshots, parseEntitiesNum,
                       parseEntities>>
  BY <1>5 DEF EntitiesOK
<1> QED BY <1>1, <1>3, <1>4, <1>5

(* What the client's ring holds, in every step: only the parsing writes    *)
(* it.                                                                     *)
LEMMA EntitiesStep ==
  ASSUME DeltaInv, EntitiesOK, [Next]_vars
  PROVE  EntitiesOK'
<1>1. ASSUME UNCHANGED clientVars PROVE EntitiesOK'
  BY <1>1 DEF EntitiesOK, clientVars
<1>2. CASE CL_ParseServerMessage
  BY <1>2, EntitiesParsed
<1>3. CASE ~CL_ParseServerMessage
  <2>1. UNCHANGED clientVars
    BY <1>3 DEF Next, vars, SV_SendClientMessages, SV_SpawnServer,
                SV_ExecuteClientMessage, CL_WritePacket
  <2> QED BY <1>1, <2>1
<1> QED BY <1>2, <1>3

(* What is left in the client's ring of the entities of a good snapshot,   *)
(* that nothing was overtaken in, is what the server meant                 *)
(* (cl_parse.cpp:244).                                                     *)
THEOREM EntitiesInvariance == Spec => []EntitiesOK
<1>1. Init => EntitiesOK
  <2> SUFFICES ASSUME Init PROVE EntitiesOK
    OBVIOUS
  <2>1. /\ snapshots = ClearedSnapshots
        /\ \A i \in DOMAIN ClearedSnapshots : ~ClearedSnapshots[i].valid
    BY DEF Init, ClearedSnapshots, NoSnapshot
  <2> QED BY <2>1 DEF EntitiesOK
<1>2. DeltaInv /\ EntitiesOK /\ [Next]_vars => EntitiesOK'
  BY EntitiesStep
<1> QED BY <1>1, <1>2, SnapshotInvariance, PTL DEF Spec

(* A snapshot CL_GetSnapshot gives to the cgame has the entities the       *)
(* server gave it, unless the parsing of it, or of one it was made from,   *)
(* overtook the reading (cl_parse.cpp:247).                                *)
THEOREM SnapshotsAreExact == Spec => []SnapshotsExact
<1>1. DeltaInv /\ EntitiesOK => SnapshotsExact
  <2> SUFFICES ASSUME DeltaInv, EntitiesOK, NEW i \in DOMAIN snapshots,
                      Available(snapshots[i]), ~snapshots[i].overtaken
               PROVE  snapshots[i].truth
                        = [j \in 1 .. snapshots[i].num |->
                             parseEntities[(snapshots[i].first + j - 1)
                                             % MAX_PARSE_ENTITIES]]
    BY DEF SnapshotsExact
  <2> DEFINE s == snapshots[i]
  <2>1. /\ s \in SnapshotRecords /\ s.first \in Nat /\ s.num \in Nat
        /\ s.truth \in Views /\ parseEntitiesNum \in Nat
        /\ MAX_PARSE_ENTITIES \in Nat
    BY SnapshotFields, TypesAre DEF DeltaInv, Types, ParseTypes
  <2>2. /\ s.valid /\ parseEntitiesNum - s.first < MAX_PARSE_ENTITIES
        /\ Holds(s, parseEntitiesNum, parseEntities)
    BY DEF Available, EntitiesOK
  <2> HIDE DEF s
  <2>3. \A j \in 1 .. s.num :
           s.first + j - 1 + MAX_PARSE_ENTITIES > parseEntitiesNum
    BY <2>1, <2>2
  <2>4. s.num = Len(s.truth) /\ \A j \in 1 .. s.num :
           parseEntities[(s.first + j - 1) % MAX_PARSE_ENTITIES] = s.truth[j]
    BY <2>2, <2>3 DEF Holds
  <2>5. DOMAIN s.truth = 1 .. s.num /\ s.truth \in Seq(ViewEntities)
    BY <2>1, <2>4, ViewIs
  <2>6. s.truth = [j \in 1 .. s.num |-> s.truth[j]]
    <3>1. \A t \in Seq(ViewEntities) : t = [j \in DOMAIN t |-> t[j]]
      OBVIOUS
    <3> QED BY <2>5, <3>1
  <2> QED BY <2>4, <2>6 DEF s
<1> QED BY <1>1, SnapshotInvariance, EntitiesInvariance, PTL
=============================================================================
