-------------------------- MODULE FrameLoop_proofs --------------------------
(***************************************************************************)
(* Proofs about the frame of a program that is server and client in one:   *)
(* events are handled in the order in which they arrived and their data is *)
(* freed once; a loopback ring is a message channel, what the server sent  *)
(* in its part of the frame is heard before the client's part, and a       *)
(* server that starts hears nothing that was meant for an earlier one.     *)
(*                                                                         *)
(* For the events, the argument is that those handled come before all that *)
(* were pushed back, and these before all in the system's queue: whatever  *)
(* reads ahead empties both rings, pushes everything back in order, and    *)
(* loses the oldest if there are too many. For the loopback rings, it is   *)
(* that a slot of the last MAX_LOOPBACK packets holds the packet of its    *)
(* number, since numbers less than a ring apart have different slots. For  *)
(* the frame, it is that an event loop returns only when both rings have   *)
(* been found empty, in that order, and that what has been read or         *)
(* overwritten stays so.                                                   *)
(***************************************************************************)
EXTENDS FrameLoop, SequencesExt, SequenceTheorems, FiniteSetTheorems,
        WellFoundedInduction, TLAPS

-----------------------------------------------------------------------------
(* Slots of a ring, sets of numbers and sequences.                         *)

(* Division by the size of the ring: the slot is the remainder.            *)
LEMMA SlotOf ==
  ASSUME NEW size \in Nat \ {0}, NEW n \in Nat
  PROVE  /\ n = size * (n \div size) + (n % size)
         /\ n % size \in 0 .. size - 1
         /\ n \div size \in Nat
OBVIOUS

(* The slots of two numbers less than a ring apart are different.          *)
LEMMA SlotsOfNeighbours ==
  ASSUME NEW size \in Nat \ {0}, NEW m \in Nat, NEW n \in Nat,
         m < n, n < m + size
  PROVE  m % size # n % size
<1> DEFINE a == m \div size
           b == n \div size
           r == n % size
<1> SUFFICES ASSUME m % size = n % size PROVE FALSE
  OBVIOUS
<1>1. a \in Nat /\ b \in Nat /\ r \in Nat
  <2>1. a \in Nat /\ b \in Nat
    BY SlotOf
  <2>2. r \in 0 .. size - 1
    BY SlotOf
  <2> HIDE DEF a, b, r
  <2> QED BY <2>1, <2>2
<1>2. m = size * a + r /\ n = size * b + r
  BY SlotOf
<1> HIDE DEF a, b, r
<1>3. n - m = size * (b - a)
  BY <1>1, <1>2
<1>4. b - a >= 1 => size * (b - a) >= size
  BY <1>1
<1>5. b - a <= 0 => size * (b - a) <= 0
  BY <1>1
<1> QED BY <1>1, <1>3, <1>4, <1>5

(* Max is the element that no other exceeds.                               *)
LEMMA MaxIs ==
  ASSUME NEW S, S \subseteq Nat, NEW x \in S, \A y \in S : x >= y
  PROVE  Max(S) = x
<1>1. Max(S) \in S /\ \A y \in S : Max(S) >= y
  BY DEF Max
<1>2. Max(S) \in Nat /\ x \in Nat /\ Max(S) >= x /\ x >= Max(S)
  BY <1>1
<1> QED BY <1>2

(* A set of numbers that has a bound has a largest element.                *)
LEMMA MaxExists ==
  ASSUME NEW k \in Nat, NEW S, S \subseteq 0 .. k, S # {}
  PROVE  Max(S) \in S /\ \A y \in S : Max(S) >= y
<1> DEFINE T == {j \in Nat : j <= k /\ k - j \in S}
<1>1. T # {} /\ T \subseteq Nat
  <2>1. PICK y \in S : TRUE
    OBVIOUS
  <2>2. y \in 0 .. k
    OBVIOUS
  <2>3. k - y \in Nat /\ k - y <= k /\ k - (k - y) = y
    BY <2>2
  <2> QED BY <2>1, <2>3
<1>2. PICK x \in T : \A y \in T : ~ (<<y, x>> \in OpToRel(<, Nat))
  <2> HIDE DEF T
  <2> QED BY <1>1, WFMin, NatLessThanWellFounded
<1>3. \A y \in T : ~(y < x)
  BY <1>2 DEF OpToRel
<1>4. k - x \in S /\ x \in Nat /\ x <= k
  OBVIOUS
<1>5. ASSUME NEW y \in S PROVE k - x >= y
  <2>1. y \in 0 .. k
    OBVIOUS
  <2>2. k - y \in Nat /\ k - y <= k /\ k - (k - y) = y
    BY <2>1
  <2>3. k - y \in T
    BY <2>2
  <2>4. ~(k - y < x)
    BY <1>3, <2>3
  <2> QED BY <1>4, <2>1, <2>4
<1>6. S \subseteq Nat
  OBVIOUS
<1> HIDE DEF T
<1>7. Max(S) = k - x
  BY <1>4, <1>5, <1>6, MaxIs
<1> QED BY <1>4, <1>5, <1>7

(* A function on 1 .. k is a sequence of length k.                         *)
LEMMA FunctionIsSeq ==
  ASSUME NEW S, NEW k \in Nat, NEW f \in [1 .. k -> S]
  PROVE  f \in Seq(S) /\ Len(f) = k
<1>1. f \in Seq(S)
  BY SeqDef
<1>2. DOMAIN f = 1 .. k /\ DOMAIN f = 1 .. Len(f) /\ Len(f) \in Nat
  BY <1>1, LenProperties
<1> QED BY <1>1, <1>2

(* A message that is sent comes after those in flight.                     *)
LEMMA AppendedMessage ==
  ASSUME NEW S, NEW s \in Seq(S), NEW e \in S
  PROVE  /\ Append(s, e) \in Seq(S)
         /\ DOMAIN s = 1 .. Len(s) /\ Len(s) \in Nat
         /\ DOMAIN Append(s, e) = 1 .. Len(s) + 1
         /\ \A i \in 1 .. Len(s) : Append(s, e)[i] = s[i]
         /\ Append(s, e)[Len(s) + 1] = e
<1>1. Append(s, e) \in Seq(S) /\ Len(Append(s, e)) = Len(s) + 1
  BY AppendProperties
<1>2. DOMAIN Append(s, e) = 1 .. Len(s) + 1
  BY <1>1, LenProperties
<1>3. DOMAIN s = 1 .. Len(s) /\ Len(s) \in Nat
  BY LenProperties
<1> QED BY <1>1, <1>2, <1>3, AppendProperties

-----------------------------------------------------------------------------
(* The loopback rings.                                                     *)

LoopRings == [slots : [0 .. MAX_LOOPBACK - 1 -> Nat], head : Nat, tail : Nat]

(* The last packets are in their slots.                                    *)
RingHolds(r) ==
    /\ r \in LoopRings /\ r.tail <= r.head
    /\ \A n \in 0 .. r.head - 1 : r.head <= n + MAX_LOOPBACK
         => r.slots[n % MAX_LOOPBACK] = n + 1

Taken(r) == [r EXCEPT !.tail = OldestKept(r) + 1]

(* The next packet is the oldest one that has not been overwritten.        *)
LEMMA OldestIs ==
  ASSUME NEW r, RingHolds(r)
  PROVE  /\ OldestKept(r) \in Nat /\ OldestKept(r) <= r.head
         /\ r.head <= OldestKept(r) + MAX_LOOPBACK /\ r.tail <= OldestKept(r)
<1>1. /\ r.head \in Nat /\ r.tail \in Nat /\ r.tail <= r.head
      /\ MAX_LOOPBACK \in Nat \ {0}
  BY RingsAssumption DEF RingHolds, LoopRings
<1>2. CASE r.head - r.tail > MAX_LOOPBACK
  <2>1. OldestKept(r) = r.head - MAX_LOOPBACK
    BY <1>2 DEF OldestKept
  <2> QED BY <1>1, <1>2, <2>1
<1>3. CASE ~(r.head - r.tail > MAX_LOOPBACK)
  <2>1. OldestKept(r) = r.tail
    BY <1>3 DEF OldestKept
  <2> QED BY <1>1, <1>3, <2>1
<1> QED BY <1>2, <1>3

(* NET_SendLoopPacket puts a packet into its slot, over one that is a ring *)
(* older and that nobody will read.                                        *)
LEMMA SendHolds ==
  ASSUME NEW r, RingHolds(r)
  PROVE  /\ RingHolds(LoopSend(r, r.head + 1))
         /\ LoopSend(r, r.head + 1).head = r.head + 1
         /\ OldestKept(r) <= OldestKept(LoopSend(r, r.head + 1))
<1> DEFINE s == LoopSend(r, r.head + 1)
<1>1. /\ r.head \in Nat /\ r.tail \in Nat /\ r.tail <= r.head
      /\ MAX_LOOPBACK \in Nat \ {0}
  BY RingsAssumption DEF RingHolds, LoopRings
<1>2. r.head % MAX_LOOPBACK \in 0 .. MAX_LOOPBACK - 1
  BY <1>1, SlotOf
<1>3. /\ s.head = r.head + 1 /\ s.tail = r.tail
      /\ s.slots = [r.slots EXCEPT ![r.head % MAX_LOOPBACK] = r.head + 1]
  BY DEF LoopSend, RingHolds, LoopRings
<1>4. s \in LoopRings
  <2>1. r.slots \in [0 .. MAX_LOOPBACK - 1 -> Nat]
    BY DEF RingHolds, LoopRings
  <2>2. s.slots \in [0 .. MAX_LOOPBACK - 1 -> Nat]
    <3> HIDE DEF s
    <3> QED BY <1>1, <1>2, <1>3, <2>1
  <2>3. s = [slots |-> [r.slots EXCEPT ![r.head % MAX_LOOPBACK] = r.head + 1],
             head |-> r.head + 1, tail |-> r.tail]
    BY DEF LoopSend
  <2>4. s = [slots |-> s.slots, head |-> s.head, tail |-> s.tail]
    BY <1>3, <2>3
  <2> HIDE DEF s
  <2> QED BY <1>1, <1>3, <2>2, <2>4 DEF LoopRings
<1>5. ASSUME NEW n \in 0 .. s.head - 1, s.head <= n + MAX_LOOPBACK
      PROVE  s.slots[n % MAX_LOOPBACK] = n + 1
  <2>1. n % MAX_LOOPBACK \in 0 .. MAX_LOOPBACK - 1
    BY <1>1, SlotOf
  <2>2. r.slots \in [0 .. MAX_LOOPBACK - 1 -> Nat]
    BY DEF RingHolds, LoopRings
  <2>3. CASE n = r.head
    BY <1>2, <1>3, <2>2, <2>3
  <2>4. CASE n < r.head
    <3>1. n % MAX_LOOPBACK # r.head % MAX_LOOPBACK
      <4>1. n \in Nat /\ r.head < n + MAX_LOOPBACK
        BY <1>1, <1>3, <1>5
      <4> QED BY <1>1, <2>4, <4>1, SlotsOfNeighbours
    <3>2. r.slots[n % MAX_LOOPBACK] = n + 1
      BY <1>1, <1>3, <1>5, <2>4 DEF RingHolds
    <3> QED BY <1>3, <2>1, <2>2, <3>1, <3>2
  <2> QED BY <1>1, <1>3, <1>5, <2>3, <2>4
<1> HIDE DEF s
<1>6. RingHolds(s)
  BY <1>1, <1>3, <1>4, <1>5 DEF RingHolds
<1>7. OldestKept(r) <= OldestKept(s)
  BY <1>1, <1>3 DEF OldestKept
<1> QED BY <1>3, <1>6, <1>7 DEF s

(* NET_GetLoopPacket takes the oldest packet, which is whole.              *)
LEMMA TakenHolds ==
  ASSUME NEW r, RingHolds(r), HasPacket(r)
  PROVE  /\ RingHolds(Taken(r)) /\ Taken(r).head = r.head
         /\ Taken(r).tail = OldestKept(r) + 1
         /\ OldestKept(Taken(r)) = OldestKept(r) + 1
         /\ OldestKept(r) + 1 \in 1 .. r.head
         /\ r.slots[OldestKept(r) % MAX_LOOPBACK] = OldestKept(r) + 1
<1> DEFINE k == OldestKept(r)
           s == Taken(r)
<1>1. /\ r.head \in Nat /\ MAX_LOOPBACK \in Nat \ {0}
      /\ k \in Nat /\ k < r.head /\ r.head <= k + MAX_LOOPBACK
  BY RingsAssumption, OldestIs DEF RingHolds, LoopRings, HasPacket
<1> HIDE DEF k
<1>2. /\ s.head = r.head /\ s.tail = k + 1 /\ s.slots = r.slots
  BY DEF Taken, RingHolds, LoopRings, k
<1>3. s \in LoopRings
  <2>1. r \in LoopRings /\ k + 1 \in Nat
    BY <1>1 DEF RingHolds
  <2> QED BY <2>1 DEF Taken, LoopRings, k
<1> HIDE DEF s
<1>4. RingHolds(s)
  BY <1>1, <1>2, <1>3 DEF RingHolds
<1>5. OldestKept(s) = k + 1
  BY <1>1, <1>2 DEF OldestKept
<1>6. r.slots[k % MAX_LOOPBACK] = k + 1
  BY <1>1 DEF RingHolds
<1> QED BY <1>1, <1>2, <1>4, <1>5, <1>6 DEF s, k

-----------------------------------------------------------------------------
(* The rings of events.                                                    *)

EventRings(size) == [slots : [0 .. size - 1 -> Nat], head : Nat, tail : Nat]

QueueOK(r, size) ==
    r \in EventRings(size) /\ r.tail <= r.head /\ r.head <= r.tail + size

(* The events that wait in a ring are a sequence.                          *)
LEMMA WaitingIs ==
  ASSUME NEW size \in Nat \ {0}, NEW r, QueueOK(r, size)
  PROVE  /\ Waiting(r, size) \in Seq(Nat)
         /\ Len(Waiting(r, size)) = r.head - r.tail
         /\ \A i \in 1 .. r.head - r.tail :
              Waiting(r, size)[i] = r.slots[(r.tail + i - 1) % size]
<1>1. /\ r.slots \in [0 .. size - 1 -> Nat] /\ r.head \in Nat /\ r.tail \in Nat
      /\ r.tail <= r.head
  BY DEF QueueOK, EventRings
<1>2. ASSUME NEW i \in 1 .. r.head - r.tail
      PROVE  r.slots[(r.tail + i - 1) % size] \in Nat
  <2>1. r.tail + i - 1 \in Nat
    BY <1>1
  <2>2. (r.tail + i - 1) % size \in 0 .. size - 1
    BY <2>1, SlotOf
  <2> QED BY <1>1, <2>2
<1>3. Waiting(r, size) \in [1 .. r.head - r.tail -> Nat]
  BY <1>2 DEF Waiting
<1>4. r.head - r.tail \in Nat
  BY <1>1
<1>5. Waiting(r, size) \in Seq(Nat) /\ Len(Waiting(r, size)) = r.head - r.tail
  BY <1>3, <1>4, FunctionIsSeq
<1> QED BY <1>5 DEF Waiting

(* Taking an event from a ring (Sys_GetEvent, Com_GetEvent).               *)
LEMMA EventTaken ==
  ASSUME NEW size \in Nat \ {0}, NEW r, QueueOK(r, size), ~IsEmpty(r)
  PROVE  /\ QueueOK(Next1(r), size)
         /\ Waiting(r, size) # <<>>
         /\ First(r, size) = Head(Waiting(r, size))
         /\ Waiting(Next1(r), size) = Tail(Waiting(r, size))
<1> DEFINE w == Waiting(r, size)
           s == Next1(r)
           t == Waiting(s, size)
<1>1. /\ r \in EventRings(size)
      /\ r.head \in Nat /\ r.tail \in Nat
      /\ r.tail < r.head /\ r.head <= r.tail + size
  BY DEF QueueOK, EventRings, IsEmpty
<1>2. s.slots = r.slots /\ s.head = r.head /\ s.tail = r.tail + 1
  BY DEF Next1, QueueOK, EventRings
<1>3. s \in EventRings(size)
  BY <1>1 DEF Next1, EventRings
<1> HIDE DEF s
<1>4. QueueOK(s, size)
  BY <1>1, <1>2, <1>3 DEF QueueOK
<1>5. /\ w \in Seq(Nat) /\ Len(w) = r.head - r.tail
      /\ \A i \in 1 .. r.head - r.tail : w[i] = r.slots[(r.tail + i - 1) % size]
  BY WaitingIs
<1>6. /\ t \in Seq(Nat) /\ Len(t) = r.head - r.tail - 1
      /\ \A i \in 1 .. r.head - r.tail - 1 : t[i] = r.slots[(r.tail + 1 + i - 1) % size]
  <2>1. /\ t \in Seq(Nat) /\ Len(t) = s.head - s.tail
        /\ \A i \in 1 .. s.head - s.tail : t[i] = s.slots[(s.tail + i - 1) % size]
    BY <1>4, WaitingIs
  <2> HIDE DEF t
  <2>2. s.head - s.tail = r.head - r.tail - 1
    BY <1>1, <1>2
  <2> QED BY <1>2, <2>1, <2>2
<1> HIDE DEF w, t
<1>7. w # <<>>
  BY <1>1, <1>5
<1>8. /\ Head(w) = w[1] /\ Tail(w) \in Seq(Nat) /\ Len(Tail(w)) = Len(w) - 1
      /\ \A i \in 1 .. Len(Tail(w)) : Tail(w)[i] = w[i + 1]
  BY <1>5, <1>7, HeadTailProperties
<1>9. ASSUME NEW i \in 1 .. Len(t) PROVE t[i] = Tail(w)[i]
  <2>1. i + 1 \in 1 .. r.head - r.tail /\ i \in 1 .. r.head - r.tail - 1
    BY <1>1, <1>6
  <2>2. r.tail + 1 + i - 1 = r.tail + (i + 1) - 1
    BY <1>1, <2>1
  <2>3. i \in 1 .. Len(Tail(w))
    BY <1>5, <1>8, <2>1
  <2> QED BY <1>5, <1>6, <1>8, <2>1, <2>2, <2>3
<1>10. t = Tail(w)
  BY <1>1, <1>5, <1>6, <1>8, <1>9, SeqEqual
<1>11. First(r, size) = w[1]
  <2>1. 1 \in 1 .. r.head - r.tail /\ r.tail + 1 - 1 = r.tail
    BY <1>1
  <2> QED BY <1>5, <2>1 DEF First
<1> QED BY <1>4, <1>7, <1>8, <1>10, <1>11 DEF w, t, s

(* A ring that is emptied at once (Com_Milliseconds).                      *)
LEMMA EmptiedRing ==
  ASSUME NEW size \in Nat \ {0}, NEW r, QueueOK(r, size)
  PROVE  /\ QueueOK([r EXCEPT !.tail = r.head], size)
         /\ Waiting([r EXCEPT !.tail = r.head], size) = <<>>
<1> DEFINE s == [r EXCEPT !.tail = r.head]
<1>1. r \in EventRings(size) /\ r.head \in Nat
  BY DEF QueueOK, EventRings
<1>2. s.head = r.head /\ s.tail = r.head /\ s \in EventRings(size)
  BY <1>1 DEF EventRings
<1> HIDE DEF s
<1>3. QueueOK(s, size)
  BY <1>1, <1>2 DEF QueueOK
<1>4. Waiting(s, size) \in Seq(Nat) /\ Len(Waiting(s, size)) = s.head - s.tail
  BY <1>3, WaitingIs
<1>5. Waiting(s, size) = <<>>
  BY <1>1, <1>2, <1>4, EmptySeq
<1> QED BY <1>3, <1>5 DEF s

(* The slots hold the events that were added last, and around them what    *)
(* they held before: an event that is added is found in its slot as long   *)
(* as no later one has taken that.                                         *)
LEMMA SlotsHold ==
  ASSUME NEW size \in Nat \ {0}, NEW r \in EventRings(size),
         NEW events \in Seq(Nat), NEW p \in Nat,
         p < r.head + Len(events), r.head + Len(events) <= p + size
  PROVE  SlotsWith(r, events, size)[p % size]
           = IF p < r.head THEN r.slots[p % size] ELSE events[p - r.head + 1]
<1> DEFINE slot == p % size
           put == {k \in DOMAIN events : (r.head + k - 1) % size = slot}
<1>1. /\ r.head \in Nat /\ Len(events) \in Nat
      /\ DOMAIN events = 1 .. Len(events)
  BY LenProperties DEF EventRings
<1>2. slot \in 0 .. size - 1
  BY SlotOf
<1>3. SlotsWith(r, events, size)[slot]
        = IF put = {} THEN r.slots[slot] ELSE events[Max(put)]
  <2> HIDE DEF slot
  <2> QED BY <1>2 DEF SlotsWith
<1>4. ASSUME NEW k \in put
      PROVE  k \in 1 .. Len(events) /\ ~(p < r.head + k - 1)
                /\ (p < r.head => FALSE)
  <2>1. /\ k \in 1 .. Len(events) /\ r.head + k - 1 \in Nat
        /\ (r.head + k - 1) % size = p % size
    BY <1>1
  <2>2. p < r.head + k - 1 => (r.head + k - 1) % size # p % size
    <3>1. r.head + k - 1 < p + size
      BY <1>1, <2>1
    <3> QED BY <2>1, <3>1, SlotsOfNeighbours
  <2> HIDE DEF put
  <2>3. ~(p < r.head + k - 1)
    BY <2>1, <2>2
  <2> QED BY <1>1, <2>1, <2>3
<1>5. CASE p < r.head
  <2>1. put = {}
    BY <1>4, <1>5
  <2> QED BY <1>3, <1>5, <2>1
<1>6. CASE ~(p < r.head)
  <2> DEFINE k == p - r.head + 1
  <2>1. k \in 1 .. Len(events) /\ r.head + k - 1 = p
    BY <1>1, <1>6
  <2>2. k \in put
    BY <1>1, <2>1
  <2>3. \A j \in put : k >= j
    <3> HIDE DEF put
    <3> QED BY <1>1, <1>4, <2>1
  <2>4. put \subseteq Nat
    BY <1>1
  <2> HIDE DEF put, k
  <2>5. Max(put) = k
    BY <2>2, <2>3, <2>4, MaxIs
  <2> QED BY <1>3, <1>6, <2>2, <2>5 DEF k
<1> QED BY <1>5, <1>6

KeepsLast(all, waiting, frees, before) ==
    \E lost \in 0 .. Len(all) :
       /\ waiting = SubSeq(all, lost + 1, Len(all))
       /\ frees = before \o SubSeq(all, 1, lost)

(* Of the events that waited and those that are added, a ring keeps the    *)
(* last ones and frees the others (Lin_QueEvent, Com_PushEvent).           *)
LEMMA EventsAdded ==
  ASSUME NEW size \in Nat \ {0}, NEW q, QueueOK(q.ring, size),
         NEW events \in Seq(Nat)
  PROVE  /\ QueueOK(AddEvents(q, events, size).ring, size)
         /\ KeepsLast(Waiting(q.ring, size) \o events,
                      Waiting(AddEvents(q, events, size).ring, size),
                      AddEvents(q, events, size).freed, q.freed)
         /\ IsEmpty(AddEvents(q, events, size).ring)
              => Len(Waiting(q.ring, size) \o events) = 0
<1> DEFINE r == q.ring
           w == Waiting(r, size)
           all == w \o events
           lost == IF Len(all) > size THEN Len(all) - size ELSE 0
           s == AddEvents(q, events, size).ring
<1>1. r \in EventRings(size) /\ r.slots \in [0 .. size - 1 -> Nat]
  BY DEF QueueOK, EventRings
<1>2. /\ r.head \in Nat /\ r.tail \in Nat
      /\ r.tail <= r.head /\ r.head <= r.tail + size
  BY DEF QueueOK, EventRings
<1>3. /\ w \in Seq(Nat) /\ Len(w) = r.head - r.tail
      /\ \A i \in 1 .. r.head - r.tail : w[i] = r.slots[(r.tail + i - 1) % size]
  BY WaitingIs
<1>4. Len(events) \in Nat
  BY LenProperties
<1>5. /\ all \in Seq(Nat) /\ Len(all) = r.head - r.tail + Len(events)
      /\ \A i \in 1 .. Len(all) :
           all[i] = IF i <= r.head - r.tail THEN w[i]
                    ELSE events[i - (r.head - r.tail)]
  <2> HIDE DEF w
  <2>1. w \in Seq(Nat) /\ Len(w) = r.head - r.tail /\ all = w \o events
    BY <1>3
  <2> HIDE DEF all
  <2>2. /\ all \in Seq(Nat) /\ Len(all) = Len(w) + Len(events)
        /\ \A i \in 1 .. Len(w) + Len(events) :
             all[i] = IF i <= Len(w) THEN w[i] ELSE events[i - Len(w)]
    BY <2>1, ConcatProperties
  <2> QED BY <2>1, <2>2
<1>6. /\ s.slots = SlotsWith(r, events, size) /\ s.head = r.head + Len(events)
      /\ s.tail = r.tail + lost
      /\ s = [slots |-> s.slots, head |-> s.head, tail |-> s.tail]
      /\ AddEvents(q, events, size).freed = q.freed \o SubSeq(all, 1, lost)
  BY DEF AddEvents
<1>7. /\ lost \in 0 .. Len(all) /\ Len(all) \in Nat
      /\ s.head = r.head + Len(events) /\ s.tail = r.tail + lost
      /\ s.tail <= s.head /\ s.head <= s.tail + size
      /\ s.tail \in Nat /\ s.head \in Nat
      /\ s.head - s.tail = Len(all) - lost
  <2>1. lost = IF Len(all) > size THEN Len(all) - size ELSE 0
    OBVIOUS
  <2>2. s.head = r.head + Len(events) /\ s.tail = r.tail + lost
    BY <1>6
  <2>3. Len(all) = r.head - r.tail + Len(events)
    BY <1>5
  <2> HIDE DEF lost, all, s, w
  <2>4. Len(all) \in Nat
    BY <1>5, LenProperties
  <2>5. lost \in Nat
    BY <2>1, <2>4
  <2>6. lost \in 0 .. Len(all)
    BY <2>1, <2>4, <2>5
  <2>7. r.tail + lost \in Nat
    BY <1>2, <2>5
  <2>8. r.head + Len(events) \in Nat
    BY <1>2, <1>4
  <2>9. r.tail + lost <= r.head + Len(events)
    BY <1>2, <1>4, <2>1, <2>3, <2>5
  <2>10. r.head + Len(events) <= r.tail + lost + size
    BY <1>2, <1>4, <2>1, <2>3, <2>5
  <2>11. r.head + Len(events) - (r.tail + lost) = Len(all) - lost
    BY <1>2, <1>4, <2>3, <2>5
  <2>12. s.tail <= s.head /\ s.head <= s.tail + size
    BY <2>2, <2>9, <2>10
  <2>13. s.tail \in Nat /\ s.head \in Nat
    BY <2>2, <2>7, <2>8
  <2>14. s.head - s.tail = Len(all) - lost
    BY <1>2, <1>4, <2>2, <2>4, <2>5, <2>11, <2>13, SMTT(60)
  <2> QED BY <2>2, <2>4, <2>6, <2>12, <2>13, <2>14
<1>8. s.slots \in [0 .. size - 1 -> Nat]
  <2>1. ASSUME NEW i \in 0 .. size - 1
        PROVE  SlotsWith(r, events, size)[i] \in Nat
    <3> DEFINE put == {k \in DOMAIN events : (r.head + k - 1) % size = i}
    <3>1. SlotsWith(r, events, size)[i]
            = IF put = {} THEN r.slots[i] ELSE events[Max(put)]
      BY DEF SlotsWith
    <3>2. put \subseteq 0 .. Len(events) /\ put \subseteq 1 .. Len(events)
      BY <1>4, LenProperties
    <3> HIDE DEF put
    <3>3. put # {} => Max(put) \in put
      BY <1>4, <3>2, MaxExists
    <3>4. \A k \in 1 .. Len(events) : events[k] \in Nat
      BY ElementOfSeq
    <3> QED BY <1>1, <3>1, <3>2, <3>3, <3>4
  <2>2. DOMAIN SlotsWith(r, events, size) = 0 .. size - 1
        /\ SlotsWith(r, events, size)
             = [i \in 0 .. size - 1 |-> SlotsWith(r, events, size)[i]]
    BY DEF SlotsWith
  <2> QED BY <1>6, <2>1, <2>2
<1>9. QueueOK(s, size)
  <2> HIDE DEF s, lost
  <2>1. s \in EventRings(size)
    BY <1>6, <1>7, <1>8 DEF EventRings
  <2> QED BY <1>7, <2>1 DEF QueueOK
<1> HIDE DEF s, lost, w, all
<1>10. /\ Waiting(s, size) \in Seq(Nat) /\ Len(Waiting(s, size)) = s.head - s.tail
      /\ \A i \in 1 .. s.head - s.tail :
           Waiting(s, size)[i] = s.slots[(s.tail + i - 1) % size]
  BY <1>9, WaitingIs
<1>11. ASSUME NEW i \in 1 .. Len(all) - lost
       PROVE  Waiting(s, size)[i] = all[lost + i]
  <2> DEFINE p == s.tail + i - 1
  <2>1. Len(all) = r.head - r.tail + Len(events) /\ p = r.tail + lost + i - 1
    BY <1>5, <1>7
  <2>2. Waiting(s, size)[i] = s.slots[p % size]
    BY <1>7, <1>10
  <2> HIDE DEF p
  <2>3. p \in Nat /\ lost \in Nat /\ i \in Nat /\ i >= 1
    <3>1. Len(all) \in Nat /\ lost \in 0 .. Len(all)
      BY <1>7
    <3>2. lost \in Nat
      BY <3>1
    <3>3. i \in Nat /\ i >= 1
      BY <3>1, <3>2
    <3>4. r.tail + lost \in Nat
      BY <1>2, <3>2
    <3>5. p = (r.tail + lost) + (i - 1) /\ i - 1 \in Nat
      BY <1>2, <2>1, <3>2, <3>3
    <3>6. p \in Nat
      BY <3>4, <3>5
    <3> QED BY <3>2, <3>3, <3>6
  <2>4. p < r.head + Len(events)
    <3>1. i <= Len(all) - lost
      BY <1>7, <2>3
    <3>2. Len(all) - lost = r.head + Len(events) - (r.tail + lost)
      BY <1>2, <1>4, <2>1, <2>3
    <3>3. r.tail + lost \in Nat /\ r.head + Len(events) \in Nat
      BY <1>2, <1>4, <2>3
    <3>4. p = (r.tail + lost) + i - 1
      BY <1>2, <2>1, <2>3
    <3>5. i <= r.head + Len(events) - (r.tail + lost)
      BY <3>1, <3>2
    <3> QED BY <1>2, <1>4, <2>3, <3>4, <3>5
  <2>5. r.head + Len(events) <= p + size
    <3>1. r.head + Len(events) <= (r.tail + lost) + size
      BY <1>7
    <3>2. r.tail + lost \in Nat /\ r.head + Len(events) \in Nat
      BY <1>2, <1>4, <2>3
    <3>3. p = (r.tail + lost) + i - 1
      BY <1>2, <2>1, <2>3
    <3> QED BY <2>3, <3>1, <3>2, <3>3
  <2>6. lost + i \in 1 .. Len(all)
    BY <1>7, <2>3
  <2>7. p = r.tail + (lost + i) - 1
    BY <1>2, <2>1, <2>3
  <2>8. SlotsWith(r, events, size)[p % size]
          = IF p < r.head THEN r.slots[p % size] ELSE events[p - r.head + 1]
    BY <1>1, <2>3, <2>4, <2>5, SlotsHold
  <2>9. CASE p < r.head
    <3>1. lost + i <= r.head - r.tail
      BY <1>2, <2>3, <2>7, <2>9
    <3>2. lost + i \in 1 .. r.head - r.tail
      BY <1>2, <2>3, <3>1
    <3>3. all[lost + i] = w[lost + i]
      BY <1>5, <2>6, <3>1
    <3>4. w[lost + i] = r.slots[(r.tail + (lost + i) - 1) % size]
      BY <1>3, <3>2
    <3> QED BY <1>6, <2>2, <2>7, <2>8, <2>9, <3>3, <3>4
  <2>10. CASE ~(p < r.head)
    <3>1. ~(lost + i <= r.head - r.tail)
      BY <1>2, <2>3, <2>7, <2>10
    <3>2. lost + i - (r.head - r.tail) = p - r.head + 1
      BY <1>2, <2>3, <2>7
    <3>3. all[lost + i] = events[lost + i - (r.head - r.tail)]
      <4>1. \A j \in 1 .. Len(all) : ~(j <= r.head - r.tail)
               => all[j] = events[j - (r.head - r.tail)]
        BY <1>5
      <4>2. lost + i \in Nat /\ r.head - r.tail \in Nat
        BY <1>2, <2>3
      <4> QED BY <1>2, <2>3, <2>6, <3>1, <4>1, <4>2
    <3> QED BY <1>6, <2>2, <2>8, <2>10, <3>2, <3>3
  <2> QED BY <2>9, <2>10
<1>12. Waiting(s, size) = SubSeq(all, lost + 1, Len(all))
  <2> DEFINE t == SubSeq(all, lost + 1, Len(all))
  <2>1. \A i \in lost + 1 .. Len(all) : all[i] \in Nat
    BY <1>5, <1>7, ElementOfSeq, LenProperties
  <2>2. /\ t \in Seq(Nat)
        /\ Len(t) = IF lost + 1 <= Len(all) THEN Len(all) - (lost + 1) + 1 ELSE 0
        /\ \A i \in 1 .. Len(all) - (lost + 1) + 1 : t[i] = all[lost + 1 + i - 1]
    <3> HIDE DEF t
    <3>1. Len(all) \in Nat
      BY <1>5, LenProperties
    <3> QED BY <1>7, <2>1, <3>1, SubSeqProperties DEF t
  <2> HIDE DEF t
  <2>3. Len(t) = Len(all) - lost /\ Len(all) \in Nat
    BY <1>5, <1>7, <2>2, LenProperties
  <2>4. ASSUME NEW i \in 1 .. Len(all) - lost PROVE t[i] = all[lost + i]
    <3>1. i \in 1 .. Len(all) - (lost + 1) + 1 /\ lost + 1 + i - 1 = lost + i
      BY <1>7, <2>3
    <3> QED BY <2>2, <3>1
  <2>5. Len(Waiting(s, size)) = Len(all) - lost
    BY <1>7, <1>10
  <2>6. \A i \in 1 .. Len(Waiting(s, size)) : Waiting(s, size)[i] = t[i]
    BY <1>11, <2>4, <2>5
  <2>7. Waiting(s, size) = t
    <3> HIDE DEF s
    <3>1. Waiting(s, size) \in Seq(Nat) /\ t \in Seq(Nat)
      BY <1>10, <2>2
    <3>2. Len(Waiting(s, size)) = Len(t)
      BY <2>3, <2>5
    <3> QED BY <2>6, <3>1, <3>2, SeqEqual
  <2> QED BY <2>7 DEF t
<1>13. KeepsLast(all, Waiting(s, size), AddEvents(q, events, size).freed, q.freed)
  BY <1>6, <1>7, <1>12 DEF KeepsLast
<1>14. IsEmpty(s) => Len(all) = 0
  <2>1. lost = IF Len(all) > size THEN Len(all) - size ELSE 0
    BY DEF lost
  <2>2. IsEmpty(s) => Len(all) - lost = 0
    BY <1>7 DEF IsEmpty
  <2>3. Len(all) \in Nat /\ lost \in Nat
    BY <1>7
  <2>4. CASE Len(all) > size
    BY <2>1, <2>2, <2>3, <2>4
  <2>5. CASE ~(Len(all) > size)
    BY <2>1, <2>2, <2>3, <2>5
  <2> QED BY <2>4, <2>5
<1> QED BY <1>9, <1>13, <1>14 DEF s, all, w

-----------------------------------------------------------------------------
(* Sequences of events, and the events in them.                            *)

Rising(s) == \A i, j \in DOMAIN s : i < j => s[i] < s[j]
AllBelow(S, T) == \A x \in S, y \in T : x < y

(* What is in two sequences is in one of them; in order if all in the      *)
(* first come before all in the second, and once if none is in both.       *)
LEMMA Joined ==
  ASSUME NEW s \in Seq(Nat), NEW t \in Seq(Nat)
  PROVE  /\ s \o t \in Seq(Nat) /\ Range(s \o t) = Range(s) \union Range(t)
         /\ Rising(s) /\ Rising(t) /\ AllBelow(Range(s), Range(t))
              => Rising(s \o t)
         /\ IsInjective(s) /\ IsInjective(t) /\ Range(s) \intersect Range(t) = {}
              => IsInjective(s \o t)
<1> DEFINE u == s \o t
           m == Len(s)
           n == Len(t)
<1>1. m \in Nat /\ n \in Nat /\ DOMAIN s = 1 .. m /\ DOMAIN t = 1 .. n
  BY LenProperties
<1>2. /\ u \in Seq(Nat) /\ Len(u) = m + n
      /\ \A i \in 1 .. m + n : u[i] = IF i <= m THEN s[i] ELSE t[i - m]
  BY ConcatProperties
<1>3. DOMAIN u = 1 .. m + n
  <2> HIDE DEF u
  <2> QED BY <1>2, LenProperties
<1> HIDE DEF u, m, n
<1>4. \A i \in 1 .. m : i \in DOMAIN u /\ u[i] = s[i]
  BY <1>1, <1>2, <1>3
<1>5. ASSUME NEW i \in 1 .. n PROVE m + i \in DOMAIN u /\ u[m + i] = t[i]
  <2>1. m + i \in 1 .. m + n /\ ~(m + i <= m) /\ m + i - m = i
    BY <1>1
  <2>2. u[m + i] = t[m + i - m]
    BY <1>1, <1>2, <2>1
  <2> QED BY <1>3, <2>1, <2>2
<1>6. ASSUME NEW i \in DOMAIN u
      PROVE  \/ i \in DOMAIN s /\ u[i] = s[i]
             \/ i - m \in DOMAIN t /\ i > m /\ u[i] = t[i - m]
  BY <1>1, <1>2, <1>3
<1>7. Range(u) = Range(s) \union Range(t)
  <2>1. ASSUME NEW x \in Range(u) PROVE x \in Range(s) \union Range(t)
    BY <1>6 DEF Range
  <2>2. ASSUME NEW x \in Range(s) PROVE x \in Range(u)
    BY <1>1, <1>4 DEF Range
  <2>3. ASSUME NEW x \in Range(t) PROVE x \in Range(u)
    BY <1>1, <1>5 DEF Range
  <2> QED BY <2>1, <2>2, <2>3
<1>8. ASSUME Rising(s), Rising(t), AllBelow(Range(s), Range(t))
      PROVE  Rising(u)
  <2> SUFFICES ASSUME NEW i \in DOMAIN u, NEW j \in DOMAIN u, i < j
               PROVE  u[i] < u[j]
    BY DEF Rising
  <2>1. i \in Nat /\ j \in Nat
    BY <1>1, <1>3
  <2>2. CASE i \in DOMAIN s /\ u[i] = s[i] /\ j \in DOMAIN s /\ u[j] = s[j]
    BY <1>8, <2>2 DEF Rising
  <2>3. CASE /\ i \in DOMAIN s /\ u[i] = s[i]
             /\ j - m \in DOMAIN t /\ u[j] = t[j - m]
    BY <1>8, <2>3 DEF AllBelow, Range
  <2>4. CASE /\ i - m \in DOMAIN t /\ u[i] = t[i - m]
             /\ j - m \in DOMAIN t /\ u[j] = t[j - m]
    <3>1. i - m < j - m
      BY <1>1, <2>1
    <3> QED BY <1>8, <2>4, <3>1 DEF Rising
  <2>5. CASE i > m /\ j \in DOMAIN s
    BY <1>1, <2>1, <2>5
  <2> QED BY <1>6, <2>2, <2>3, <2>4, <2>5
<1>9. ASSUME IsInjective(s), IsInjective(t), Range(s) \intersect Range(t) = {}
      PROVE  IsInjective(u)
  <2> SUFFICES ASSUME NEW i \in DOMAIN u, NEW j \in DOMAIN u, u[i] = u[j]
               PROVE  i = j
    BY DEF IsInjective
  <2>1. i \in Nat /\ j \in Nat
    BY <1>1, <1>3
  <2>2. CASE i \in DOMAIN s /\ u[i] = s[i] /\ j \in DOMAIN s /\ u[j] = s[j]
    BY <1>9, <2>2 DEF IsInjective
  <2>3. CASE /\ i \in DOMAIN s /\ u[i] = s[i]
             /\ j - m \in DOMAIN t /\ u[j] = t[j - m]
    BY <1>9, <2>3 DEF Range
  <2>4. CASE /\ i - m \in DOMAIN t /\ u[i] = t[i - m]
             /\ j \in DOMAIN s /\ u[j] = s[j]
    BY <1>9, <2>4 DEF Range
  <2>5. CASE /\ i - m \in DOMAIN t /\ u[i] = t[i - m]
             /\ j - m \in DOMAIN t /\ u[j] = t[j - m]
    <3>1. i - m = j - m
      BY <1>9, <2>5 DEF IsInjective
    <3> QED BY <1>1, <2>1, <3>1
  <2> QED BY <1>6, <2>2, <2>3, <2>4, <2>5
<1> QED BY <1>2, <1>7, <1>8, <1>9 DEF u

(* A sequence in order, cut in two.                                        *)
LEMMA CutInTwo ==
  ASSUME NEW s \in Seq(Nat), Rising(s), NEW k \in 0 .. Len(s)
  PROVE  LET front == SubSeq(s, 1, k)
             rest == SubSeq(s, k + 1, Len(s))
         IN /\ front \in Seq(Nat) /\ rest \in Seq(Nat)
            /\ Rising(front) /\ Rising(rest)
            /\ Range(s) = Range(front) \union Range(rest)
            /\ AllBelow(Range(front), Range(rest))
<1> DEFINE front == SubSeq(s, 1, k)
           rest == SubSeq(s, k + 1, Len(s))
<1>1. Len(s) \in Nat /\ DOMAIN s = 1 .. Len(s) /\ k \in Nat
  BY LenProperties
<1>2. Len(s) \in Nat /\ k \in Nat /\ k <= Len(s)
  BY LenProperties
<1>3. /\ front \in Seq(Nat) /\ DOMAIN front = 1 .. k
      /\ \A i \in 1 .. k : front[i] = s[i]
  <2>1. \A i \in 1 .. k : s[i] \in Nat
    BY <1>1, ElementOfSeq
  <2>2. /\ front \in Seq(Nat) /\ Len(front) = IF 1 <= k THEN k - 1 + 1 ELSE 0
        /\ \A i \in 1 .. k - 1 + 1 : front[i] = s[1 + i - 1]
    <3> HIDE DEF front
    <3> QED BY <1>1, <2>1, SubSeqProperties DEF front
  <2> HIDE DEF front
  <2>3. Len(front) = k
    BY <1>1, <2>2
  <2>4. DOMAIN front = 1 .. k
    BY <2>2, <2>3, LenProperties
  <2> QED BY <1>1, <2>2, <2>4
<1>4. /\ rest \in Seq(Nat) /\ DOMAIN rest = 1 .. Len(s) - k
      /\ \A i \in 1 .. Len(s) - k : rest[i] = s[k + i]
  <2>1. \A i \in k + 1 .. Len(s) : s[i] \in Nat
    BY <1>1, ElementOfSeq
  <2>2. /\ rest \in Seq(Nat)
        /\ Len(rest) = IF k + 1 <= Len(s) THEN Len(s) - (k + 1) + 1 ELSE 0
        /\ \A i \in 1 .. Len(s) - (k + 1) + 1 : rest[i] = s[k + 1 + i - 1]
    <3> HIDE DEF rest
    <3> QED BY <1>1, <2>1, SubSeqProperties DEF rest
  <2> HIDE DEF rest
  <2>3. Len(rest) = Len(s) - k
    <3>1. Len(rest) = IF k + 1 <= Len(s) THEN Len(s) - (k + 1) + 1 ELSE 0
      BY <2>2
    <3>3. CASE k + 1 <= Len(s)
      BY <1>2, <3>1, <3>3
    <3>4. CASE ~(k + 1 <= Len(s))
      <4>1. k = Len(s)
        BY <1>2, <3>4
      <4> QED BY <1>2, <3>1, <3>4, <4>1
    <3> QED BY <3>3, <3>4
  <2>4. DOMAIN rest = 1 .. Len(s) - k
    BY <2>2, <2>3, LenProperties
  <2>5. ASSUME NEW i \in 1 .. Len(s) - k PROVE rest[i] = s[k + i]
    <3>1. i \in 1 .. Len(s) - (k + 1) + 1 /\ k + 1 + i - 1 = k + i
      BY <1>1
    <3> QED BY <2>2, <3>1
  <2> QED BY <2>2, <2>4, <2>5
<1> HIDE DEF front, rest
<1>5. \A i \in DOMAIN front : i \in DOMAIN s /\ front[i] = s[i] /\ i <= k /\ i \in Nat
  BY <1>1, <1>3
<1>6. \A i \in DOMAIN rest : k + i \in DOMAIN s /\ rest[i] = s[k + i] /\ i \in Nat /\ k < k + i
  BY <1>1, <1>4
<1>7. \A i, j \in DOMAIN s : i < j => s[i] < s[j]
  BY DEF Rising
<1>8. Rising(front)
  BY <1>5, <1>7 DEF Rising
<1>9. Rising(rest)
  <2>1. \A i, j \in DOMAIN rest : i < j => k + i < k + j
    BY <1>1, <1>6
  <2> QED BY <1>6, <1>7, <2>1 DEF Rising
<1>10. AllBelow(Range(front), Range(rest))
  <2>1. \A i \in DOMAIN front, j \in DOMAIN rest : i < k + j
    BY <1>1, <1>5, <1>6
  <2> QED BY <1>5, <1>6, <1>7, <2>1 DEF AllBelow, Range
<1>11. Range(s) = Range(front) \union Range(rest)
  <2>1. ASSUME NEW i \in DOMAIN s PROVE s[i] \in Range(front) \union Range(rest)
    <3>1. CASE i <= k
      BY <1>1, <1>3, <3>1 DEF Range
    <3>2. CASE ~(i <= k)
      <4>1. i - k \in 1 .. Len(s) - k /\ k + (i - k) = i
        BY <1>1, <3>2
      <4> QED BY <1>4, <4>1 DEF Range
    <3> QED BY <3>1, <3>2
  <2>2. Range(front) \union Range(rest) \subseteq Range(s)
    BY <1>5, <1>6 DEF Range
  <2> QED BY <2>1, <2>2 DEF Range
<1> QED BY <1>3, <1>4, <1>8, <1>9, <1>10, <1>11 DEF front, rest

(* Taking the first event off.                                             *)
LEMMA HeadAndTail ==
  ASSUME NEW s \in Seq(Nat), Rising(s), s # <<>>
  PROVE  /\ Head(s) \in Nat /\ Tail(s) \in Seq(Nat) /\ Rising(Tail(s))
         /\ Range(s) = {Head(s)} \union Range(Tail(s))
         /\ \A x \in Range(Tail(s)) : Head(s) < x
<1>1. /\ Len(s) \in Nat \ {0} /\ DOMAIN s = 1 .. Len(s) /\ Head(s) = s[1]
      /\ Tail(s) \in Seq(Nat) /\ Len(Tail(s)) = Len(s) - 1
      /\ \A i \in 1 .. Len(Tail(s)) : Tail(s)[i] = s[i + 1]
  BY LenProperties, EmptySeq, HeadTailProperties
<1>2. DOMAIN Tail(s) = 1 .. Len(s) - 1
  BY <1>1, LenProperties
<1>3. \A i \in DOMAIN Tail(s) :
        i + 1 \in DOMAIN s /\ Tail(s)[i] = s[i + 1] /\ i \in Nat /\ 1 < i + 1
  BY <1>1, <1>2
<1>4. \A i, j \in DOMAIN s : i < j => s[i] < s[j]
  BY DEF Rising
<1>5. 1 \in DOMAIN s /\ s[1] \in Nat
  BY <1>1, ElementOfSeq
<1>6. Rising(Tail(s))
  <2>1. \A i, j \in DOMAIN Tail(s) : i < j => i + 1 < j + 1
    BY <1>3
  <2> QED BY <1>3, <1>4, <2>1 DEF Rising
<1>7. \A x \in Range(Tail(s)) : Head(s) < x
  BY <1>1, <1>3, <1>4, <1>5 DEF Range
<1>8. Range(s) = {Head(s)} \union Range(Tail(s))
  <2>1. ASSUME NEW i \in DOMAIN s PROVE s[i] \in {Head(s)} \union Range(Tail(s))
    <3>1. CASE i = 1
      BY <1>1, <3>1
    <3>2. CASE i # 1
      <4>1. i - 1 \in 1 .. Len(s) - 1 /\ i - 1 + 1 = i
        BY <1>1, <3>2
      <4> QED BY <1>2, <1>3, <4>1 DEF Range
    <3> QED BY <3>1, <3>2
  <2>2. {Head(s)} \union Range(Tail(s)) \subseteq Range(s)
    BY <1>1, <1>3, <1>5 DEF Range
  <2> QED BY <2>1, <2>2 DEF Range
<1> QED BY <1>1, <1>5, <1>6, <1>7, <1>8

(* An event at the end.                                                    *)
LEMMA OneMore ==
  ASSUME NEW s \in Seq(Nat), NEW x \in Nat
  PROVE  /\ Append(s, x) \in Seq(Nat) /\ Range(Append(s, x)) = Range(s) \union {x}
         /\ Rising(s) /\ (\A y \in Range(s) : y < x) => Rising(Append(s, x))
         /\ IsInjective(s) /\ x \notin Range(s) => IsInjective(Append(s, x))
<1> DEFINE t == Append(s, x)
           n == Len(s)
<1>1. /\ t \in Seq(Nat) /\ DOMAIN s = 1 .. n /\ n \in Nat
      /\ DOMAIN t = 1 .. n + 1
      /\ \A i \in 1 .. n : t[i] = s[i]
      /\ t[n + 1] = x
  BY AppendedMessage
<1> HIDE DEF t, n
<1>2. \A i \in DOMAIN t : \/ i \in DOMAIN s /\ t[i] = s[i]
                          \/ i = n + 1 /\ t[i] = x
  BY <1>1
<1>3. \A i \in DOMAIN s : i \in DOMAIN t /\ t[i] = s[i] /\ i \in Nat /\ i < n + 1
  BY <1>1
<1>4. n + 1 \in DOMAIN t /\ n + 1 \in Nat
  BY <1>1
<1>5. Range(t) = Range(s) \union {x}
  <2>1. Range(t) \subseteq Range(s) \union {x}
    BY <1>2 DEF Range
  <2>2. Range(s) \union {x} \subseteq Range(t)
    BY <1>1, <1>3, <1>4 DEF Range
  <2> QED BY <2>1, <2>2
<1>6. ASSUME Rising(s), \A y \in Range(s) : y < x PROVE Rising(t)
  <2> SUFFICES ASSUME NEW i \in DOMAIN t, NEW j \in DOMAIN t, i < j
               PROVE  t[i] < t[j]
    BY DEF Rising
  <2>1. i \in DOMAIN s /\ t[i] = s[i]
    BY <1>1, <1>2
  <2>2. CASE j \in DOMAIN s /\ t[j] = s[j]
    BY <1>6, <2>1, <2>2 DEF Rising
  <2>3. CASE t[j] = x
    BY <1>6, <2>1, <2>3 DEF Range
  <2> QED BY <1>2, <2>2, <2>3
<1>7. ASSUME IsInjective(s), x \notin Range(s) PROVE IsInjective(t)
  BY <1>2, <1>7 DEF IsInjective, Range
<1> QED BY <1>1, <1>5, <1>6, <1>7 DEF t

(* Events in order are different.                                          *)
LEMMA RisingOnce ==
  ASSUME NEW s \in Seq(Nat), Rising(s)
  PROVE  IsInjective(s) /\ Range(s) \subseteq Nat
<1>1. DOMAIN s \subseteq Nat /\ \A i \in DOMAIN s : s[i] \in Nat
  BY LenProperties, ElementOfSeq
<1>2. ASSUME NEW i \in DOMAIN s, NEW j \in DOMAIN s, s[i] = s[j] PROVE i = j
  <2>1. ~(i < j) /\ ~(j < i)
    BY <1>1, <1>2 DEF Rising
  <2> QED BY <1>1, <2>1
<1> QED BY <1>1, <1>2 DEF IsInjective, Range

-----------------------------------------------------------------------------
(* The inductive invariant of the events: those that were handled and      *)
(* those that wait are in order, all that were pushed back before all of   *)
(* the system's queue, and every event has one place.                      *)

Pushed == Range(Waiting(pushed, MAX_PUSHED_EVENTS))
Queued == Range(Waiting(eventQue, MAX_QUED_EVENTS))
Held(ls) == {ls[i].event : i \in DOMAIN ls} \ {0}

OrderOK ==
    /\ arrived \in Nat
    /\ QueueOK(pushed, MAX_PUSHED_EVENTS) /\ QueueOK(eventQue, MAX_QUED_EVENTS)
    /\ handled \in Seq(Nat) /\ Rising(handled)
    /\ Rising(Waiting(pushed, MAX_PUSHED_EVENTS))
    /\ Rising(Waiting(eventQue, MAX_QUED_EVENTS))
    /\ AllBelow(Range(handled), Pushed) /\ AllBelow(Range(handled), Queued)
    /\ AllBelow(Pushed, Queued)
    /\ Range(handled) \union Pushed \union Queued \subseteq 1 .. arrived

PlacesOK ==
    /\ freed \in Seq(Nat) /\ IsInjective(freed)
    /\ Range(freed) \intersect (Queued \union Pushed \union Held(loops) \union leaked) = {}
    /\ Queued \intersect (Pushed \union Held(loops) \union leaked) = {}
    /\ Pushed \intersect (Held(loops) \union leaked) = {}
    /\ Held(loops) \intersect leaked = {}
    /\ Range(freed) \union Queued \union Pushed \union Held(loops) \union leaked
         = 1 .. arrived

Phases == {"events", "commands", "server", "events again", "commands again",
           "client"}
LoopRecords == [at : {"event", "client", "server"},
                code : {"none", "client", "server"},
                event : Nat, nested : BOOLEAN]

(* A loop holds an event while it runs the event's handler.                *)
HoldsRightly(r) == r.event = 0 <=> r.at # "event" \/ r.code = "none"

LoopsOK(ls) ==
    /\ ls \in Seq(LoopRecords)
    /\ \A i \in DOMAIN ls : HoldsRightly(ls[i])
    /\ \A i, j \in DOMAIN ls :
         ls[i].event = ls[j].event /\ ls[i].event # 0 => i = j

ControlOK ==
    /\ phase \in Phases /\ sv_running \in BOOLEAN
    /\ LoopsOK(loops) /\ Len(loops) <= MaxDepth
    /\ InCommands \/ phase = "server" => loops = <<>>

-----------------------------------------------------------------------------
(* What the steps that move events do to them.                             *)

(* Adding later events to a ring: it keeps some and frees the others.      *)
LEMMA AddedInOrder ==
  ASSUME NEW size \in Nat \ {0}, NEW q, QueueOK(q.ring, size),
         Rising(Waiting(q.ring, size)),
         NEW events \in Seq(Nat), Rising(events),
         AllBelow(Range(Waiting(q.ring, size)), Range(events)),
         q.freed \in Seq(Nat)
  PROVE  LET all == Range(Waiting(q.ring, size)) \union Range(events)
             added == AddEvents(q, events, size)
             kept == Range(Waiting(added.ring, size))
         IN /\ QueueOK(added.ring, size) /\ Rising(Waiting(added.ring, size))
            /\ kept \subseteq all
            /\ added.freed \in Seq(Nat)
            /\ Range(added.freed) = Range(q.freed) \union (all \ kept)
            /\ IsInjective(q.freed) /\ Range(q.freed) \intersect all = {}
                 => IsInjective(added.freed)
<1> DEFINE w == Waiting(q.ring, size)
           all == w \o events
           added == AddEvents(q, events, size)
<1>1. w \in Seq(Nat)
  BY WaitingIs
<1>2. /\ all \in Seq(Nat) /\ Range(all) = Range(w) \union Range(events)
      /\ Rising(all)
  <2> HIDE DEF w
  <2>1. Rising(w) /\ AllBelow(Range(w), Range(events))
    BY DEF w
  <2> QED BY <1>1, <2>1, Joined
<1>3. QueueOK(added.ring, size)
  BY EventsAdded
<1>4. KeepsLast(all, Waiting(added.ring, size), added.freed, q.freed)
  BY EventsAdded
<1>5. PICK lost \in 0 .. Len(all) :
        /\ Waiting(added.ring, size) = SubSeq(all, lost + 1, Len(all))
        /\ added.freed = q.freed \o SubSeq(all, 1, lost)
  <2> HIDE DEF all, added
  <2> QED BY <1>4 DEF KeepsLast
<1> DEFINE front == SubSeq(all, 1, lost)
           rest == SubSeq(all, lost + 1, Len(all))
<1>6. /\ front \in Seq(Nat) /\ rest \in Seq(Nat) /\ Rising(front) /\ Rising(rest)
      /\ Range(all) = Range(front) \union Range(rest)
      /\ AllBelow(Range(front), Range(rest))
  <2> HIDE DEF all
  <2> QED BY <1>2, CutInTwo
<1>7. Waiting(added.ring, size) = rest /\ added.freed = q.freed \o front
  BY <1>5
<1> HIDE DEF w, all, added, front, rest
<1>8. IsInjective(front) /\ Range(front) \subseteq Nat
  BY <1>6, RisingOnce
<1>9. Range(front) \intersect Range(rest) = {}
  <2>1. \A x \in Range(front) : ~(x < x)
    BY <1>8
  <2> QED BY <1>6, <2>1 DEF AllBelow
<1>10. /\ added.freed \in Seq(Nat)
       /\ Range(added.freed) = Range(q.freed) \union Range(front)
       /\ IsInjective(q.freed) /\ Range(q.freed) \intersect Range(front) = {}
            => IsInjective(added.freed)
  BY <1>6, <1>7, <1>8, Joined
<1>11. Range(front) = Range(all) \ Range(rest) /\ Range(rest) \subseteq Range(all)
  BY <1>6, <1>9
<1> DEFINE before == Range(w) \union Range(events)
           kept == Range(Waiting(added.ring, size))
<1>12. /\ QueueOK(added.ring, size) /\ Rising(Waiting(added.ring, size))
       /\ kept \subseteq before /\ added.freed \in Seq(Nat)
  BY <1>2, <1>3, <1>6, <1>7, <1>10, <1>11
<1>13. Range(front) = before \ kept
  BY <1>2, <1>7, <1>11
<1>14. Range(added.freed) = Range(q.freed) \union (before \ kept)
  BY <1>10, <1>13
<1>15. IsInjective(q.freed) /\ Range(q.freed) \intersect before = {}
         => IsInjective(added.freed)
  BY <1>10, <1>13
<1> HIDE DEF before, kept
<1> QED BY <1>12, <1>14, <1>15 DEF w, added, before, kept

(* The events that arrive are later than all before them.                  *)
LEMMA NewEvents ==
  ASSUME NEW n \in Nat, NEW count \in Nat
  PROVE  LET events == [i \in 1 .. count |-> n + i]
         IN /\ events \in Seq(Nat) /\ Rising(events)
            /\ Range(events) = n + 1 .. n + count
<1> DEFINE events == [i \in 1 .. count |-> n + i]
<1>1. \A i \in 1 .. count : n + i \in Nat /\ n + i \in n + 1 .. n + count
  OBVIOUS
<1>2. events \in [1 .. count -> Nat]
  BY <1>1
<1>3. events \in Seq(Nat)
  <2> HIDE DEF events
  <2> QED BY <1>2, FunctionIsSeq
<1>4. Rising(events)
  BY DEF Rising
<1>5. Range(events) = n + 1 .. n + count
  <2>1. Range(events) \subseteq n + 1 .. n + count
    BY <1>1 DEF Range
  <2>2. ASSUME NEW x \in n + 1 .. n + count PROVE x \in Range(events)
    <3>1. x - n \in 1 .. count /\ n + (x - n) = x
      OBVIOUS
    <3> QED BY <3>1 DEF Range
  <2> QED BY <2>1, <2>2
<1> QED BY <1>3, <1>4, <1>5

(* Polling the system adds the events that arrive to its queue.            *)
LEMMA Polled ==
  ASSUME NEW ring, QueueOK(ring, MAX_QUED_EVENTS),
         Rising(Waiting(ring, MAX_QUED_EVENTS)),
         arrived \in Nat, freed \in Seq(Nat), IsInjective(freed),
         Range(Waiting(ring, MAX_QUED_EVENTS)) \subseteq 1 .. arrived,
         Range(freed) \subseteq 1 .. arrived,
         Range(freed) \intersect Range(Waiting(ring, MAX_QUED_EVENTS)) = {},
         NEW count \in Nat
  PROVE  LET all == Range(Waiting(ring, MAX_QUED_EVENTS))
                      \union (arrived + 1 .. arrived + count)
             polled == QueEvents(ring, count)
             kept == Range(Waiting(polled.ring, MAX_QUED_EVENTS))
         IN /\ QueueOK(polled.ring, MAX_QUED_EVENTS)
            /\ Rising(Waiting(polled.ring, MAX_QUED_EVENTS))
            /\ kept \subseteq all
            /\ polled.freed \in Seq(Nat) /\ IsInjective(polled.freed)
            /\ Range(polled.freed) = Range(freed) \union (all \ kept)
            /\ all \intersect Range(freed) = {}
<1> DEFINE events == [i \in 1 .. count |-> arrived + i]
           q == [ring |-> ring, freed |-> freed]
<1>1. /\ events \in Seq(Nat) /\ Rising(events)
      /\ Range(events) = arrived + 1 .. arrived + count
  BY NewEvents
<1>2. MAX_QUED_EVENTS \in Nat \ {0} /\ q.ring = ring /\ q.freed = freed
  BY RingsAssumption
<1>3. QueEvents(ring, count) = AddEvents(q, events, MAX_QUED_EVENTS)
  BY DEF QueEvents
<1> HIDE DEF events, q
<1>4. AllBelow(Range(Waiting(ring, MAX_QUED_EVENTS)), Range(events))
  BY <1>1 DEF AllBelow
<1>5. Range(freed) \intersect (arrived + 1 .. arrived + count) = {}
  OBVIOUS
<1>6. /\ Range(q.freed) \intersect
           (Range(Waiting(q.ring, MAX_QUED_EVENTS)) \union Range(events)) = {}
      /\ IsInjective(q.freed)
  BY <1>1, <1>2, <1>5
<1>7. LET all == Range(Waiting(q.ring, MAX_QUED_EVENTS)) \union Range(events)
          added == AddEvents(q, events, MAX_QUED_EVENTS)
          kept == Range(Waiting(added.ring, MAX_QUED_EVENTS))
      IN /\ QueueOK(added.ring, MAX_QUED_EVENTS)
         /\ Rising(Waiting(added.ring, MAX_QUED_EVENTS))
         /\ kept \subseteq all
         /\ added.freed \in Seq(Nat)
         /\ Range(added.freed) = Range(q.freed) \union (all \ kept)
         /\ IsInjective(q.freed) /\ Range(q.freed) \intersect all = {}
              => IsInjective(added.freed)
  <2>1. QueueOK(q.ring, MAX_QUED_EVENTS) /\ Rising(Waiting(q.ring, MAX_QUED_EVENTS))
        /\ AllBelow(Range(Waiting(q.ring, MAX_QUED_EVENTS)), Range(events))
        /\ q.freed \in Seq(Nat)
    BY <1>2, <1>4
  <2> QED BY <1>1, <1>2, <2>1, AddedInOrder
<1> QED BY <1>1, <1>2, <1>3, <1>5, <1>6, <1>7

-----------------------------------------------------------------------------
(* What happens to the event loops that run inside each other.             *)

(* The innermost loop goes on to another place, or takes or releases an    *)
(* event.                                                                  *)
LEMMA TopChanged ==
  ASSUME NEW ls, LoopsOK(ls), ls # <<>>,
         NEW r \in LoopRecords, HoldsRightly(r),
         r.event \in Held(ls) => r.event = ls[Len(ls)].event
  PROVE  LET new == [ls EXCEPT ![Len(ls)] = r]
         IN /\ LoopsOK(new) /\ Len(new) = Len(ls)
            /\ \A i \in DOMAIN ls : new[i] = IF i = Len(ls) THEN r ELSE ls[i]
            /\ Held(new) = (Held(ls) \ {ls[Len(ls)].event})
                             \union ({r.event} \ {0})
<1> DEFINE n == Len(ls)
           new == [ls EXCEPT ![n] = r]
<1>1. ls \in Seq(LoopRecords)
  BY DEF LoopsOK
<1>2. n \in Nat \ {0} /\ DOMAIN ls = 1 .. n /\ n \in DOMAIN ls
  BY <1>1, LenProperties, EmptySeq
<1>3. \A i \in DOMAIN ls : ls[i] \in LoopRecords
  BY <1>1, <1>2, ElementOfSeq
<1>4. /\ new \in Seq(LoopRecords) /\ Len(new) = n
      /\ \A i \in DOMAIN ls : new[i] = IF i = n THEN r ELSE ls[i]
  <2>1. new \in [1 .. n -> LoopRecords]
    BY <1>2, <1>3
  <2>2. \A i \in DOMAIN ls : new[i] = IF i = n THEN r ELSE ls[i]
    BY <1>2
  <2> HIDE DEF new
  <2> QED BY <1>2, <2>1, <2>2, FunctionIsSeq
<1>5. DOMAIN new = DOMAIN ls
  BY <1>2
<1> HIDE DEF n, new
<1>6. \A i \in DOMAIN ls : HoldsRightly(ls[i])
  BY DEF LoopsOK
<1>7. \A i, j \in DOMAIN ls : ls[i].event = ls[j].event /\ ls[i].event # 0 => i = j
  BY DEF LoopsOK
<1>8. \A i \in DOMAIN ls : ls[i].event # 0 => ls[i].event \in Held(ls)
  BY DEF Held
<1>9. \A i \in DOMAIN new : HoldsRightly(new[i])
  BY <1>4, <1>5, <1>6
<1>10. r.event \in Held(ls) => r.event = ls[n].event
  BY DEF n
<1>11. ASSUME NEW i \in DOMAIN new, NEW j \in DOMAIN new,
              new[i].event = new[j].event, new[i].event # 0
       PROVE  i = j
  <2>1. ASSUME NEW k \in DOMAIN ls, k # n PROVE ls[k].event # r.event \/ r.event = 0
    BY <1>2, <1>7, <1>8, <1>10, <2>1
  <2> QED BY <1>4, <1>5, <1>7, <1>11, <2>1
<1>12. LoopsOK(new)
  BY <1>4, <1>9, <1>11 DEF LoopsOK
<1>13. Held(new) = (Held(ls) \ {ls[n].event}) \union ({r.event} \ {0})
  <2>1. ASSUME NEW x \in Held(new)
        PROVE  x \in (Held(ls) \ {ls[n].event}) \union ({r.event} \ {0})
    <3>1. PICK i \in DOMAIN new : x = new[i].event /\ x # 0
      BY DEF Held
    <3>2. CASE i = n
      BY <1>2, <1>4, <3>1, <3>2
    <3>3. CASE i # n
      <4>1. x = ls[i].event /\ i \in DOMAIN ls
        BY <1>4, <1>5, <3>1, <3>3
      <4> QED BY <1>2, <1>7, <1>8, <3>1, <3>3, <4>1
    <3> QED BY <3>2, <3>3
  <2>2. ASSUME NEW x \in Held(ls), x # ls[n].event PROVE x \in Held(new)
    <3>1. PICK i \in DOMAIN ls : x = ls[i].event /\ x # 0
      BY DEF Held
    <3>2. i # n /\ x = new[i].event /\ i \in DOMAIN new
      BY <1>4, <1>5, <2>2, <3>1
    <3> QED BY <3>1, <3>2 DEF Held
  <2>3. ASSUME r.event # 0 PROVE r.event \in Held(new)
    <3>1. n \in DOMAIN new /\ new[n].event = r.event
      BY <1>2, <1>4, <1>5
    <3> QED BY <2>3, <3>1 DEF Held
  <2> QED BY <2>1, <2>2, <2>3
<1> QED BY <1>4, <1>12, <1>13 DEF n, new

(* The innermost loop returns; it holds no event.                          *)
LEMMA LoopGone ==
  ASSUME NEW ls, LoopsOK(ls), ls # <<>>, ls[Len(ls)].event = 0
  PROVE  /\ LoopsOK(Front(ls)) /\ Len(Front(ls)) = Len(ls) - 1
         /\ Held(Front(ls)) = Held(ls)
         /\ \A i \in DOMAIN Front(ls) : i \in DOMAIN ls /\ Front(ls)[i] = ls[i]
<1> DEFINE n == Len(ls)
           new == Front(ls)
<1>1. ls \in Seq(LoopRecords)
  BY DEF LoopsOK
<1>2. n \in Nat \ {0} /\ DOMAIN ls = 1 .. n /\ n \in DOMAIN ls
  BY <1>1, LenProperties, EmptySeq
<1>3. new \in Seq(LoopRecords) /\ Len(new) = n - 1
      /\ \A i \in 1 .. n - 1 : new[i] = ls[i]
  <2>1. new = SubSeq(ls, 1, n - 1)
    BY DEF Front
  <2>2. \A i \in 1 .. n - 1 : ls[i] \in LoopRecords
    BY <1>1, <1>2, ElementOfSeq
  <2> HIDE DEF n, new
  <2>3. /\ new \in Seq(LoopRecords)
        /\ Len(new) = IF 1 <= n - 1 THEN (n - 1) - 1 + 1 ELSE 0
        /\ \A i \in 1 .. (n - 1) - 1 + 1 : new[i] = ls[1 + i - 1]
    BY <1>2, <2>1, <2>2, SubSeqProperties
  <2>4. Len(new) = n - 1
    BY <1>2, <2>3
  <2> QED BY <1>2, <2>3, <2>4
<1>4. DOMAIN new = 1 .. n - 1
  <2> HIDE DEF new, n
  <2> QED BY <1>3, LenProperties
<1> HIDE DEF new, n
<1>5. \A i \in DOMAIN new : i \in DOMAIN ls /\ new[i] = ls[i]
  BY <1>2, <1>3, <1>4
<1>6. LoopsOK(new)
  BY <1>3, <1>5 DEF LoopsOK
<1>7. Held(new) = Held(ls)
  <2>1. Held(new) \subseteq Held(ls)
    BY <1>5 DEF Held
  <2>2. ASSUME NEW x \in Held(ls) PROVE x \in Held(new)
    <3>1. PICK i \in DOMAIN ls : x = ls[i].event /\ x # 0
      BY DEF Held
    <3>2. i # n
      BY <3>1 DEF n
    <3>3. i \in DOMAIN new
      BY <1>2, <1>4, <3>2
    <3> QED BY <1>5, <3>1, <3>3 DEF Held
  <2> QED BY <2>1, <2>2
<1> QED BY <1>3, <1>5, <1>6, <1>7 DEF new, n

(* A loop begins inside a handler.                                         *)
LEMMA LoopBegins ==
  ASSUME NEW ls, LoopsOK(ls)
  PROVE  /\ LoopsOK(Append(ls, Com_EventLoop))
         /\ Len(Append(ls, Com_EventLoop)) = Len(ls) + 1
         /\ Held(Append(ls, Com_EventLoop)) = Held(ls)
         /\ \A i \in DOMAIN ls : Append(ls, Com_EventLoop)[i] = ls[i]
<1> DEFINE new == Append(ls, Com_EventLoop)
           n == Len(ls)
<1>1. ls \in Seq(LoopRecords)
  BY DEF LoopsOK
<1>2. /\ Com_EventLoop \in LoopRecords /\ Com_EventLoop.event = 0
      /\ HoldsRightly(Com_EventLoop)
  BY DEF Com_EventLoop, LoopRecords, HoldsRightly
<1>3. /\ new \in Seq(LoopRecords) /\ DOMAIN ls = 1 .. n /\ n \in Nat
      /\ DOMAIN new = 1 .. n + 1
      /\ \A i \in 1 .. n : new[i] = ls[i]
      /\ new[n + 1] = Com_EventLoop
  BY <1>1, <1>2, AppendedMessage
<1>4. Len(new) = n + 1
  BY <1>1, <1>2, AppendProperties
<1> HIDE DEF new, n
<1>5. \A i \in DOMAIN new : \/ i \in DOMAIN ls /\ new[i] = ls[i]
                            \/ i = n + 1 /\ new[i] = Com_EventLoop
  BY <1>3
<1>6. \A i \in DOMAIN ls : i \in DOMAIN new /\ new[i] = ls[i]
  BY <1>3
<1>7. \A i \in DOMAIN new : HoldsRightly(new[i])
  BY <1>2, <1>5 DEF LoopsOK
<1>8. \A i, j \in DOMAIN new : new[i].event = new[j].event /\ new[i].event # 0 => i = j
  BY <1>2, <1>5 DEF LoopsOK
<1>9. Held(new) = Held(ls)
  BY <1>2, <1>5, <1>6 DEF Held
<1> QED BY <1>3, <1>4, <1>6, <1>7, <1>8, <1>9 DEF new, n, LoopsOK

(* The loops that Com_Frame starts, and none.                              *)
LEMMA FrameLoops ==
  /\ LoopsOK(<<Com_EventLoop>>) /\ Held(<<Com_EventLoop>>) = {}
  /\ Len(<<Com_EventLoop>>) = 1 /\ <<Com_EventLoop>>[1] = Com_EventLoop
  /\ LoopsOK(<<>>) /\ Held(<<>>) = {} /\ Len(<<>>) = 0
<1>1. LoopsOK(<<>>) /\ Held(<<>>) = {} /\ Len(<<>>) = 0
  BY DEF LoopsOK, Held
<1>2. Append(<<>>, Com_EventLoop) = <<Com_EventLoop>>
  OBVIOUS
<1>3. <<Com_EventLoop>>[1] = Com_EventLoop
  OBVIOUS
<1> QED BY <1>1, <1>2, <1>3, LoopBegins

-----------------------------------------------------------------------------
(* Every step keeps the order and the places of the events.                *)

FirstKept ==
    loops' # <<>> /\ loops'[1].at = "server" => loops # <<>> /\ loops[1].at = "server"

(* Facts about the innermost loop.                                         *)
LEMMA TopIs ==
  ASSUME ControlOK, loops # <<>>
  PROVE  /\ Len(loops) \in Nat \ {0} /\ DOMAIN loops = 1 .. Len(loops)
         /\ Len(loops) \in DOMAIN loops /\ 1 \in DOMAIN loops
         /\ Top \in LoopRecords /\ Top = loops[Len(loops)]
         /\ HoldsRightly(Top) /\ ~InCommands /\ phase # "server"
<1>1. loops \in Seq(LoopRecords) /\ \A i \in DOMAIN loops : HoldsRightly(loops[i])
  BY DEF ControlOK, LoopsOK
<1>2. Len(loops) \in Nat \ {0} /\ DOMAIN loops = 1 .. Len(loops)
  BY <1>1, LenProperties, EmptySeq
<1>3. Len(loops) \in DOMAIN loops /\ 1 \in DOMAIN loops
  BY <1>2
<1>4. Top \in LoopRecords /\ Top = loops[Len(loops)]
  BY <1>1, <1>2, <1>3, ElementOfSeq DEF Top
<1> QED BY <1>1, <1>2, <1>3, <1>4 DEF ControlOK

(* A step of the innermost loop.                                           *)
LEMMA TopStep ==
  ASSUME ControlOK, loops # <<>>, NEW r \in LoopRecords, HoldsRightly(r),
         r.event \in Held(loops) => r.event = Top.event,
         loops' = [loops EXCEPT ![Len(loops)] = r],
         r.at = "server" => Top.at = "server" \/ Len(loops) > 1,
         UNCHANGED <<phase, sv_running>>
  PROVE  /\ ControlOK' /\ FirstKept
         /\ Held(loops') = (Held(loops) \ {Top.event}) \union ({r.event} \ {0})
<1>1. /\ Len(loops) \in Nat \ {0} /\ 1 \in DOMAIN loops
      /\ Top = loops[Len(loops)] /\ ~InCommands /\ phase # "server"
  BY TopIs
<1>2. LoopsOK(loops) /\ Len(loops) <= MaxDepth /\ phase \in Phases /\ sv_running \in BOOLEAN
  BY DEF ControlOK
<1> DEFINE new == [loops EXCEPT ![Len(loops)] = r]
<1>3. /\ LoopsOK(new) /\ Len(new) = Len(loops)
      /\ \A i \in DOMAIN loops : new[i] = IF i = Len(loops) THEN r ELSE loops[i]
      /\ Held(new) = (Held(loops) \ {Top.event}) \union ({r.event} \ {0})
  BY <1>1, <1>2, TopChanged
<1>4. loops' = new
  OBVIOUS
<1> HIDE DEF new
<1>5. ControlOK'
  <2>1. ~InCommands' /\ phase' # "server"
    BY <1>1 DEF InCommands
  <2> QED BY <1>2, <1>3, <1>4, <2>1 DEF ControlOK
<1>6. FirstKept
  <2>1. CASE Len(loops) = 1
    BY <1>1, <1>3, <1>4, <2>1 DEF FirstKept
  <2>2. CASE Len(loops) # 1
    BY <1>1, <1>3, <1>4, <2>2 DEF FirstKept
  <2> QED BY <2>1, <2>2
<1> QED BY <1>3, <1>4, <1>5, <1>6

(* An event is given to its handler.                                       *)
LEMMA HandleStep ==
  ASSUME ControlOK, loops # <<>>, Top.at = "event", Top.code = "none",
         NEW e \in Nat \ {0}, e \notin Held(loops), Handle(e),
         UNCHANGED <<phase, sv_running>>
  PROVE  /\ ControlOK' /\ FirstKept
         /\ Held(loops') = Held(loops) \union {e}
         /\ handled' = Append(handled, e)
<1>1. PICK code \in {"client", "server"} :
        loops' = [loops EXCEPT ![Len(loops)] =
                    [loops[Len(loops)] EXCEPT !.code = code, !.event = e]]
  BY DEF Handle
<1>2. /\ Top \in LoopRecords /\ Top = loops[Len(loops)] /\ HoldsRightly(Top)
  BY TopIs
<1> DEFINE r == [Top EXCEPT !.code = code, !.event = e]
<1>3. /\ r \in LoopRecords /\ r.at = "event" /\ r.code = code /\ r.event = e
  BY <1>2 DEF LoopRecords
<1>4. loops' = [loops EXCEPT ![Len(loops)] = r]
  BY <1>1, <1>2
<1> HIDE DEF r
<1>5. HoldsRightly(r)
  BY <1>3 DEF HoldsRightly
<1>6. Top.event = 0
  BY <1>2 DEF HoldsRightly
<1>7. /\ ControlOK' /\ FirstKept
      /\ Held(loops') = (Held(loops) \ {Top.event}) \union ({r.event} \ {0})
  BY <1>3, <1>4, <1>5, TopStep
<1>8. 0 \notin Held(loops)
  BY DEF Held
<1>9. Held(loops') = Held(loops) \union {e}
  BY <1>3, <1>6, <1>7, <1>8
<1>10. handled' = Append(handled, e)
  BY DEF Handle
<1> QED BY <1>7, <1>9, <1>10

(* What the places say of the two rings.                                   *)
LEMMA Places ==
  ASSUME OrderOK, PlacesOK
  PROVE  /\ Pushed \subseteq 1 .. arrived /\ Queued \subseteq 1 .. arrived
         /\ Range(freed) \subseteq 1 .. arrived /\ Held(loops) \subseteq 1 .. arrived
         /\ leaked \subseteq 1 .. arrived
         /\ freed \in Seq(Nat) /\ IsInjective(freed)
         /\ Range(freed) \intersect Queued = {}
         /\ Range(freed) \intersect Pushed = {} /\ Queued \intersect Pushed = {}
BY DEF PlacesOK

(* An event that was pushed back is handled.                               *)
LEMMA PushedHandled ==
  ASSUME ControlOK, OrderOK, PlacesOK, loops # <<>>,
         Top.at = "event", Top.code = "none", TakesPushed,
         Handle(First(pushed, MAX_PUSHED_EVENTS)), pushed' = Next1(pushed),
         UNCHANGED <<eventQue, arrived, freed, leaked, phase, sv_running>>
  PROVE  ControlOK' /\ FirstKept /\ OrderOK' /\ PlacesOK'
<1> DEFINE w == Waiting(pushed, MAX_PUSHED_EVENTS)
           e == First(pushed, MAX_PUSHED_EVENTS)
<1>1. /\ arrived \in Nat
      /\ QueueOK(pushed, MAX_PUSHED_EVENTS) /\ QueueOK(eventQue, MAX_QUED_EVENTS)
      /\ handled \in Seq(Nat) /\ Rising(handled) /\ Rising(w)
      /\ Rising(Waiting(eventQue, MAX_QUED_EVENTS))
      /\ AllBelow(Range(handled), Pushed) /\ AllBelow(Range(handled), Queued)
      /\ AllBelow(Pushed, Queued)
      /\ Range(handled) \union Pushed \union Queued \subseteq 1 .. arrived
  BY DEF OrderOK
<1>2. MAX_PUSHED_EVENTS \in Nat \ {0}
  BY RingsAssumption
<1>3. ~IsEmpty(pushed)
  BY <1>1 DEF IsEmpty, TakesPushed, QueueOK, EventRings
<1>4. /\ QueueOK(Next1(pushed), MAX_PUSHED_EVENTS) /\ w # <<>> /\ e = Head(w)
      /\ Waiting(Next1(pushed), MAX_PUSHED_EVENTS) = Tail(w)
  BY <1>1, <1>2, <1>3, EventTaken
<1>5. w \in Seq(Nat)
  BY <1>1, <1>2, WaitingIs
<1>6. Pushed = Range(w) /\ Pushed' = Range(Tail(w)) /\ Queued' = Queued
  BY <1>4 DEF Pushed, Queued
<1> HIDE DEF w, e
<1>7. /\ e \in Nat /\ Rising(Tail(w)) /\ Pushed = {e} \union Pushed'
      /\ \A x \in Pushed' : e < x
  BY <1>1, <1>4, <1>5, <1>6, HeadAndTail
<1>8. e \notin Pushed'
  <2>1. ~(e < e)
    BY <1>7
  <2> QED BY <1>7, <2>1
<1>9. e \notin Held(loops) /\ e # 0
  <2>1. e \in Pushed /\ Pushed \intersect Held(loops) = {}
    BY <1>7 DEF PlacesOK
  <2> QED BY <1>1, <2>1
<1>10. /\ ControlOK' /\ FirstKept
       /\ Held(loops') = Held(loops) \union {e} /\ handled' = Append(handled, e)
  <2>1. Handle(e)
    BY DEF e
  <2> QED BY <1>7, <1>9, <2>1, HandleStep
<1>11. /\ handled' \in Seq(Nat) /\ Range(handled') = Range(handled) \union {e}
       /\ Rising(handled')
  <2>1. \A y \in Range(handled) : y < e
    BY <1>1, <1>7 DEF AllBelow
  <2> QED BY <1>1, <1>7, <1>10, <2>1, OneMore
<1>12. /\ AllBelow(Range(handled'), Pushed') /\ AllBelow(Range(handled'), Queued')
       /\ AllBelow(Pushed', Queued')
  BY <1>1, <1>6, <1>7, <1>11 DEF AllBelow
<1>13. Range(handled') \union Pushed' \union Queued' \subseteq 1 .. arrived'
  BY <1>1, <1>6, <1>7, <1>11
<1>14. OrderOK'
  <2>1. Rising(Waiting(pushed', MAX_PUSHED_EVENTS)) /\ QueueOK(pushed', MAX_PUSHED_EVENTS)
    BY <1>4, <1>7
  <2> QED BY <1>1, <1>11, <1>12, <1>13, <2>1 DEF OrderOK
<1>15. PlacesOK'
  <2>1. /\ freed \in Seq(Nat) /\ IsInjective(freed)
        /\ Range(freed) \intersect (Queued \union Pushed \union Held(loops) \union leaked) = {}
        /\ Queued \intersect (Pushed \union Held(loops) \union leaked) = {}
        /\ Pushed \intersect (Held(loops) \union leaked) = {}
        /\ Held(loops) \intersect leaked = {}
        /\ Range(freed) \union Queued \union Pushed \union Held(loops) \union leaked
             = 1 .. arrived
    BY DEF PlacesOK
  <2>2. Range(freed') = Range(freed) /\ leaked' = leaked /\ arrived' = arrived
    OBVIOUS
  <2> HIDE DEF w, e
  <2>3. /\ Range(freed') \intersect (Queued' \union Pushed' \union Held(loops') \union leaked') = {}
        /\ Queued' \intersect (Pushed' \union Held(loops') \union leaked') = {}
        /\ Pushed' \intersect (Held(loops') \union leaked') = {}
        /\ Held(loops') \intersect leaked' = {}
        /\ Range(freed') \union Queued' \union Pushed' \union Held(loops') \union leaked'
             = 1 .. arrived'
    BY <1>6, <1>7, <1>8, <1>10, <2>1, <2>2
  <2> QED BY <2>1, <2>3 DEF PlacesOK
<1> QED BY <1>10, <1>14, <1>15

(* The system is polled, and the first event that waits there is handled.  *)
LEMMA PolledHandled ==
  ASSUME ControlOK, OrderOK, PlacesOK, loops # <<>>,
         Top.at = "event", Top.code = "none", ~TakesPushed,
         NEW count \in Nat, NEW polled, polled = QueEvents(eventQue, count),
         arrived' = arrived + count, freed' = polled.freed,
         ~IsEmpty(polled.ring),
         Handle(First(polled.ring, MAX_QUED_EVENTS)),
         eventQue' = Next1(polled.ring),
         UNCHANGED <<pushed, leaked, phase, sv_running>>
  PROVE  ControlOK' /\ FirstKept /\ OrderOK' /\ PlacesOK'
<1> DEFINE w == Waiting(polled.ring, MAX_QUED_EVENTS)
           e == First(polled.ring, MAX_QUED_EVENTS)
           all == Queued \union (arrived + 1 .. arrived + count)
<1>1. /\ arrived \in Nat
      /\ QueueOK(pushed, MAX_PUSHED_EVENTS) /\ QueueOK(eventQue, MAX_QUED_EVENTS)
      /\ handled \in Seq(Nat) /\ Rising(handled)
      /\ Rising(Waiting(pushed, MAX_PUSHED_EVENTS))
      /\ Rising(Waiting(eventQue, MAX_QUED_EVENTS))
      /\ AllBelow(Range(handled), Pushed) /\ AllBelow(Range(handled), Queued)
      /\ AllBelow(Pushed, Queued)
      /\ Range(handled) \union Pushed \union Queued \subseteq 1 .. arrived
  BY DEF OrderOK
<1>2. MAX_QUED_EVENTS \in Nat \ {0} /\ MAX_PUSHED_EVENTS \in Nat \ {0}
  BY RingsAssumption
<1>3. /\ QueueOK(polled.ring, MAX_QUED_EVENTS) /\ Rising(w)
      /\ Range(w) \subseteq all
      /\ freed' \in Seq(Nat) /\ IsInjective(freed')
      /\ Range(freed') = Range(freed) \union (all \ Range(w))
      /\ all \intersect Range(freed) = {}
  BY <1>1, Places, Polled DEF Queued
<1>4. /\ QueueOK(Next1(polled.ring), MAX_QUED_EVENTS) /\ w # <<>> /\ e = Head(w)
      /\ Waiting(Next1(polled.ring), MAX_QUED_EVENTS) = Tail(w)
  BY <1>2, <1>3, EventTaken
<1>5. w \in Seq(Nat)
  BY <1>2, <1>3, WaitingIs
<1>6. Queued' = Range(Tail(w)) /\ Pushed' = Pushed
  BY <1>4 DEF Pushed, Queued
<1>7. Pushed = {}
  <2>1. ~(pushed.head > pushed.tail) /\ QueueOK(pushed, MAX_PUSHED_EVENTS)
    BY <1>1 DEF TakesPushed
  <2>2. Waiting(pushed, MAX_PUSHED_EVENTS) \in Seq(Nat)
        /\ Len(Waiting(pushed, MAX_PUSHED_EVENTS)) = pushed.head - pushed.tail
    BY <1>2, <2>1, WaitingIs
  <2>3. pushed.head = pushed.tail /\ pushed.head \in Nat
    BY <2>1 DEF QueueOK, EventRings
  <2>4. Len(Waiting(pushed, MAX_PUSHED_EVENTS)) = 0
    BY <2>2, <2>3
  <2>5. Waiting(pushed, MAX_PUSHED_EVENTS) = <<>>
    BY <2>2, <2>4, EmptySeq
  <2> QED BY <2>5 DEF Pushed, Range
<1> HIDE DEF w, e
<1>8. /\ e \in Nat /\ Rising(Tail(w)) /\ Range(w) = {e} \union Queued'
      /\ \A x \in Queued' : e < x
  BY <1>3, <1>4, <1>5, <1>6, HeadAndTail
<1>9. e \notin Queued'
  <2>1. ~(e < e)
    BY <1>8
  <2> QED BY <1>8, <2>1
<1>10. all \subseteq 1 .. arrived' /\ \A x \in Range(handled), y \in all : x < y
  <2>1. \A x \in Range(handled) : x \in Nat /\ x <= arrived
    BY <1>1
  <2>2. \A x \in Range(handled), y \in Queued : x < y
    BY <1>1 DEF AllBelow
  <2>3. Queued \subseteq 1 .. arrived
    BY <1>1
  <2>4. \A y \in arrived + 1 .. arrived + count : y \in Nat /\ arrived < y
    BY <1>1
  <2>5. \A x \in Range(handled), y \in arrived + 1 .. arrived + count : x < y
    BY <1>1, <2>1, <2>4
  <2>6. 1 .. arrived \subseteq 1 .. arrived + count
    BY <1>1
  <2>7. arrived + 1 .. arrived + count \subseteq 1 .. arrived + count
    BY <1>1
  <2> QED BY <2>2, <2>3, <2>5, <2>6, <2>7
<1>11. e \in all /\ Queued' \subseteq all
  BY <1>3, <1>8
<1>12. PlacesOK
  OBVIOUS
<1>13. /\ Range(freed) \intersect (Queued \union Pushed \union Held(loops) \union leaked) = {}
       /\ Queued \intersect (Pushed \union Held(loops) \union leaked) = {}
       /\ Pushed \intersect (Held(loops) \union leaked) = {}
       /\ Held(loops) \intersect leaked = {}
       /\ Range(freed) \union Queued \union Pushed \union Held(loops) \union leaked
            = 1 .. arrived
  BY <1>12 DEF PlacesOK
<1>14. (1 .. arrived) \intersect (arrived + 1 .. arrived + count) = {}
       /\ 1 .. arrived' = (1 .. arrived) \union (arrived + 1 .. arrived + count)
  BY <1>1
<1>15. e \notin Held(loops) /\ e # 0
  <2>1. e # 0
    BY <1>10, <1>11
  <2> QED BY <1>11, <1>13, <1>14, <2>1
<1>16. /\ ControlOK' /\ FirstKept
       /\ Held(loops') = Held(loops) \union {e} /\ handled' = Append(handled, e)
  <2>1. Handle(e)
    BY DEF e
  <2> QED BY <1>8, <1>15, <2>1, HandleStep
<1>17. /\ handled' \in Seq(Nat) /\ Range(handled') = Range(handled) \union {e}
       /\ Rising(handled')
  <2>1. \A y \in Range(handled) : y < e
    BY <1>10, <1>11
  <2> QED BY <1>1, <1>8, <1>16, <2>1, OneMore
<1> HIDE DEF all
<1>18. /\ AllBelow(Range(handled'), Pushed') /\ AllBelow(Range(handled'), Queued')
       /\ AllBelow(Pushed', Queued')
  BY <1>6, <1>7, <1>8, <1>10, <1>11, <1>17 DEF AllBelow
<1>19. Range(handled') \union Pushed' \union Queued' \subseteq 1 .. arrived'
  BY <1>1, <1>6, <1>7, <1>10, <1>11, <1>14, <1>17
<1>20. OrderOK'
  <2>1. Rising(Waiting(eventQue', MAX_QUED_EVENTS)) /\ QueueOK(eventQue', MAX_QUED_EVENTS)
    BY <1>4, <1>8
  <2>2. arrived' \in Nat
    BY <1>1
  <2> QED BY <1>1, <1>17, <1>18, <1>19, <2>1, <2>2 DEF OrderOK
<1>21. PlacesOK'
  <2>1. leaked' = leaked
    OBVIOUS
  <2>2. Range(w) = {e} \union Queued'
    BY <1>8
  <2>3. all = Queued \union (arrived + 1 .. arrived + count)
    BY DEF all
  <2>4. /\ Range(freed') \intersect (Queued' \union Pushed' \union Held(loops') \union leaked') = {}
        /\ Queued' \intersect (Pushed' \union Held(loops') \union leaked') = {}
        /\ Pushed' \intersect (Held(loops') \union leaked') = {}
        /\ Held(loops') \intersect leaked' = {}
    BY <1>3, <1>6, <1>7, <1>9, <1>11, <1>13, <1>14, <1>15, <1>16, <2>1, <2>2, <2>3
  <2>5. Range(freed') \union Queued' \union Pushed' \union Held(loops') \union leaked'
          = 1 .. arrived'
    BY <1>3, <1>6, <1>7, <1>11, <1>13, <1>14, <1>16, <2>1, <2>2, <2>3
  <2> QED BY <1>3, <2>4, <2>5 DEF PlacesOK
<1> QED BY <1>16, <1>20, <1>21

(* The clock is read: all events are pushed back.                          *)
LEMMA PushedBack ==
  ASSUME OrderOK, PlacesOK, Com_Milliseconds
  PROVE  OrderOK' /\ PlacesOK'
<1>1. /\ arrived \in Nat
      /\ QueueOK(pushed, MAX_PUSHED_EVENTS) /\ QueueOK(eventQue, MAX_QUED_EVENTS)
      /\ handled \in Seq(Nat) /\ Rising(handled)
      /\ Rising(Waiting(pushed, MAX_PUSHED_EVENTS))
      /\ Rising(Waiting(eventQue, MAX_QUED_EVENTS))
      /\ AllBelow(Range(handled), Pushed) /\ AllBelow(Range(handled), Queued)
      /\ AllBelow(Pushed, Queued)
      /\ Range(handled) \union Pushed \union Queued \subseteq 1 .. arrived
  BY DEF OrderOK
<1>2. /\ MAX_QUED_EVENTS \in Nat \ {0} /\ MAX_PUSHED_EVENTS \in Nat \ {0}
      /\ MaxEvents \in Nat
  BY RingsAssumption, BoundsAssumption
<1>3. PICK count \in 0 .. MaxEvents - arrived :
        LET polled == QueEvents([eventQue EXCEPT !.tail = eventQue.head], count)
            events == Waiting(eventQue, MAX_QUED_EVENTS)
                        \o Waiting(polled.ring, MAX_QUED_EVENTS)
        IN /\ events # <<>>
           /\ arrived' = arrived + count
           /\ eventQue' = [polled.ring EXCEPT !.tail = polled.ring.head]
           /\ freed' = PushEvents(polled.freed, events).freed
           /\ pushed' = PushEvents(polled.freed, events).ring
  BY DEF Com_Milliseconds
<1>4. count \in Nat
  BY <1>1, <1>2
<1> DEFINE emptied == [eventQue EXCEPT !.tail = eventQue.head]
           polled == QueEvents(emptied, count)
           w == Waiting(eventQue, MAX_QUED_EVENTS)
           new == Waiting(polled.ring, MAX_QUED_EVENTS)
           events == w \o new
           arriving == arrived + 1 .. arrived + count
<1>5. /\ arrived' = arrived + count
      /\ eventQue' = [polled.ring EXCEPT !.tail = polled.ring.head]
      /\ freed' = PushEvents(polled.freed, events).freed
      /\ pushed' = PushEvents(polled.freed, events).ring
  BY <1>3
<1>6. UNCHANGED <<leaked, loops, handled>>
  BY DEF Com_Milliseconds, frameVars
<1>7. QueueOK(emptied, MAX_QUED_EVENTS) /\ Waiting(emptied, MAX_QUED_EVENTS) = <<>>
  BY <1>1, <1>2, EmptiedRing
<1> HIDE DEF emptied
<1>8. /\ Rising(Waiting(emptied, MAX_QUED_EVENTS))
      /\ Range(Waiting(emptied, MAX_QUED_EVENTS)) = {}
  BY <1>7 DEF Rising, Range
<1>9. /\ QueueOK(polled.ring, MAX_QUED_EVENTS) /\ Rising(new)
      /\ Range(new) \subseteq arriving
      /\ polled.freed \in Seq(Nat) /\ IsInjective(polled.freed)
      /\ Range(polled.freed) = Range(freed) \union (arriving \ Range(new))
  <2>1. /\ Range(Waiting(emptied, MAX_QUED_EVENTS)) \subseteq 1 .. arrived
        /\ Range(freed) \subseteq 1 .. arrived
        /\ Range(freed) \intersect Range(Waiting(emptied, MAX_QUED_EVENTS)) = {}
        /\ freed \in Seq(Nat) /\ IsInjective(freed)
    BY <1>8, Places
  <2>2. LET all == Range(Waiting(emptied, MAX_QUED_EVENTS)) \union arriving
            kept == Range(Waiting(polled.ring, MAX_QUED_EVENTS))
        IN /\ QueueOK(polled.ring, MAX_QUED_EVENTS)
           /\ Rising(Waiting(polled.ring, MAX_QUED_EVENTS))
           /\ kept \subseteq all
           /\ polled.freed \in Seq(Nat) /\ IsInjective(polled.freed)
           /\ Range(polled.freed) = Range(freed) \union (all \ kept)
           /\ all \intersect Range(freed) = {}
    BY <1>1, <1>4, <1>7, <1>8, <2>1, Polled
  <2>3. Range(Waiting(emptied, MAX_QUED_EVENTS)) \union arriving = arriving
    BY <1>8
  <2> HIDE DEF arriving
  <2> QED BY <2>2, <2>3
<1>10. w \in Seq(Nat) /\ new \in Seq(Nat)
  BY <1>1, <1>2, <1>9, WaitingIs
<1>11. QueueOK(eventQue', MAX_QUED_EVENTS) /\ Waiting(eventQue', MAX_QUED_EVENTS) = <<>>
  <2> HIDE DEF polled
  <2> QED BY <1>2, <1>5, <1>9, EmptiedRing
<1>12. /\ arriving \subseteq Nat /\ \A x \in arriving : arrived < x
       /\ (1 .. arrived) \intersect arriving = {}
       /\ 1 .. arrived' = (1 .. arrived) \union arriving
       /\ \A x \in 1 .. arrived, y \in arriving : x < y
  BY <1>1, <1>4, <1>5
<1>13. Queued = Range(w) /\ Queued' = {}
  BY <1>11 DEF Queued, Range
<1> HIDE DEF arriving, w, new
<1>14. /\ events \in Seq(Nat) /\ Rising(events)
       /\ Range(events) = Queued \union Range(new)
  <2>1. Rising(w)
    BY <1>1 DEF w
  <2>2. AllBelow(Range(w), Range(new))
    BY <1>1, <1>9, <1>12, <1>13 DEF AllBelow
  <2> QED BY <1>9, <1>10, <1>13, <2>1, <2>2, Joined
<1> HIDE DEF events
<1> DEFINE q == [ring |-> pushed, freed |-> polled.freed]
           added == AddEvents(q, events, MAX_PUSHED_EVENTS)
           all == Pushed \union Queued \union Range(new)
<1>15. added.ring = pushed' /\ added.freed = freed'
  BY <1>5 DEF PushEvents
<1>16. q.ring = pushed /\ q.freed = polled.freed
  OBVIOUS
<1> HIDE DEF q, polled
<1>17. /\ Range(freed) \intersect (Queued \union Pushed \union Held(loops) \union leaked) = {}
       /\ Queued \intersect (Pushed \union Held(loops) \union leaked) = {}
       /\ Pushed \intersect (Held(loops) \union leaked) = {}
       /\ Held(loops) \intersect leaked = {}
       /\ Range(freed) \union Queued \union Pushed \union Held(loops) \union leaked
            = 1 .. arrived
  BY DEF PlacesOK
<1>18. AllBelow(Pushed, Range(events))
  BY <1>1, <1>9, <1>12, <1>14 DEF AllBelow
<1>19. Range(polled.freed) \intersect all = {}
  BY <1>9, <1>12, <1>17
<1>20. /\ QueueOK(pushed', MAX_PUSHED_EVENTS)
       /\ Rising(Waiting(pushed', MAX_PUSHED_EVENTS))
       /\ Pushed' \subseteq all
       /\ freed' \in Seq(Nat) /\ IsInjective(freed')
       /\ Range(freed') = Range(polled.freed) \union (all \ Pushed')
  <2>1. /\ QueueOK(q.ring, MAX_PUSHED_EVENTS)
        /\ Rising(Waiting(q.ring, MAX_PUSHED_EVENTS))
        /\ AllBelow(Range(Waiting(q.ring, MAX_PUSHED_EVENTS)), Range(events))
        /\ q.freed \in Seq(Nat)
    BY <1>1, <1>9, <1>16, <1>18 DEF Pushed
  <2>2. LET total == Range(Waiting(q.ring, MAX_PUSHED_EVENTS)) \union Range(events)
            kept == Range(Waiting(added.ring, MAX_PUSHED_EVENTS))
        IN /\ QueueOK(added.ring, MAX_PUSHED_EVENTS)
           /\ Rising(Waiting(added.ring, MAX_PUSHED_EVENTS))
           /\ kept \subseteq total
           /\ added.freed \in Seq(Nat)
           /\ Range(added.freed) = Range(q.freed) \union (total \ kept)
           /\ IsInjective(q.freed) /\ Range(q.freed) \intersect total = {}
                => IsInjective(added.freed)
    BY <1>2, <1>14, <2>1, AddedInOrder
  <2>3. /\ Range(Waiting(q.ring, MAX_PUSHED_EVENTS)) \union Range(events) = all
        /\ Range(Waiting(added.ring, MAX_PUSHED_EVENTS)) = Pushed'
    BY <1>14, <1>15, <1>16 DEF Pushed
  <2> HIDE DEF added, all
  <2> QED BY <1>9, <1>15, <1>16, <1>19, <2>2, <2>3
<1> HIDE DEF added
<1>21. all \subseteq (1 .. arrived) \union arriving
  BY <1>1, <1>9
<1>22. AllBelow(Range(handled), all)
  BY <1>1, <1>9, <1>12 DEF AllBelow
<1> HIDE DEF all
<1>23. /\ AllBelow(Range(handled'), Pushed') /\ AllBelow(Range(handled'), Queued')
       /\ AllBelow(Pushed', Queued')
       /\ Range(handled') \union Pushed' \union Queued' \subseteq 1 .. arrived'
  BY <1>1, <1>6, <1>12, <1>13, <1>20, <1>21, <1>22 DEF AllBelow
<1>24. OrderOK'
  <2>1. arrived' \in Nat /\ Rising(Waiting(eventQue', MAX_QUED_EVENTS))
    BY <1>1, <1>4, <1>5, <1>11 DEF Rising
  <2> QED BY <1>1, <1>6, <1>11, <1>20, <1>23, <2>1 DEF OrderOK
<1>25. PlacesOK'
  <2>1. leaked' = leaked /\ Held(loops') = Held(loops)
    BY <1>6
  <2>2. all = Pushed \union Queued \union Range(new)
    BY DEF all
  <2>3. /\ Range(freed') \intersect (Queued' \union Pushed' \union Held(loops') \union leaked') = {}
        /\ Queued' \intersect (Pushed' \union Held(loops') \union leaked') = {}
        /\ Pushed' \intersect (Held(loops') \union leaked') = {}
        /\ Held(loops') \intersect leaked' = {}
    BY <1>9, <1>12, <1>13, <1>17, <1>19, <1>20, <2>1, <2>2
  <2>4. Range(freed') \union Queued' \union Pushed' \union Held(loops') \union leaked'
          = 1 .. arrived'
    BY <1>9, <1>12, <1>13, <1>17, <1>20, <2>1, <2>2
  <2> QED BY <1>20, <2>3, <2>4 DEF PlacesOK
<1> QED BY <1>24, <1>25

(* Steps that leave the events where they are.                             *)
LEMMA EventsStay ==
  ASSUME OrderOK, PlacesOK, Held(loops') = Held(loops),
         UNCHANGED <<eventQue, pushed, handled, freed, leaked, arrived>>
  PROVE  OrderOK' /\ PlacesOK'
<1>1. Pushed' = Pushed /\ Queued' = Queued
  BY DEF Pushed, Queued
<1>2. OrderOK'
  BY <1>1 DEF OrderOK
<1>3. PlacesOK'
  BY <1>1 DEF PlacesOK
<1> QED BY <1>2, <1>3

(* Nothing waits for the event loop, which goes on to the packets.         *)
LEMMA NothingPolled ==
  ASSUME ControlOK, OrderOK, PlacesOK, loops # <<>>,
         Top.at = "event", Top.code = "none",
         NEW count \in Nat, NEW polled, polled = QueEvents(eventQue, count),
         arrived' = arrived + count, freed' = polled.freed,
         IsEmpty(polled.ring), loops' = SetTop("at", "client"),
         UNCHANGED <<pushed, eventQue, handled, leaked, phase, sv_running>>
  PROVE  ControlOK' /\ FirstKept /\ OrderOK' /\ PlacesOK'
<1> DEFINE w == Waiting(eventQue, MAX_QUED_EVENTS)
           arriving == [i \in 1 .. count |-> arrived + i]
           q == [ring |-> eventQue, freed |-> freed]
           left == Waiting(polled.ring, MAX_QUED_EVENTS)
<1>1. MAX_QUED_EVENTS \in Nat \ {0} /\ QueueOK(eventQue, MAX_QUED_EVENTS)
      /\ arrived \in Nat /\ freed \in Seq(Nat)
  BY RingsAssumption, Places DEF OrderOK
<1>2. polled = AddEvents(q, arriving, MAX_QUED_EVENTS)
  BY DEF QueEvents
<1>3. arriving \in Seq(Nat) /\ Len(arriving) = count
  <2>1. arriving \in [1 .. count -> Nat]
    BY <1>1
  <2> HIDE DEF arriving
  <2> QED BY <2>1, FunctionIsSeq
<1>4. w \in Seq(Nat)
  BY <1>1, WaitingIs
<1>5. q.ring = eventQue /\ q.freed = freed
  OBVIOUS
<1> HIDE DEF q, arriving
<1> DEFINE all == w \o arriving
<1>6. KeepsLast(all, left, polled.freed, freed) /\ Len(all) = 0
  BY <1>1, <1>2, <1>3, <1>5, EventsAdded
<1>7. all \in Seq(Nat) /\ Len(w) + count = 0 /\ Len(w) \in Nat
  <2> HIDE DEF w
  <2> QED BY <1>3, <1>4, <1>6, ConcatProperties, LenProperties
<1>8. count = 0
  BY <1>7
<1> HIDE DEF all
<1>9. PICK lost \in 0 .. Len(all) : polled.freed = freed \o SubSeq(all, 1, lost)
  BY <1>6 DEF KeepsLast
<1>10. SubSeq(all, 1, lost) = <<>>
  <2>1. lost = 0
    BY <1>6
  <2> QED BY <1>7, <2>1, SubSeqEmpty
<1>11. UNCHANGED <<arrived, freed>>
  <2>1. freed \o <<>> = freed
    BY <1>1, ConcatEmptySeq
  <2>2. freed' = freed
    BY <1>9, <1>10, <2>1
  <2>3. arrived' = arrived
    BY <1>1, <1>8
  <2> QED BY <2>2, <2>3
<1>12. /\ Top \in LoopRecords /\ Top = loops[Len(loops)] /\ HoldsRightly(Top)
  BY TopIs
<1> DEFINE r == [Top EXCEPT !.at = "client"]
<1>13. /\ r \in LoopRecords /\ r.at = "client" /\ r.event = Top.event
       /\ Top.event = 0 /\ HoldsRightly(r)
  BY <1>12 DEF LoopRecords, HoldsRightly
<1>14. loops' = [loops EXCEPT ![Len(loops)] = r]
  BY <1>12 DEF SetTop
<1> HIDE DEF r
<1>15. /\ ControlOK' /\ FirstKept
       /\ Held(loops') = (Held(loops) \ {Top.event}) \union ({r.event} \ {0})
  BY <1>13, <1>14, TopStep
<1>16. Held(loops') = Held(loops)
  BY <1>13, <1>15 DEF Held
<1> QED BY <1>11, <1>15, <1>16, EventsStay

(* The handler of an event returns, and its data is freed.                 *)
LEMMA HandledStep ==
  ASSUME ControlOK, OrderOK, PlacesOK, EventHandled
  PROVE  ControlOK' /\ FirstKept /\ OrderOK' /\ PlacesOK'
<1>1. /\ loops # <<>> /\ Top.at = "event" /\ Top.code # "none"
      /\ loops' = [loops EXCEPT ![Len(loops)] = Com_EventLoop]
      /\ freed' = Append(freed, Top.event)
      /\ UNCHANGED <<eventQue, pushed, handled, leaked, arrived, phase, sv_running>>
  BY DEF EventHandled
<1>2. /\ Top \in LoopRecords /\ Top = loops[Len(loops)] /\ HoldsRightly(Top)
      /\ Len(loops) \in DOMAIN loops
  BY <1>1, TopIs
<1> DEFINE e == Top.event
<1>3. e \in Nat /\ e # 0 /\ e \in Held(loops)
  BY <1>1, <1>2 DEF LoopRecords, HoldsRightly, Held
<1>4. /\ Com_EventLoop \in LoopRecords /\ Com_EventLoop.event = 0
      /\ HoldsRightly(Com_EventLoop) /\ Com_EventLoop.at = "event"
  BY DEF Com_EventLoop, LoopRecords, HoldsRightly
<1>5. /\ ControlOK' /\ FirstKept
      /\ Held(loops') = (Held(loops) \ {e}) \union ({Com_EventLoop.event} \ {0})
  <2>1. Com_EventLoop.event \notin Held(loops)
    BY <1>4 DEF Held
  <2> QED BY <1>1, <1>4, <2>1, TopStep
<1>6. Held(loops') = Held(loops) \ {e}
  BY <1>4, <1>5
<1>7. Pushed' = Pushed /\ Queued' = Queued
  BY <1>1 DEF Pushed, Queued
<1>8. OrderOK'
  BY <1>1, <1>7 DEF OrderOK
<1>9. PlacesOK'
  <2>1. /\ freed \in Seq(Nat) /\ IsInjective(freed)
        /\ Range(freed) \intersect (Queued \union Pushed \union Held(loops) \union leaked) = {}
        /\ Queued \intersect (Pushed \union Held(loops) \union leaked) = {}
        /\ Pushed \intersect (Held(loops) \union leaked) = {}
        /\ Held(loops) \intersect leaked = {}
        /\ Range(freed) \union Queued \union Pushed \union Held(loops) \union leaked
             = 1 .. arrived
    BY DEF PlacesOK
  <2>2. leaked' = leaked /\ arrived' = arrived
    BY <1>1
  <2> HIDE DEF e
  <2>3. e \notin Range(freed)
    BY <1>3, <2>1
  <2>4. freed' = Append(freed, e)
    BY <1>1 DEF e
  <2>5. /\ freed' \in Seq(Nat) /\ Range(freed') = Range(freed) \union {e}
        /\ IsInjective(freed')
    BY <1>3, <2>1, <2>3, <2>4, OneMore
  <2>6. /\ Range(freed') \intersect (Queued' \union Pushed' \union Held(loops') \union leaked') = {}
        /\ Queued' \intersect (Pushed' \union Held(loops') \union leaked') = {}
        /\ Pushed' \intersect (Held(loops') \union leaked') = {}
        /\ Held(loops') \intersect leaked' = {}
        /\ Range(freed') \union Queued' \union Pushed' \union Held(loops') \union leaked'
             = 1 .. arrived'
    BY <1>3, <1>6, <1>7, <2>1, <2>2, <2>5
  <2> QED BY <2>5, <2>6 DEF PlacesOK
<1> QED BY <1>5, <1>8, <1>9

(* An event is taken, if there is one.                                     *)
LEMMA GetEventStep ==
  ASSUME ControlOK, OrderOK, PlacesOK, Com_GetEvent
  PROVE  ControlOK' /\ FirstKept /\ OrderOK' /\ PlacesOK'
<1>1. /\ loops # <<>> /\ Top.at = "event" /\ Top.code = "none"
      /\ UNCHANGED <<leaked, phase, sv_running>>
  BY DEF Com_GetEvent
<1>2. CASE TakesPushed
  <2>1. /\ Handle(First(pushed, MAX_PUSHED_EVENTS))
        /\ pushed' = Next1(pushed)
        /\ UNCHANGED <<eventQue, arrived, freed>>
    BY <1>2 DEF Com_GetEvent
  <2> QED BY <1>1, <1>2, <2>1, PushedHandled
<1>3. CASE ~TakesPushed
  <2>1. PICK count \in 0 .. IF IsEmpty(eventQue) THEN MaxEvents - arrived ELSE 0 :
          LET polled == QueEvents(eventQue, count) IN
          /\ arrived' = arrived + count /\ freed' = polled.freed
          /\ UNCHANGED pushed
          /\ IF IsEmpty(polled.ring)
               THEN /\ loops' = SetTop("at", "client")
                    /\ UNCHANGED <<handled, eventQue>>
               ELSE /\ Handle(First(polled.ring, MAX_QUED_EVENTS))
                    /\ eventQue' = Next1(polled.ring)
    BY <1>3 DEF Com_GetEvent
  <2>2. count \in Nat
    BY BoundsAssumption DEF OrderOK
  <2> DEFINE polled == QueEvents(eventQue, count)
  <2>3. /\ arrived' = arrived + count /\ freed' = polled.freed /\ pushed' = pushed
        /\ IsEmpty(polled.ring)
             => loops' = SetTop("at", "client") /\ UNCHANGED <<handled, eventQue>>
        /\ ~IsEmpty(polled.ring)
             => /\ Handle(First(polled.ring, MAX_QUED_EVENTS))
                /\ eventQue' = Next1(polled.ring)
    BY <2>1
  <2>4. polled = QueEvents(eventQue, count)
    OBVIOUS
  <2> HIDE DEF polled
  <2>5. CASE IsEmpty(polled.ring)
    BY <1>1, <2>2, <2>3, <2>4, <2>5, NothingPolled
  <2>6. CASE ~IsEmpty(polled.ring)
    BY <1>1, <1>3, <2>2, <2>3, <2>4, <2>6, PolledHandled
  <2> QED BY <2>5, <2>6
<1> QED BY <1>2, <1>3

(* The innermost loop goes on with packets.                                *)
LEMMA PacketLoopStep ==
  ASSUME ControlOK, OrderOK, PlacesOK,
         CL_PacketEvent \/ SV_PacketEvent \/ PacketHandled \/ ToClientDone
  PROVE  ControlOK' /\ OrderOK' /\ PlacesOK' /\ (FirstKept \/ ToClientDone)
<1>1. /\ loops # <<>> /\ Top.at \in {"client", "server"}
      /\ UNCHANGED <<eventQue, pushed, handled, freed, leaked, arrived, phase,
                     sv_running>>
  <2>1. Top \in LoopRecords
    BY TopIs DEF CL_PacketEvent, SV_PacketEvent, PacketHandled, ToClientDone
  <2> QED BY <2>1 DEF CL_PacketEvent, SV_PacketEvent, PacketHandled,
                      ToClientDone, eventVars, LoopRecords
<1>2. /\ Top \in LoopRecords /\ Top = loops[Len(loops)] /\ HoldsRightly(Top)
  BY <1>1, TopIs
<1>3. Top.event = 0
  BY <1>1, <1>2 DEF HoldsRightly
<1>4. ASSUME NEW r \in LoopRecords, r.at \in {"client", "server"}, r.event = 0,
             loops' = [loops EXCEPT ![Len(loops)] = r],
             r.at = "server" => Top.at = "server"
      PROVE  ControlOK' /\ OrderOK' /\ PlacesOK' /\ FirstKept
  <2>1. HoldsRightly(r)
    BY <1>4 DEF HoldsRightly
  <2>2. /\ ControlOK' /\ FirstKept
        /\ Held(loops') = (Held(loops) \ {Top.event}) \union ({r.event} \ {0})
    BY <1>1, <1>3, <1>4, <2>1, TopStep
  <2>3. Held(loops') = Held(loops)
    BY <1>3, <1>4, <2>2 DEF Held
  <2> QED BY <1>1, <2>2, <2>3, EventsStay
<1>5. CASE CL_PacketEvent
  <2> DEFINE r == [Top EXCEPT !.code = "client"]
  <2>1. r \in LoopRecords /\ r.at = Top.at /\ r.event = 0
    BY <1>2, <1>3 DEF LoopRecords
  <2>2. loops' = [loops EXCEPT ![Len(loops)] = r]
    BY <1>2, <1>5 DEF CL_PacketEvent, SetTop
  <2> HIDE DEF r
  <2> QED BY <1>1, <1>4, <2>1, <2>2
<1>6. CASE SV_PacketEvent
  <2> DEFINE r == [Top EXCEPT !.code = "server"]
  <2>1. r \in LoopRecords /\ r.at = Top.at /\ r.event = 0
    BY <1>2, <1>3 DEF LoopRecords
  <2>2. \/ loops' = loops
        \/ loops' = [loops EXCEPT ![Len(loops)] = r]
    BY <1>2, <1>6 DEF SV_PacketEvent, SetTop
  <2>3. CASE loops' = loops
    <3>1. ControlOK' /\ FirstKept /\ Held(loops') = Held(loops)
      BY <1>1, <2>3 DEF ControlOK, FirstKept, InCommands
    <3> QED BY <1>1, <3>1, EventsStay
  <2> HIDE DEF r
  <2> QED BY <1>1, <1>4, <2>1, <2>2, <2>3
<1>7. CASE PacketHandled
  <2> DEFINE r == [Com_EventLoop EXCEPT !.at = Top.at]
  <2>1. r \in LoopRecords /\ r.at = Top.at /\ r.event = 0
    BY <1>1 DEF LoopRecords, Com_EventLoop
  <2>2. loops' = [loops EXCEPT ![Len(loops)] = r]
    BY <1>7 DEF PacketHandled
  <2> HIDE DEF r
  <2> QED BY <1>1, <1>4, <2>1, <2>2
<1>8. CASE ToClientDone
  <2> DEFINE r == [Top EXCEPT !.at = "server"]
             new == [loops EXCEPT ![Len(loops)] = r]
  <2>1. r \in LoopRecords /\ r.at = "server" /\ r.event = 0
    BY <1>2, <1>3 DEF LoopRecords
  <2>2. loops' = new
    BY <1>2, <1>8 DEF ToClientDone, SetTop
  <2>3. HoldsRightly(r)
    BY <2>1 DEF HoldsRightly
  <2>4. LoopsOK(loops) /\ Len(loops) <= MaxDepth /\ phase \in Phases /\ sv_running \in BOOLEAN
    BY DEF ControlOK
  <2> HIDE DEF r
  <2>5. /\ LoopsOK(new) /\ Len(new) = Len(loops)
        /\ Held(new) = (Held(loops) \ {Top.event}) \union ({r.event} \ {0})
    BY <1>1, <1>2, <1>3, <2>1, <2>3, <2>4, TopChanged
  <2> HIDE DEF new
  <2>6. Held(loops') = Held(loops)
    BY <1>3, <2>1, <2>2, <2>5 DEF Held
  <2>7. ControlOK'
    <3>1. ~InCommands' /\ phase' # "server"
      BY <1>1, TopIs DEF InCommands
    <3> QED BY <1>1, <2>2, <2>4, <2>5, <3>1 DEF ControlOK
  <2> QED BY <1>1, <1>8, <2>6, <2>7, EventsStay
<1> QED BY <1>5, <1>6, <1>7, <1>8

(* The frame goes on without a loop or with a new one.                     *)
LEMMA LoopsStart ==
  ASSUME loops' = <<>> \/ loops' = <<Com_EventLoop>>
  PROVE  /\ LoopsOK(loops') /\ Held(loops') = {} /\ Len(loops') <= MaxDepth
         /\ FirstKept
<1>1. LoopsOK(loops') /\ Held(loops') = {}
  BY FrameLoops
<1>2. Len(loops') <= MaxDepth
  <2>1. 0 <= MaxDepth /\ 1 <= MaxDepth
    BY BoundsAssumption
  <2>2. Len(loops') = 0 \/ Len(loops') = 1
    BY FrameLoops
  <2> QED BY <2>1, <2>2
<1>3. ASSUME loops' # <<>> PROVE loops'[1].at = "event"
  <2>1. Com_EventLoop.at = "event"
    BY DEF Com_EventLoop
  <2> QED BY <1>3, <2>1, FrameLoops
<1>4. FirstKept
  BY <1>3 DEF FirstKept
<1> QED BY <1>1, <1>2, <1>4

(* Com_Frame goes on when no loop runs, or one that holds no event.        *)
LEMMA FrameStep ==
  ASSUME ControlOK, OrderOK, PlacesOK, Com_Frame, Held(loops) = {},
         UNCHANGED <<eventQue, pushed, handled, freed, leaked, arrived, sv_running>>
  PROVE  ControlOK' /\ OrderOK' /\ PlacesOK' /\ FirstKept
<1>1. /\ phase' \in PhasesAfter
      /\ loops' = IF phase' \in {"events", "events again"}
                    THEN <<Com_EventLoop>> ELSE <<>>
  BY DEF Com_Frame
<1>2. phase' \in Phases
  BY <1>1 DEF ControlOK, Phases, PhasesAfter
<1>3. /\ LoopsOK(loops') /\ Held(loops') = {} /\ Len(loops') <= MaxDepth
      /\ FirstKept
  BY <1>1, LoopsStart
<1>4. InCommands' \/ phase' = "server" => loops' = <<>>
  BY <1>1 DEF InCommands
<1>5. ControlOK'
  BY <1>2, <1>3, <1>4 DEF ControlOK
<1> QED BY <1>3, <1>5, EventsStay

(* An event loop returns.                                                  *)
LEMMA ReturnStep ==
  ASSUME ControlOK, OrderOK, PlacesOK, EventLoopReturns
  PROVE  ControlOK' /\ OrderOK' /\ PlacesOK' /\ FirstKept
<1>1. /\ loops # <<>> /\ Top.at = "server"
      /\ UNCHANGED <<eventQue, pushed, handled, freed, leaked, arrived, sv_running>>
      /\ IF Len(loops) > 1 \/ phase = "client"
           THEN loops' = Front(loops) /\ UNCHANGED <<phase, pumped>>
           ELSE Com_Frame
  BY DEF EventLoopReturns, eventVars
<1>2. /\ Len(loops) \in Nat \ {0} /\ DOMAIN loops = 1 .. Len(loops)
      /\ Top = loops[Len(loops)] /\ HoldsRightly(Top) /\ ~InCommands
      /\ phase # "server" /\ 1 \in DOMAIN loops
  BY <1>1, TopIs
<1>3. Top.event = 0
  BY <1>1, <1>2 DEF HoldsRightly
<1>4. LoopsOK(loops) /\ Len(loops) <= MaxDepth /\ phase \in Phases /\ sv_running \in BOOLEAN
  BY DEF ControlOK
<1>5. CASE Len(loops) > 1 \/ phase = "client"
  <2>1. /\ loops' = Front(loops) /\ phase' = phase
    BY <1>1, <1>5
  <2>2. /\ LoopsOK(Front(loops)) /\ Len(Front(loops)) = Len(loops) - 1
        /\ Held(Front(loops)) = Held(loops)
        /\ \A i \in DOMAIN Front(loops) : i \in DOMAIN loops /\ Front(loops)[i] = loops[i]
    BY <1>1, <1>2, <1>3, <1>4, LoopGone
  <2>3. FirstKept
    <3>1. ASSUME loops' # <<>> PROVE 1 \in DOMAIN Front(loops)
      <4>1. Front(loops) \in Seq(LoopRecords) /\ Front(loops) # <<>>
        BY <2>1, <2>2, <3>1 DEF LoopsOK
      <4> QED BY <4>1, LenProperties, EmptySeq
    <3> QED BY <1>1, <2>1, <2>2, <3>1 DEF FirstKept
  <2>4. ControlOK'
    <3>1. ~InCommands' /\ phase' # "server"
      BY <1>2, <2>1 DEF InCommands
    <3>2. Len(loops') <= MaxDepth
      BY <1>2, <1>4, <2>1, <2>2, BoundsAssumption
    <3> QED BY <1>1, <1>4, <2>1, <2>2, <3>1, <3>2 DEF ControlOK
  <2> QED BY <1>1, <2>1, <2>2, <2>3, <2>4, EventsStay
<1>6. CASE ~(Len(loops) > 1 \/ phase = "client")
  <2>1. Len(loops) = 1 /\ Com_Frame
    BY <1>1, <1>2, <1>6
  <2>2. Held(loops) = {}
    BY <1>2, <1>3, <2>1 DEF Held
  <2> QED BY <1>1, <2>1, <2>2, FrameStep
<1> QED BY <1>5, <1>6

(* A handler, or CL_Frame, runs an event loop of its own.                  *)
LEMMA PumpStep ==
  ASSUME ControlOK, OrderOK, PlacesOK, PumpEvents
  PROVE  ControlOK' /\ OrderOK' /\ PlacesOK' /\ FirstKept
<1>1. /\ ~InCommands /\ Runs("client") /\ Len(loops) < MaxDepth
      /\ UNCHANGED <<eventQue, pushed, handled, freed, leaked, arrived,
                     sv_running, phase>>
      /\ IF loops = <<>>
           THEN loops' = <<Com_EventLoop>>
           ELSE loops' = Append(SetTop("nested", TRUE), Com_EventLoop)
  BY DEF PumpEvents, eventVars
<1>2. LoopsOK(loops) /\ phase \in Phases /\ sv_running \in BOOLEAN
      /\ Len(loops) \in Nat
  <2>1. loops \in Seq(LoopRecords)
    BY DEF ControlOK, LoopsOK
  <2> QED BY <2>1, LenProperties DEF ControlOK
<1>3. phase # "server"
  BY <1>1, TopIs DEF Runs
<1>4. ~InCommands' /\ phase' # "server"
  BY <1>1, <1>3 DEF InCommands
<1>5. CASE loops = <<>>
  <2>1. /\ LoopsOK(loops') /\ Held(loops') = {} /\ Len(loops') <= MaxDepth
        /\ FirstKept
    BY <1>1, <1>5, LoopsStart
  <2>2. ControlOK'
    BY <1>1, <1>2, <1>4, <2>1 DEF ControlOK
  <2>3. Held(loops) = {}
    BY <1>5, FrameLoops
  <2> QED BY <1>1, <2>1, <2>2, <2>3, EventsStay
<1>6. CASE loops # <<>>
  <2> DEFINE r == [Top EXCEPT !.nested = TRUE]
             new == [loops EXCEPT ![Len(loops)] = r]
  <2>1. /\ Top \in LoopRecords /\ Top = loops[Len(loops)] /\ HoldsRightly(Top)
        /\ 1 \in DOMAIN loops
    BY <1>6, TopIs
  <2>2. /\ r \in LoopRecords /\ r.at = Top.at /\ r.code = Top.code
        /\ r.event = Top.event
    BY <2>1 DEF LoopRecords
  <2>3. loops' = Append(new, Com_EventLoop)
    BY <1>1, <1>6, <2>1 DEF SetTop
  <2> HIDE DEF r
  <2>4. HoldsRightly(r)
    BY <2>1, <2>2 DEF HoldsRightly
  <2>5. /\ LoopsOK(new) /\ Len(new) = Len(loops)
        /\ \A i \in DOMAIN loops : new[i] = IF i = Len(loops) THEN r ELSE loops[i]
        /\ Held(new) = (Held(loops) \ {Top.event}) \union ({r.event} \ {0})
    BY <1>2, <1>6, <2>1, <2>2, <2>4, TopChanged
  <2>6. DOMAIN new = DOMAIN loops
    OBVIOUS
  <2> HIDE DEF new
  <2>7. /\ LoopsOK(loops') /\ Len(loops') = Len(loops) + 1 /\ Held(loops') = Held(new)
        /\ \A i \in DOMAIN new : loops'[i] = new[i]
    BY <2>3, <2>5, LoopBegins
  <2>8. Held(loops') = Held(loops)
    <3>1. Top.event # 0 => Top.event \in Held(loops)
      <4>1. Len(loops) \in DOMAIN loops
        BY <1>6, TopIs
      <4> QED BY <2>1, <4>1 DEF Held
    <3>2. 0 \notin Held(loops)
      BY DEF Held
    <3> QED BY <2>2, <2>5, <2>7, <3>1, <3>2
  <2>9. FirstKept
    <3>1. loops'[1].at = loops[1].at
      BY <2>1, <2>2, <2>5, <2>6, <2>7
    <3> QED BY <1>6, <3>1 DEF FirstKept
  <2>10. ControlOK'
    <3>1. Len(loops') <= MaxDepth
      BY <1>1, <1>2, <2>7, BoundsAssumption
    <3> QED BY <1>1, <1>2, <1>4, <2>7, <3>1 DEF ControlOK
  <2> QED BY <1>1, <2>8, <2>9, <2>10, EventsStay
<1> QED BY <1>5, <1>6

(* An error abandons the frame, and the events whose handlers run.         *)
LEMMA ErrorStep ==
  ASSUME ControlOK, OrderOK, PlacesOK, Com_Error
  PROVE  ControlOK' /\ OrderOK' /\ PlacesOK' /\ FirstKept
<1>1. /\ sv_running' \in {FALSE, sv_running}
      /\ phase' = "events" /\ loops' = <<Com_EventLoop>>
      /\ leaked' = leaked \union Held(loops)
      /\ UNCHANGED <<eventQue, pushed, arrived, freed, handled>>
  BY DEF Com_Error, Held
<1>2. /\ LoopsOK(loops') /\ Held(loops') = {} /\ Len(loops') <= MaxDepth
      /\ FirstKept
  BY <1>1, LoopsStart
<1>3. ControlOK'
  BY <1>1, <1>2 DEF ControlOK, Phases, InCommands
<1>4. Pushed' = Pushed /\ Queued' = Queued
  BY <1>1 DEF Pushed, Queued
<1>5. OrderOK'
  BY <1>1, <1>4 DEF OrderOK
<1>6. PlacesOK'
  <2>1. /\ freed \in Seq(Nat) /\ IsInjective(freed)
        /\ Range(freed) \intersect (Queued \union Pushed \union Held(loops) \union leaked) = {}
        /\ Queued \intersect (Pushed \union Held(loops) \union leaked) = {}
        /\ Pushed \intersect (Held(loops) \union leaked) = {}
        /\ Held(loops) \intersect leaked = {}
        /\ Range(freed) \union Queued \union Pushed \union Held(loops) \union leaked
             = 1 .. arrived
    BY DEF PlacesOK
  <2>2. freed' = freed /\ arrived' = arrived
    BY <1>1
  <2>3. /\ Range(freed') \intersect (Queued' \union Pushed' \union Held(loops') \union leaked') = {}
        /\ Queued' \intersect (Pushed' \union Held(loops') \union leaked') = {}
        /\ Pushed' \intersect (Held(loops') \union leaked') = {}
        /\ Held(loops') \intersect leaked' = {}
        /\ Range(freed') \union Queued' \union Pushed' \union Held(loops') \union leaked'
             = 1 .. arrived'
    BY <1>1, <1>2, <1>4, <2>1, <2>2
  <2> QED BY <2>1, <2>2, <2>3 DEF PlacesOK
<1> QED BY <1>2, <1>3, <1>5, <1>6

(* Every step keeps the order and the places of the events, and a first    *)
(* loop that is past the client's packets was so before or has just found  *)
(* none.                                                                   *)
LEMMA EventStep ==
  ASSUME ControlOK, OrderOK, PlacesOK, [Next]_vars
  PROVE  ControlOK' /\ OrderOK' /\ PlacesOK' /\ (FirstKept \/ ToClientDone)
<1>1. CASE Com_GetEvent \/ EventHandled
  BY <1>1, GetEventStep, HandledStep
<1>2. CASE CL_PacketEvent \/ SV_PacketEvent \/ PacketHandled \/ ToClientDone
  BY <1>2, PacketLoopStep
<1>3. CASE EventLoopReturns
  BY <1>3, ReturnStep
<1>4. CASE Cbuf_ExecuteReturns \/ SV_FrameReturns \/ CL_FrameReturns
  <2>1. /\ Com_Frame /\ loops = <<>>
        /\ UNCHANGED <<eventQue, pushed, handled, freed, leaked, arrived, sv_running>>
    BY <1>4 DEF Cbuf_ExecuteReturns, SV_FrameReturns, CL_FrameReturns, ControlOK,
                eventVars
  <2>2. Held(loops) = {}
    BY <2>1, FrameLoops
  <2> QED BY <2>1, <2>2, FrameStep
<1>5. CASE SV_Startup \/ SV_Shutdown \/ NET_SendPacket \/ UNCHANGED vars
  <2>1. /\ UNCHANGED <<eventQue, pushed, handled, freed, leaked, arrived, phase, loops>>
        /\ sv_running' \in {TRUE, FALSE, sv_running}
    BY <1>5 DEF SV_Startup, SV_Shutdown, NET_SendPacket, vars, eventVars, frameVars
  <2>2. ControlOK'
    BY <2>1 DEF ControlOK, InCommands
  <2>3. FirstKept
    BY <2>1 DEF FirstKept
  <2> QED BY <2>1, <2>2, <2>3, EventsStay
<1>6. CASE Com_Milliseconds
  <2>1. UNCHANGED <<phase, loops, sv_running>>
    BY <1>6 DEF Com_Milliseconds, frameVars
  <2>2. ControlOK' /\ FirstKept
    BY <2>1 DEF ControlOK, FirstKept, InCommands
  <2> QED BY <1>6, <2>2, PushedBack
<1>7. CASE PumpEvents \/ Com_Error
  BY <1>7, PumpStep, ErrorStep
<1> QED BY <1>1, <1>2, <1>3, <1>4, <1>5, <1>6, <1>7 DEF Next

-----------------------------------------------------------------------------
(* The packets that have been heard, and the marks in their numbers.       *)

Packets == [sequence : Nat, data : Nat]

HeardFrom(h, r) ==
    /\ h \in Seq(Packets)
    /\ \A i \in DOMAIN h : h[i].sequence <= r.tail

RingsOK ==
    /\ loopbacks \in [client : LoopRings, server : LoopRings]
    /\ RingHolds(loopbacks.client) /\ RingHolds(loopbacks.server)

HeardOK ==
    /\ heard = [client |-> heard.client, server |-> heard.server]
    /\ HeardFrom(heard.client, loopbacks.client)
    /\ HeardFrom(heard.server, loopbacks.server)

(* Once the second event loop has found nothing for the client.            *)
ClientHasRead ==
    \/ phase = "events again" /\ loops # <<>> /\ loops[1].at = "server"
    \/ phase \in {"commands again", "client"}

MarksOK ==
    /\ marks \in [svFrame : Nat, frame : Nat, start : Nat]
    /\ marks.svFrame <= loopbacks.client.head
    /\ marks.frame <= loopbacks.server.head
    /\ ClientHasRead => OldestKept(loopbacks.client) >= marks.svFrame
    /\ phase # "events" => OldestKept(loopbacks.server) >= marks.frame
    /\ OldestKept(loopbacks.server) >= marks.start

-----------------------------------------------------------------------------
(* What a step does to the loopback rings: packets are added, read and     *)
(* overwritten, and none comes back.                                       *)

RingsGrow ==
    /\ loopbacks.client.head <= loopbacks'.client.head
    /\ loopbacks.server.head <= loopbacks'.server.head
    /\ OldestKept(loopbacks.client) <= OldestKept(loopbacks'.client)
    /\ OldestKept(loopbacks.server) <= OldestKept(loopbacks'.server)

(* What has been heard is in front of the tail, and stays there.           *)
LEMMA HeardStays ==
  ASSUME NEW h, NEW r \in LoopRings, NEW s \in LoopRings,
         HeardFrom(h, r), r.tail <= s.tail
  PROVE  HeardFrom(h, s)
<1>1. h \in Seq(Packets)
  BY DEF HeardFrom
<1>2. r.tail \in Nat /\ s.tail \in Nat
  BY DEF LoopRings
<1>3. ASSUME NEW i \in DOMAIN h PROVE h[i].sequence <= s.tail
  <2>1. i \in 1 .. Len(h)
    BY <1>1, LenProperties
  <2>2. h[i] \in Packets
    BY <1>1, <2>1, ElementOfSeq
  <2>3. h[i].sequence \in Nat
    BY <2>2 DEF Packets
  <2>4. h[i].sequence <= r.tail
    BY DEF HeardFrom
  <2> QED BY <1>2, <2>3, <2>4
<1> QED BY <1>1, <1>3 DEF HeardFrom

(* A packet that is read is later than all that were heard, and becomes    *)
(* the last one heard.                                                     *)
LEMMA HearsNext ==
  ASSUME NEW h, NEW r, RingHolds(r), HasPacket(r), HeardFrom(h, r),
         NEW p, p = [sequence |-> OldestKept(r) + 1,
                     data |-> r.slots[OldestKept(r) % MAX_LOOPBACK]]
  PROVE  /\ HeardFrom(Append(h, p), Taken(r))
         /\ p = [sequence |-> OldestKept(r) + 1, data |-> OldestKept(r) + 1]
         /\ \A i \in DOMAIN h : h[i].sequence < OldestKept(r) + 1
<1>1. /\ OldestKept(r) \in Nat /\ r.tail <= OldestKept(r)
      /\ r \in LoopRings /\ Taken(r) \in LoopRings
      /\ Taken(r).tail = OldestKept(r) + 1
      /\ r.slots[OldestKept(r) % MAX_LOOPBACK] = OldestKept(r) + 1
  BY OldestIs, TakenHolds DEF RingHolds
<1>2. r.tail \in Nat /\ r.tail <= Taken(r).tail
  BY <1>1 DEF LoopRings
<1>3. p \in Packets /\ p.sequence = Taken(r).tail
  BY <1>1 DEF Packets
<1>4. HeardFrom(h, Taken(r))
  BY <1>1, <1>2, HeardStays
<1>5. h \in Seq(Packets) /\ \A i \in DOMAIN h : h[i].sequence <= Taken(r).tail
  BY <1>4 DEF HeardFrom
<1>6. /\ Append(h, p) \in Seq(Packets) /\ DOMAIN h = 1 .. Len(h)
      /\ DOMAIN Append(h, p) = 1 .. Len(h) + 1 /\ Len(h) \in Nat
      /\ \A i \in 1 .. Len(h) : Append(h, p)[i] = h[i]
      /\ Append(h, p)[Len(h) + 1] = p
  BY <1>3, <1>5, AppendedMessage
<1>7. ASSUME NEW i \in DOMAIN Append(h, p)
      PROVE  Append(h, p)[i].sequence <= Taken(r).tail
  <2>1. CASE i = Len(h) + 1
    BY <1>1, <1>3, <1>6, <2>1
  <2>2. CASE i # Len(h) + 1
    <3>1. i \in 1 .. Len(h)
      BY <1>6, <2>2
    <3> QED BY <1>5, <1>6, <3>1
  <2> QED BY <2>1, <2>2
<1>8. ASSUME NEW i \in DOMAIN h PROVE h[i].sequence < OldestKept(r) + 1
  <2>1. h[i] \in Packets
    BY <1>5, <1>6, ElementOfSeq
  <2>2. h[i].sequence \in Nat
    BY <2>1 DEF Packets
  <2>3. h[i].sequence <= r.tail
    BY DEF HeardFrom
  <2> QED BY <1>1, <1>2, <2>2, <2>3
<1> QED BY <1>1, <1>6, <1>7, <1>8 DEF HeardFrom

(* Sending a packet over a ring.                                           *)
LEMMA SendStep ==
  ASSUME RingsOK, HeardOK, NEW end \in {"client", "server"}, SendTo(end)
  PROVE  RingsOK' /\ HeardOK' /\ RingsGrow
<1> DEFINE r == loopbacks[end]
           s == LoopSend(r, r.head + 1)
<1>1. /\ loopbacks \in [client : LoopRings, server : LoopRings]
      /\ RingHolds(loopbacks.client) /\ RingHolds(loopbacks.server)
  BY DEF RingsOK
<1>2. RingHolds(r)
  BY <1>1
<1>3. RingHolds(s) /\ s.head = r.head + 1 /\ OldestKept(r) <= OldestKept(s)
  BY <1>2, SendHolds
<1>4. s.tail = r.tail
  BY DEF LoopSend
<1>5. r \in LoopRings /\ s \in LoopRings
  BY <1>2, <1>3 DEF RingHolds
<1>6. /\ loopbacks' = [loopbacks EXCEPT ![end] = s]
      /\ heard' = heard
  BY DEF SendTo
<1>7. /\ OldestKept(loopbacks.client) \in Nat /\ OldestKept(loopbacks.server) \in Nat
      /\ loopbacks.client.head \in Nat /\ loopbacks.server.head \in Nat
      /\ loopbacks.client.tail \in Nat /\ loopbacks.server.tail \in Nat
  BY <1>1, OldestIs DEF RingHolds, LoopRings
<1> HIDE DEF s
<1>8. CASE end = "client"
  <2>1. loopbacks' = [client |-> s, server |-> loopbacks.server]
    BY <1>1, <1>6, <1>8
  <2>2. RingsOK' /\ RingsGrow
    BY <1>1, <1>3, <1>5, <1>7, <1>8, <2>1 DEF RingsOK, RingsGrow
  <2>3. HeardFrom(heard.client, s)
    BY <1>4, <1>5, <1>7, <1>8, HeardStays DEF HeardOK
  <2> QED BY <1>6, <2>1, <2>2, <2>3 DEF HeardOK
<1>9. CASE end = "server"
  <2>1. loopbacks' = [client |-> loopbacks.client, server |-> s]
    BY <1>1, <1>6, <1>9
  <2>2. RingsOK' /\ RingsGrow
    BY <1>1, <1>3, <1>5, <1>7, <1>9, <2>1 DEF RingsOK, RingsGrow
  <2>3. HeardFrom(heard.server, s)
    BY <1>4, <1>5, <1>7, <1>9, HeardStays DEF HeardOK
  <2> QED BY <1>6, <2>1, <2>2, <2>3 DEF HeardOK
<1> QED BY <1>8, <1>9

(* Reading a packet, which is handled or flushed.                          *)
LEMMA GetStep ==
  ASSUME RingsOK, HeardOK, NEW end \in {"client", "server"},
         NET_GetLoopPacket(end),
         \/ heard' = heard
         \/ heard' = [heard EXCEPT ![end] = Append(@, Got(end))]
  PROVE  RingsOK' /\ HeardOK' /\ RingsGrow
<1> DEFINE r == loopbacks[end]
           s == Taken(r)
<1>1. /\ loopbacks \in [client : LoopRings, server : LoopRings]
      /\ RingHolds(loopbacks.client) /\ RingHolds(loopbacks.server)
  BY DEF RingsOK
<1>2. RingHolds(r) /\ HasPacket(r)
  BY <1>1 DEF NET_GetLoopPacket
<1>3. /\ RingHolds(s) /\ s.head = r.head /\ s.tail = OldestKept(r) + 1
      /\ OldestKept(s) = OldestKept(r) + 1
  BY <1>2, TakenHolds
<1>4. /\ OldestKept(loopbacks.client) \in Nat /\ OldestKept(loopbacks.server) \in Nat
      /\ loopbacks.client.tail <= OldestKept(loopbacks.client)
      /\ loopbacks.server.tail <= OldestKept(loopbacks.server)
      /\ loopbacks.client.head \in Nat /\ loopbacks.server.head \in Nat
      /\ loopbacks.client.tail \in Nat /\ loopbacks.server.tail \in Nat
  BY <1>1, OldestIs DEF RingHolds, LoopRings
<1>5. r \in LoopRings /\ s \in LoopRings /\ r.tail <= s.tail
  BY <1>2, <1>3, <1>4 DEF RingHolds
<1>6. /\ heard = [client |-> heard.client, server |-> heard.server]
      /\ HeardFrom(heard.client, loopbacks.client)
      /\ HeardFrom(heard.server, loopbacks.server)
  BY DEF HeardOK
<1>7. HeardFrom(heard[end], s) /\ HeardFrom(Append(heard[end], Got(end)), s)
  <2>1. HeardFrom(heard[end], r)
    BY <1>6
  <2>2. HeardFrom(Append(heard[end], Got(end)), s)
    BY <1>2, <2>1, HearsNext DEF Got
  <2> HIDE DEF s
  <2> QED BY <1>5, <2>1, <2>2, HeardStays
<1>8. loopbacks' = [loopbacks EXCEPT ![end] = s]
  BY DEF NET_GetLoopPacket, Taken
<1> HIDE DEF s
<1>9. CASE end = "client"
  <2>1. loopbacks' = [client |-> s, server |-> loopbacks.server]
    BY <1>1, <1>8, <1>9
  <2>2. RingsOK' /\ RingsGrow
    BY <1>1, <1>3, <1>4, <1>5, <1>9, <2>1 DEF RingsOK, RingsGrow
  <2>3. \/ heard' = heard
        \/ heard' = [client |-> Append(heard.client, Got(end)),
                     server |-> heard.server]
    BY <1>6, <1>9
  <2>4. HeardOK'
    BY <1>6, <1>7, <1>9, <2>1, <2>3 DEF HeardOK
  <2> QED BY <2>2, <2>4
<1>10. CASE end = "server"
  <2>1. loopbacks' = [client |-> loopbacks.client, server |-> s]
    BY <1>1, <1>8, <1>10
  <2>2. RingsOK' /\ RingsGrow
    BY <1>1, <1>3, <1>4, <1>5, <1>10, <2>1 DEF RingsOK, RingsGrow
  <2>3. \/ heard' = heard
        \/ heard' = [client |-> heard.client,
                     server |-> Append(heard.server, Got(end))]
    BY <1>6, <1>10
  <2>4. HeardOK'
    BY <1>6, <1>7, <1>10, <2>1, <2>3 DEF HeardOK
  <2> QED BY <2>2, <2>4
<1> QED BY <1>9, <1>10

(* A step that leaves the rings alone.                                     *)
LEMMA NoPacketStep ==
  ASSUME RingsOK, HeardOK, UNCHANGED packetVars
  PROVE  RingsOK' /\ HeardOK' /\ RingsGrow
<1>1. loopbacks' = loopbacks /\ heard' = heard
  BY DEF packetVars
<1>2. /\ OldestKept(loopbacks.client) \in Nat /\ OldestKept(loopbacks.server) \in Nat
      /\ loopbacks.client.head \in Nat /\ loopbacks.server.head \in Nat
  BY OldestIs DEF RingsOK, RingHolds, LoopRings
<1> QED BY <1>1, <1>2 DEF RingsOK, HeardOK, RingsGrow

(* Every step.                                                             *)
LEMMA PacketStep ==
  ASSUME RingsOK, HeardOK, [Next]_vars
  PROVE  RingsOK' /\ HeardOK' /\ RingsGrow
<1>1. CASE CL_PacketEvent
  <2>1. /\ NET_GetLoopPacket("client")
        /\ heard' = [heard EXCEPT !["client"] = Append(@, Got("client"))]
    BY <1>1 DEF CL_PacketEvent
  <2> QED BY <2>1, GetStep
<1>2. CASE SV_PacketEvent
  <2>1. /\ NET_GetLoopPacket("server")
        /\ \/ heard' = heard
           \/ heard' = [heard EXCEPT !["server"] = Append(@, Got("server"))]
    BY <1>2 DEF SV_PacketEvent
  <2> QED BY <2>1, GetStep
<1>3. CASE NET_SendPacket
  BY <1>3, SendStep DEF NET_SendPacket
<1>4. CASE Com_Error
  BY <1>4, SendStep, NoPacketStep DEF Com_Error
<1>5. CASE ~CL_PacketEvent /\ ~SV_PacketEvent /\ ~NET_SendPacket /\ ~Com_Error
  <2>1. UNCHANGED packetVars
    BY <1>5 DEF Next, vars, Com_GetEvent, EventHandled, PacketHandled,
                ToClientDone, EventLoopReturns, Cbuf_ExecuteReturns,
                SV_FrameReturns, CL_FrameReturns, SV_Startup, SV_Shutdown,
                Com_Milliseconds, PumpEvents
  <2> QED BY <2>1, NoPacketStep
<1> QED BY <1>1, <1>2, <1>3, <1>4, <1>5

(* Com_Frame goes on to the next part.                                     *)
LEMMA FramePhases ==
  ASSUME ControlOK, Com_Frame
  PROVE  /\ phase' \in Phases
         /\ phase' = "events" => phase \in {"events", "client"}
         /\ phase' = "events again" => phase = "server" /\ loops'[1].at = "event"
         /\ phase' = "commands again" => phase = "events again"
         /\ phase' = "client" => phase = "commands again"
<1>1. phase \in Phases /\ phase' \in PhasesAfter
  BY DEF ControlOK, Com_Frame
<1>2. phase' = "events again" => loops'[1].at = "event"
  <2>1. phase' = "events again" => loops' = <<Com_EventLoop>>
    BY DEF Com_Frame
  <2>2. Com_EventLoop.at = "event"
    BY DEF Com_EventLoop
  <2> QED BY <2>1, <2>2, FrameLoops
<1> QED BY <1>1, <1>2 DEF Phases, PhasesAfter

(* Unless the frame goes on, the marks stay behind the packets.            *)
LEMMA MarksStay ==
  ASSUME RingsOK, RingsOK', MarksOK, RingsGrow, UNCHANGED marks,
         ClientHasRead' =>
             ClientHasRead \/ OldestKept(loopbacks'.client) >= marks.svFrame,
         phase' # "events" =>
             phase # "events" \/ OldestKept(loopbacks'.server) >= marks.frame
  PROVE  MarksOK'
<1>1. /\ marks \in [svFrame : Nat, frame : Nat, start : Nat]
      /\ marks.svFrame \in Nat /\ marks.frame \in Nat /\ marks.start \in Nat
  BY DEF MarksOK
<1>2. /\ OldestKept(loopbacks.client) \in Nat /\ OldestKept(loopbacks.server) \in Nat
      /\ loopbacks.client.head \in Nat /\ loopbacks.server.head \in Nat
      /\ OldestKept(loopbacks'.client) \in Nat /\ OldestKept(loopbacks'.server) \in Nat
      /\ loopbacks'.client.head \in Nat /\ loopbacks'.server.head \in Nat
  BY OldestIs DEF RingsOK, RingHolds, LoopRings
<1>3. /\ marks.svFrame <= loopbacks'.client.head
      /\ marks.frame <= loopbacks'.server.head
      /\ OldestKept(loopbacks'.server) >= marks.start
  BY <1>1, <1>2 DEF MarksOK, RingsGrow
<1>4. phase' # "events" => OldestKept(loopbacks'.server) >= marks.frame
  BY <1>1, <1>2 DEF MarksOK, RingsGrow
<1>5. ClientHasRead' => OldestKept(loopbacks'.client) >= marks.svFrame
  BY <1>1, <1>2 DEF MarksOK, RingsGrow
<1> QED BY <1>1, <1>3, <1>4, <1>5 DEF MarksOK

(* A frame begins.                                                         *)
LEMMA MarksFrame ==
  ASSUME RingsOK, RingsOK', MarksOK, RingsGrow, NewFrame, phase' = "events"
  PROVE  MarksOK'
<1>1. /\ marks \in [svFrame : Nat, frame : Nat, start : Nat]
      /\ marks' = [svFrame |-> marks.svFrame, frame |-> loopbacks'.server.head,
                   start |-> marks.start]
  BY DEF MarksOK, NewFrame
<1>2. /\ OldestKept(loopbacks.server) \in Nat
      /\ loopbacks.client.head \in Nat /\ loopbacks.server.head \in Nat
      /\ OldestKept(loopbacks'.server) \in Nat
      /\ loopbacks'.client.head \in Nat /\ loopbacks'.server.head \in Nat
  BY OldestIs DEF RingsOK, RingHolds, LoopRings
<1>3. marks.svFrame \in Nat /\ marks.start \in Nat
  BY <1>1
<1>4. /\ marks' \in [svFrame : Nat, frame : Nat, start : Nat]
      /\ marks'.svFrame = marks.svFrame /\ marks'.start = marks.start
      /\ marks'.frame = loopbacks'.server.head
  BY <1>1, <1>2, <1>3
<1>5. /\ marks.svFrame <= loopbacks'.client.head
      /\ OldestKept(loopbacks'.server) >= marks.start
  BY <1>2, <1>3 DEF MarksOK, RingsGrow
<1>6. marks'.frame <= loopbacks'.server.head
  BY <1>2, <1>4
<1>7. ~ClientHasRead'
  BY DEF ClientHasRead
<1> QED BY <1>4, <1>5, <1>6, <1>7 DEF MarksOK

(* Every step keeps the marks: an event loop returns when it has found no  *)
(* packet for the client and then none for the server.                     *)
LEMMA MarksStep ==
  ASSUME ControlOK, OrderOK, PlacesOK, RingsOK, HeardOK, MarksOK, [Next]_vars
  PROVE  MarksOK'
<1>1. RingsOK' /\ RingsGrow /\ (FirstKept \/ ToClientDone)
  BY PacketStep, EventStep
<1>2. /\ marks \in [svFrame : Nat, frame : Nat, start : Nat]
      /\ marks.svFrame \in Nat /\ marks.frame \in Nat /\ marks.start \in Nat
      /\ marks.svFrame <= loopbacks.client.head
      /\ marks.frame <= loopbacks.server.head
  BY DEF MarksOK
<1>3. /\ OldestKept(loopbacks.client) \in Nat /\ OldestKept(loopbacks.server) \in Nat
      /\ loopbacks.client.head \in Nat /\ loopbacks.server.head \in Nat
  BY OldestIs DEF RingsOK, RingHolds, LoopRings
<1>4. CASE ToClientDone
  <2>1. /\ UNCHANGED <<loopbacks, marks, phase>>
        /\ ~(OldestKept(loopbacks.client) < loopbacks.client.head)
    BY <1>4 DEF ToClientDone, packetVars, HasPacket
  <2>2. OldestKept(loopbacks.client) >= marks.svFrame
    BY <1>2, <1>3, <2>1
  <2> QED BY <1>1, <2>1, <2>2, MarksStay
<1>5. CASE SV_FrameReturns
  <2>1. /\ phase = "server" /\ Com_Frame /\ loopbacks' = loopbacks
        /\ marks' = [svFrame |-> loopbacks.client.head, frame |-> marks.frame,
                     start |-> marks.start]
    BY <1>2, <1>5 DEF SV_FrameReturns, packetVars
  <2>2. phase' = "events again" /\ loops'[1].at = "event"
    <3>1. phase' = "events again"
      BY <2>1 DEF Com_Frame, PhasesAfter
    <3> QED BY <2>1, <3>1, FramePhases
  <2>3. ~ClientHasRead'
    BY <2>2 DEF ClientHasRead
  <2>4. /\ marks' \in [svFrame : Nat, frame : Nat, start : Nat]
        /\ marks'.svFrame = loopbacks.client.head /\ marks'.frame = marks.frame
        /\ marks'.start = marks.start
    BY <1>2, <1>3, <2>1
  <2>5. /\ OldestKept(loopbacks.server) >= marks.frame
        /\ OldestKept(loopbacks.server) >= marks.start
    BY <2>1 DEF MarksOK
  <2>6. loopbacks.client.head <= loopbacks.client.head
    BY <1>3
  <2> QED BY <1>2, <2>1, <2>3, <2>4, <2>5, <2>6 DEF MarksOK
<1>6. CASE CL_FrameReturns \/ Com_Error
  <2>1. NewFrame /\ phase' = "events"
    BY <1>6 DEF CL_FrameReturns, Com_Error, Com_Frame, PhasesAfter
  <2> QED BY <1>1, <2>1, MarksFrame
<1>7. CASE SV_Startup
  <2>1. /\ phase # "events" /\ UNCHANGED <<loopbacks, phase, loops>>
        /\ marks' = [svFrame |-> marks.svFrame, frame |-> marks.frame,
                     start |-> marks.frame]
    BY <1>2, <1>7 DEF SV_Startup, InCommands, packetVars
  <2>2. /\ marks' \in [svFrame : Nat, frame : Nat, start : Nat]
        /\ marks'.svFrame = marks.svFrame /\ marks'.frame = marks.frame
        /\ marks'.start = marks.frame
    BY <1>2, <2>1
  <2>3. OldestKept(loopbacks.server) >= marks.frame
    BY <2>1 DEF MarksOK
  <2>4. ClientHasRead' = ClientHasRead
    BY <2>1 DEF ClientHasRead
  <2> QED BY <2>1, <2>2, <2>3, <2>4 DEF MarksOK
<1>8. CASE EventLoopReturns
  <2>1. /\ loops # <<>> /\ Top.at = "server" /\ UNCHANGED <<loopbacks, marks>>
        /\ ~(OldestKept(loopbacks.server) < loopbacks.server.head)
        /\ \/ phase' = phase
           \/ Len(loops) = 1 /\ Com_Frame
    <3>1. /\ loops # <<>> /\ Top.at = "server" /\ UNCHANGED <<loopbacks, marks>>
          /\ ~(OldestKept(loopbacks.server) < loopbacks.server.head)
      BY <1>8 DEF EventLoopReturns, packetVars, ReadsPacket, HasPacket
    <3>2. phase' = phase \/ (~(Len(loops) > 1) /\ Com_Frame)
      BY <1>8 DEF EventLoopReturns
    <3>3. Len(loops) \in Nat \ {0}
      BY <3>1, TopIs
    <3>4. ASSUME NEW n \in Nat \ {0}, ~(n > 1) PROVE n = 1
      BY <3>4
    <3>5. ~(Len(loops) > 1) => Len(loops) = 1
      BY ONLY <3>3, <3>4
    <3> QED BY <3>1, <3>2, <3>5
  <2>2. OldestKept(loopbacks.server) >= marks.frame
    BY <1>2, <1>3, <2>1
  <2>3. ASSUME ClientHasRead' PROVE ClientHasRead
    <3>1. CASE phase' = phase
      <4>1. FirstKept
        BY <1>1, <2>1 DEF ToClientDone
      <4> QED BY <2>3, <3>1, <4>1 DEF ClientHasRead, FirstKept
    <3>2. CASE Len(loops) = 1 /\ Com_Frame
      <4>1. loops[1].at = "server"
        BY <2>1, <3>2 DEF Top
      <4>2. phase' # "events again"
        BY <2>1, <3>2, TopIs, FramePhases
      <4> QED BY <2>1, <2>3, <3>2, <4>1, <4>2, FramePhases DEF ClientHasRead
    <3> QED BY <2>1, <3>1, <3>2
  <2> QED BY <1>1, <2>1, <2>2, <2>3, MarksStay
<1>9. CASE Cbuf_ExecuteReturns
  <2>1. InCommands /\ Com_Frame /\ UNCHANGED <<loopbacks, marks>>
    BY <1>9 DEF Cbuf_ExecuteReturns, packetVars
  <2>2. /\ phase # "events" /\ phase' # "events again"
        /\ phase' # "commands again"
        /\ phase' = "client" => phase = "commands again"
    BY <2>1, FramePhases DEF InCommands
  <2>3. ClientHasRead' => ClientHasRead
    BY <2>2 DEF ClientHasRead
  <2> QED BY <1>1, <2>1, <2>2, <2>3, MarksStay
<1>10. CASE \/ Com_GetEvent \/ EventHandled \/ CL_PacketEvent \/ SV_PacketEvent
            \/ PacketHandled \/ SV_Shutdown \/ NET_SendPacket
            \/ Com_Milliseconds \/ PumpEvents \/ UNCHANGED vars
  <2>1. UNCHANGED <<phase, marks>>
    BY <1>10 DEF Com_GetEvent, EventHandled, CL_PacketEvent, SV_PacketEvent,
                 PacketHandled, SV_Shutdown, NET_SendPacket, Com_Milliseconds,
                 PumpEvents, vars, frameVars
  <2>2. CASE FirstKept
    <3>1. ClientHasRead' => ClientHasRead
      BY <2>1, <2>2 DEF ClientHasRead, FirstKept
    <3> QED BY <1>1, <2>1, <3>1, MarksStay
  <2> QED BY <1>1, <1>4, <2>2
<1> QED BY <1>4, <1>5, <1>6, <1>7, <1>8, <1>9, <1>10 DEF Next

-----------------------------------------------------------------------------
(* The inductive invariant, and what follows from it.                      *)

FrameInv ==
    ControlOK /\ OrderOK /\ PlacesOK /\ RingsOK /\ HeardOK /\ MarksOK

(* A new ring of events holds none.                                        *)
LEMMA NewRing ==
  ASSUME NEW size \in Nat \ {0}
  PROVE  QueueOK(Ring(size), size) /\ Waiting(Ring(size), size) = <<>>
<1> DEFINE r == Ring(size)
<1>1. r \in EventRings(size) /\ r.head = 0 /\ r.tail = 0
  BY DEF Ring, EventRings
<1> HIDE DEF r
<1>2. QueueOK(r, size)
  BY <1>1 DEF QueueOK
<1>3. Waiting(r, size) \in Seq(Nat) /\ Len(Waiting(r, size)) = r.head - r.tail
  BY <1>2, WaitingIs
<1>4. Waiting(r, size) = <<>>
  BY <1>1, <1>3, EmptySeq
<1> QED BY <1>2, <1>4 DEF r

(* It holds when the program starts.                                       *)
LEMMA FrameInit == Init => FrameInv
<1> SUFFICES ASSUME Init PROVE FrameInv
  OBVIOUS
<1>1. /\ MAX_QUED_EVENTS \in Nat \ {0} /\ MAX_PUSHED_EVENTS \in Nat \ {0}
      /\ MAX_LOOPBACK \in Nat \ {0}
  BY RingsAssumption
<1>2. /\ QueueOK(eventQue, MAX_QUED_EVENTS)
      /\ Waiting(eventQue, MAX_QUED_EVENTS) = <<>>
      /\ QueueOK(pushed, MAX_PUSHED_EVENTS)
      /\ Waiting(pushed, MAX_PUSHED_EVENTS) = <<>>
  BY <1>1, NewRing DEF Init
<1>3. LoopsOK(loops) /\ Held(loops) = {} /\ Len(loops) <= MaxDepth
  <2>1. 1 <= MaxDepth
    BY BoundsAssumption
  <2> QED BY <2>1, FrameLoops DEF Init
<1>4. Pushed = {} /\ Queued = {}
  BY <1>2 DEF Pushed, Queued, Range
<1>5. ControlOK
  BY <1>3 DEF ControlOK, Init, Phases, InCommands
<1>6. /\ Rising(<<>>) /\ Range(<<>>) = {} /\ <<>> \in Seq(Nat)
      /\ IsInjective(<<>>)
  BY DEF Rising, Range, IsInjective
<1>7. OrderOK
  <2>1. arrived = 0 /\ handled = <<>>
    BY DEF Init
  <2> QED BY <1>2, <1>4, <1>6, <2>1 DEF OrderOK, AllBelow
<1>8. PlacesOK
  <2>1. arrived = 0 /\ freed = <<>> /\ leaked = {}
    BY DEF Init
  <2>2. 1 .. 0 = {}
    OBVIOUS
  <2> QED BY <1>3, <1>4, <1>6, <2>1, <2>2 DEF PlacesOK
<1> DEFINE r == Ring(MAX_LOOPBACK)
<1>9. RingHolds(r) /\ r.head = 0 /\ r.tail = 0
  <2>1. r \in LoopRings /\ r.head = 0 /\ r.tail = 0
    BY DEF LoopRings, Ring
  <2> HIDE DEF r
  <2>2. 0 .. r.head - 1 = {}
    BY <2>1
  <2> QED BY <2>1, <2>2 DEF RingHolds
<1>10. loopbacks = [client |-> r, server |-> r]
  BY DEF Init
<1> HIDE DEF r
<1>11. RingsOK
  BY <1>9, <1>10 DEF RingsOK, RingHolds
<1>12. HeardOK
  <2>1. heard = [client |-> <<>>, server |-> <<>>]
    BY DEF Init
  <2> QED BY <2>1 DEF HeardOK, HeardFrom
<1>13. MarksOK
  <2>1. marks = [svFrame |-> 0, frame |-> 0, start |-> 0] /\ phase = "events"
    BY DEF Init
  <2>2. ~ClientHasRead
    BY <2>1 DEF ClientHasRead
  <2>3. OldestKept(loopbacks.server) \in Nat
    BY <1>9, <1>10, OldestIs
  <2> QED BY <1>9, <1>10, <2>1, <2>2, <2>3 DEF MarksOK
<1> QED BY <1>5, <1>7, <1>8, <1>11, <1>12, <1>13 DEF FrameInv

(* Every step keeps it.                                                    *)
LEMMA FrameInvStep == FrameInv /\ [Next]_vars => FrameInv'
BY EventStep, PacketStep, MarksStep DEF FrameInv

(* The rings, the loops and the marks of the frame fit together.           *)
THEOREM Invariance == Spec => []FrameInv
BY FrameInit, FrameInvStep, PTL DEF Spec

(* The frame, its event loops and the heads and tails of all rings have    *)
(* their types in every execution.                                         *)
THEOREM TypeCorrect == Spec => []TypeOK
<1>1. FrameInv => TypeOK
  <2> SUFFICES ASSUME FrameInv PROVE TypeOK
    OBVIOUS
  <2>1. /\ phase \in Phases /\ Len(loops) <= MaxDepth /\ LoopsOK(loops)
    BY DEF FrameInv, ControlOK
  <2>2. ASSUME NEW i \in DOMAIN loops
        PROVE  /\ loops[i].at \in {"event", "client", "server"}
               /\ loops[i].code \in {"none", "client", "server"}
               /\ loops[i].event \in 0 .. arrived
    <3>1. loops \in Seq(LoopRecords)
      BY <2>1 DEF LoopsOK
    <3>2. loops[i] \in LoopRecords
      BY <3>1, LenProperties, ElementOfSeq
    <3>3. Held(loops) \subseteq 1 .. arrived /\ arrived \in Nat
      BY Places DEF FrameInv, OrderOK
    <3>4. loops[i].event \in {0} \union 1 .. arrived
      BY <3>3 DEF Held
    <3>5. loops[i].event \in 0 .. arrived
      BY <3>3, <3>4
    <3> QED BY <3>2, <3>5 DEF LoopRecords
  <2>3. eventQue.tail <= eventQue.head /\ pushed.tail <= pushed.head
    BY DEF FrameInv, OrderOK, QueueOK
  <2>4. /\ loopbacks.client.tail <= loopbacks.client.head
        /\ loopbacks.server.tail <= loopbacks.server.head
    BY DEF FrameInv, RingsOK, RingHolds
  <2> QED BY <2>1, <2>2, <2>3, <2>4 DEF TypeOK, Phases
<1> QED BY <1>1, Invariance, PTL

(* Events are handled in the order in which they arrived, although the     *)
(* clock reads ahead and a handler may run an event loop (Com_GetEvent,    *)
(* Com_PushEvent, Com_Milliseconds).                                       *)
THEOREM InOrder == Spec => []EventsInOrder
<1>1. FrameInv => EventsInOrder
  BY DEF FrameInv, OrderOK, Rising, EventsInOrder
<1> QED BY <1>1, Invariance, PTL

(* The client hears what the server sent in its part of the frame before   *)
(* its own part begins, or it was overwritten (Com_Frame).                 *)
THEOREM SameFrame == Spec => []SentThisFrameHeard
<1>1. FrameInv => SentThisFrameHeard
  BY DEF FrameInv, MarksOK, ClientHasRead, SentThisFrameHeard
<1> QED BY <1>1, Invariance, PTL

-----------------------------------------------------------------------------
(* The data of an event.                                                   *)

InPlace(s, e) == {k \in DOMAIN s : s[k] = e}
OnceIn(s, e) == \E k \in DOMAIN s : InPlace(s, e) = {k}

(* An event is once in two sequences if it is once in one, not in the      *)
(* other.                                                                  *)
LEMMA OnceInTwo ==
  ASSUME NEW s \in Seq(Nat), NEW t \in Seq(Nat), NEW e
  PROVE  /\ InPlace(s, e) = {} /\ InPlace(t, e) = {} => InPlace(s \o t, e) = {}
         /\ OnceIn(s, e) /\ InPlace(t, e) = {} => OnceIn(s \o t, e)
         /\ InPlace(s, e) = {} /\ OnceIn(t, e) => OnceIn(s \o t, e)
<1> DEFINE u == s \o t
           m == Len(s)
           n == Len(t)
<1>1. m \in Nat /\ n \in Nat /\ DOMAIN s = 1 .. m /\ DOMAIN t = 1 .. n
  BY LenProperties
<1>2. /\ u \in Seq(Nat) /\ Len(u) = m + n
      /\ \A i \in 1 .. m + n : u[i] = IF i <= m THEN s[i] ELSE t[i - m]
  BY ConcatProperties
<1>3. DOMAIN u = 1 .. m + n
  <2> HIDE DEF u
  <2> QED BY <1>2, LenProperties
<1> HIDE DEF u, m, n
<1>4. \A i \in DOMAIN u : \/ i \in DOMAIN s /\ u[i] = s[i]
                          \/ i - m \in DOMAIN t /\ u[i] = t[i - m] /\ i = m + (i - m)
  BY <1>1, <1>2, <1>3
<1>5. \A i \in DOMAIN s : i \in DOMAIN u /\ u[i] = s[i]
  BY <1>1, <1>2, <1>3
<1>6. \A j \in DOMAIN t : m + j \in DOMAIN u /\ u[m + j] = t[j] /\ m + j \notin DOMAIN s
  BY <1>1, <1>2, <1>3
<1>7. InPlace(u, e) = InPlace(s, e) \union {m + j : j \in InPlace(t, e)}
  <2>1. InPlace(u, e) \subseteq InPlace(s, e) \union {m + j : j \in InPlace(t, e)}
    <3>1. ASSUME NEW i \in InPlace(u, e)
          PROVE  i \in InPlace(s, e) \/ \E j \in InPlace(t, e) : i = m + j
      BY <1>4 DEF InPlace
    <3> QED BY <3>1
  <2>2. InPlace(s, e) \subseteq InPlace(u, e)
    BY <1>5 DEF InPlace
  <2>3. {m + j : j \in InPlace(t, e)} \subseteq InPlace(u, e)
    BY <1>6 DEF InPlace
  <2> QED BY <2>1, <2>2, <2>3
<1>8. InPlace(s, e) = {} /\ InPlace(t, e) = {} => InPlace(u, e) = {}
  BY <1>7
<1>9. ASSUME OnceIn(s, e), InPlace(t, e) = {} PROVE OnceIn(u, e)
  BY <1>5, <1>7, <1>9 DEF OnceIn
<1>10. ASSUME InPlace(s, e) = {}, OnceIn(t, e) PROVE OnceIn(u, e)
  <2>1. PICK j \in DOMAIN t : InPlace(t, e) = {j}
    BY <1>10 DEF OnceIn
  <2>2. InPlace(u, e) = {m + j}
    BY <1>7, <1>10, <2>1
  <2> QED BY <1>6, <2>1, <2>2 DEF OnceIn
<1> QED BY <1>8, <1>9, <1>10 DEF u

(* In a sequence without repetitions, what is in it is in it once.         *)
LEMMA OnceInjective ==
  ASSUME NEW s, IsInjective(s), NEW e
  PROVE  IF e \in Range(s) THEN OnceIn(s, e) ELSE InPlace(s, e) = {}
BY DEF IsInjective, Range, OnceIn, InPlace

(* The events that the loops hold.                                         *)
LEMMA OnceHeld ==
  ASSUME LoopsOK(loops), NEW e, e # 0
  PROVE  LET s == [i \in DOMAIN loops |-> loops[i].event]
         IN /\ s \in Seq(Nat)
            /\ IF e \in Held(loops) THEN OnceIn(s, e) ELSE InPlace(s, e) = {}
<1> DEFINE s == [i \in DOMAIN loops |-> loops[i].event]
<1>1. loops \in Seq(LoopRecords) /\ DOMAIN loops = 1 .. Len(loops) /\ Len(loops) \in Nat
  BY LenProperties DEF LoopsOK
<1>2. \A i \in DOMAIN loops : loops[i].event \in Nat
  <2>1. \A i \in DOMAIN loops : loops[i] \in LoopRecords
    BY <1>1, ElementOfSeq
  <2> QED BY <2>1 DEF LoopRecords
<1>3. s \in Seq(Nat)
  <2>1. s \in [1 .. Len(loops) -> Nat]
    BY <1>1, <1>2
  <2> QED BY <1>1, <2>1, FunctionIsSeq
<1>4. /\ DOMAIN s = DOMAIN loops
      /\ \A i \in DOMAIN loops : s[i] = loops[i].event
  OBVIOUS
<1> HIDE DEF s
<1>5. CASE e \in Held(loops)
  <2>1. PICK k \in DOMAIN loops : loops[k].event = e
    BY <1>5 DEF Held
  <2>2. \A i \in DOMAIN loops : loops[i].event = e => i = k
    BY <2>1 DEF LoopsOK
  <2>3. InPlace(s, e) = {k}
    BY <1>4, <2>1, <2>2 DEF InPlace
  <2>4. OnceIn(s, e)
    BY <1>4, <2>1, <2>3 DEF OnceIn
  <2> QED BY <1>3, <1>5, <2>4 DEF s
<1>6. CASE e \notin Held(loops)
  <2>1. \A i \in DOMAIN loops : loops[i].event # e
    BY <1>6 DEF Held
  <2>2. InPlace(s, e) = {}
    BY <1>4, <2>1 DEF InPlace
  <2> QED BY <1>3, <1>6, <2>2 DEF s
<1> QED BY <1>5, <1>6

(* The data of an event is freed once, after it has been in one of the     *)
(* rings or with its handler, unless an error took it from its handler     *)
(* (Lin_QueEvent, Com_PushEvent, Com_EventLoop).                           *)
THEOREM FreedOnce == Spec => []DataFreedOnce
<1>1. FrameInv => DataFreedOnce
  <2> SUFFICES ASSUME FrameInv, NEW e \in 1 .. arrived
               PROVE  LET places == freed \o Waiting(eventQue, MAX_QUED_EVENTS)
                                          \o Waiting(pushed, MAX_PUSHED_EVENTS)
                                          \o [i \in DOMAIN loops |-> loops[i].event]
                      IN Cardinality(InPlace(places, e)) = IF e \in leaked THEN 0 ELSE 1
    BY DEF DataFreedOnce, InPlace
  <2> DEFINE q == Waiting(eventQue, MAX_QUED_EVENTS)
             p == Waiting(pushed, MAX_PUSHED_EVENTS)
             h == [i \in DOMAIN loops |-> loops[i].event]
  <2>1. e # 0
    BY DEF FrameInv, OrderOK
  <2>2. /\ freed \in Seq(Nat) /\ q \in Seq(Nat) /\ p \in Seq(Nat)
        /\ IsInjective(freed) /\ IsInjective(q) /\ IsInjective(p)
    <3>1. /\ QueueOK(pushed, MAX_PUSHED_EVENTS) /\ QueueOK(eventQue, MAX_QUED_EVENTS)
          /\ Rising(p) /\ Rising(q)
      BY DEF FrameInv, OrderOK
    <3>2. MAX_QUED_EVENTS \in Nat \ {0} /\ MAX_PUSHED_EVENTS \in Nat \ {0}
      BY RingsAssumption
    <3>3. q \in Seq(Nat) /\ p \in Seq(Nat)
      BY <3>1, <3>2, WaitingIs
    <3> HIDE DEF q, p
    <3> QED BY <3>1, <3>3, RisingOnce DEF FrameInv, PlacesOK
  <2>3. /\ h \in Seq(Nat)
        /\ IF e \in Held(loops) THEN OnceIn(h, e) ELSE InPlace(h, e) = {}
    BY <2>1, OnceHeld DEF FrameInv, ControlOK
  <2>4. Range(q) = Queued /\ Range(p) = Pushed
    BY DEF Queued, Pushed
  <2> HIDE DEF q, p, h
  <2>5. /\ IF e \in Range(freed) THEN OnceIn(freed, e) ELSE InPlace(freed, e) = {}
        /\ IF e \in Queued THEN OnceIn(q, e) ELSE InPlace(q, e) = {}
        /\ IF e \in Pushed THEN OnceIn(p, e) ELSE InPlace(p, e) = {}
    BY <2>2, <2>4, OnceInjective
  <2>6. /\ freed \o q \in Seq(Nat) /\ (freed \o q) \o p \in Seq(Nat)
        /\ ((freed \o q) \o p) \o h \in Seq(Nat)
    BY <2>2, <2>3, ConcatProperties
  <2> DEFINE places == ((freed \o q) \o p) \o h
  <2>7. /\ Range(freed) \intersect (Queued \union Pushed \union Held(loops) \union leaked) = {}
        /\ Queued \intersect (Pushed \union Held(loops) \union leaked) = {}
        /\ Pushed \intersect (Held(loops) \union leaked) = {}
        /\ Held(loops) \intersect leaked = {}
        /\ e \in Range(freed) \union Queued \union Pushed \union Held(loops) \union leaked
    BY DEF FrameInv, PlacesOK
  <2>8. IF e \in leaked THEN InPlace(places, e) = {} ELSE OnceIn(places, e)
    <3>1. CASE e \in leaked
      <4>1. /\ InPlace(freed, e) = {} /\ InPlace(q, e) = {} /\ InPlace(p, e) = {}
            /\ InPlace(h, e) = {}
        BY <2>3, <2>5, <2>7, <3>1
      <4>2. InPlace(freed \o q, e) = {}
        BY <2>2, <4>1, OnceInTwo
      <4>3. InPlace((freed \o q) \o p, e) = {}
        BY <2>2, <2>6, <4>1, <4>2, OnceInTwo
      <4>4. InPlace(places, e) = {}
        BY <2>3, <2>6, <4>1, <4>3, OnceInTwo
      <4> QED BY <3>1, <4>4
    <3>2. CASE e \in Held(loops)
      <4>1. /\ InPlace(freed, e) = {} /\ InPlace(q, e) = {} /\ InPlace(p, e) = {}
            /\ OnceIn(h, e) /\ e \notin leaked
        BY <2>3, <2>5, <2>7, <3>2
      <4>2. InPlace(freed \o q, e) = {}
        BY <2>2, <4>1, OnceInTwo
      <4>3. InPlace((freed \o q) \o p, e) = {}
        BY <2>2, <2>6, <4>1, <4>2, OnceInTwo
      <4>4. OnceIn(places, e)
        BY <2>3, <2>6, <4>1, <4>3, OnceInTwo
      <4> QED BY <4>1, <4>4
    <3>3. CASE e \in Pushed
      <4>1. /\ InPlace(freed, e) = {} /\ InPlace(q, e) = {} /\ OnceIn(p, e)
            /\ InPlace(h, e) = {} /\ e \notin leaked
        BY <2>3, <2>5, <2>7, <3>3
      <4>2. InPlace(freed \o q, e) = {}
        BY <2>2, <4>1, OnceInTwo
      <4>3. OnceIn((freed \o q) \o p, e)
        BY <2>2, <2>6, <4>1, <4>2, OnceInTwo
      <4>4. OnceIn(places, e)
        BY <2>3, <2>6, <4>1, <4>3, OnceInTwo
      <4> QED BY <4>1, <4>4
    <3>4. CASE e \in Range(freed) \union Queued
      <4>1. /\ InPlace(p, e) = {} /\ InPlace(h, e) = {} /\ e \notin leaked
            /\ \/ OnceIn(freed, e) /\ InPlace(q, e) = {}
               \/ InPlace(freed, e) = {} /\ OnceIn(q, e)
        BY <2>3, <2>5, <2>7, <3>4
      <4>2. OnceIn(freed \o q, e)
        BY <2>2, <4>1, OnceInTwo
      <4>3. OnceIn((freed \o q) \o p, e)
        BY <2>2, <2>6, <4>1, <4>2, OnceInTwo
      <4>4. OnceIn(places, e)
        BY <2>3, <2>6, <4>1, <4>3, OnceInTwo
      <4> QED BY <4>1, <4>4
    <3> QED BY <2>7, <3>1, <3>2, <3>3, <3>4
  <2> HIDE DEF places
  <2>9. Cardinality(InPlace(places, e)) = IF e \in leaked THEN 0 ELSE 1
    BY <2>8, FS_EmptySet, FS_Singleton DEF OnceIn
  <2> QED BY <2>9 DEF places, q, p, h
<1> QED BY <1>1, Invariance, PTL

-----------------------------------------------------------------------------
(* The rings as message channels.                                          *)

(* What a channel does: a packet is sent, one is delivered, or nothing.    *)
Moves(head, next, h, g) ==
    \/ next = head /\ g = h
    \/ next = head + 1 /\ next \in 1 .. MaxPackets /\ g = h
    \/ /\ next = head
       /\ \E s \in 1 .. head :
            /\ \A i \in DOMAIN h : h[i].sequence < s
            /\ g = Append(h, [sequence |-> s, data |-> s])

(* Sending a packet moves one channel.                                     *)
LEMMA SendMoves ==
  ASSUME RingsOK, HeardOK, NEW end \in {"client", "server"}, SendTo(end),
         NEW to \in {"client", "server"}
  PROVE  Moves(loopbacks[to].head, loopbacks'[to].head, heard[to], heard'[to])
<1>1. /\ loopbacks \in [client : LoopRings, server : LoopRings]
      /\ heard' = heard
      /\ loopbacks' = [loopbacks EXCEPT ![end] =
                         LoopSend(loopbacks[end], loopbacks[end].head + 1)]
      /\ loopbacks[end].head < MaxPackets
  BY DEF RingsOK, SendTo
<1>2. CASE to = end
  <2>1. loopbacks'[to] = LoopSend(loopbacks[to], loopbacks[to].head + 1)
    BY <1>1, <1>2
  <2>2. loopbacks'[to].head = loopbacks[to].head + 1
    BY <2>1 DEF LoopSend
  <2>3. loopbacks[to].head \in Nat /\ MaxPackets \in Nat
    BY <1>1, BoundsAssumption DEF LoopRings
  <2>4. loopbacks[to].head + 1 \in 1 .. MaxPackets
    BY <1>1, <1>2, <2>3
  <2> QED BY <1>1, <2>2, <2>4 DEF Moves
<1>3. CASE to # end
  <2>1. loopbacks'[to] = loopbacks[to]
    BY <1>1, <1>3
  <2> QED BY <1>1, <2>1 DEF Moves
<1> QED BY <1>2, <1>3

(* Reading one moves one channel too, or none if it is flushed.            *)
LEMMA GetMoves ==
  ASSUME RingsOK, HeardOK, NEW end \in {"client", "server"},
         NET_GetLoopPacket(end),
         \/ heard' = heard
         \/ heard' = [heard EXCEPT ![end] = Append(@, Got(end))],
         NEW to \in {"client", "server"}
  PROVE  Moves(loopbacks[to].head, loopbacks'[to].head, heard[to], heard'[to])
<1> DEFINE r == loopbacks[end]
<1>1. /\ loopbacks \in [client : LoopRings, server : LoopRings]
      /\ loopbacks' = [loopbacks EXCEPT ![end] = Taken(r)]
      /\ HasPacket(r)
  BY DEF RingsOK, NET_GetLoopPacket, Taken
<1>2. RingHolds(r) /\ HeardFrom(heard[end], r)
  BY DEF RingsOK, HeardOK
<1>3. /\ Taken(r).head = r.head /\ OldestKept(r) + 1 \in 1 .. r.head
      /\ Got(end) = [sequence |-> OldestKept(r) + 1, data |-> OldestKept(r) + 1]
      /\ \A i \in DOMAIN heard[end] : heard[end][i].sequence < OldestKept(r) + 1
  BY <1>1, <1>2, TakenHolds, HearsNext DEF Got
<1>4. loopbacks'[to].head = loopbacks[to].head
  <2>1. loopbacks'[to] = IF to = end THEN Taken(r) ELSE loopbacks[to]
    BY <1>1
  <2> QED BY <1>3, <2>1
<1>5. heard'[to] = heard[to] \/ (to = end /\ heard'[to] = Append(heard[to], Got(end)))
  BY DEF HeardOK
<1>6. CASE heard'[to] = heard[to]
  BY <1>4, <1>6 DEF Moves
<1>7. CASE to = end /\ heard'[to] = Append(heard[to], Got(end))
  BY <1>3, <1>4, <1>7 DEF Moves
<1> QED BY <1>5, <1>6, <1>7

(* Every step moves each channel, or leaves it alone.                      *)
LEMMA ChannelsMove ==
  ASSUME FrameInv, [Next]_vars, NEW to \in {"client", "server"}
  PROVE  Moves(loopbacks[to].head, loopbacks'[to].head, heard[to], heard'[to])
<1>1. RingsOK /\ HeardOK
  BY DEF FrameInv
<1>2. CASE CL_PacketEvent
  <2>1. /\ NET_GetLoopPacket("client")
        /\ heard' = [heard EXCEPT !["client"] = Append(@, Got("client"))]
    BY <1>2 DEF CL_PacketEvent
  <2> QED BY <1>1, <2>1, GetMoves
<1>3. CASE SV_PacketEvent
  <2>1. /\ NET_GetLoopPacket("server")
        /\ \/ heard' = heard
           \/ heard' = [heard EXCEPT !["server"] = Append(@, Got("server"))]
    BY <1>3 DEF SV_PacketEvent
  <2> QED BY <1>1, <2>1, GetMoves
<1>4. CASE UNCHANGED packetVars
  BY <1>4 DEF packetVars, Moves
<1>5. CASE NET_SendPacket \/ Com_Error
  <2>1. SendTo("server") \/ SendTo("client") \/ UNCHANGED packetVars
    BY <1>5 DEF NET_SendPacket, Com_Error
  <2> QED BY <1>1, <1>4, <2>1, SendMoves
<1>6. CASE ~CL_PacketEvent /\ ~SV_PacketEvent /\ ~NET_SendPacket /\ ~Com_Error
  <2>1. UNCHANGED packetVars
    BY <1>6 DEF Next, vars, Com_GetEvent, EventHandled, PacketHandled,
                ToClientDone, EventLoopReturns, Cbuf_ExecuteReturns,
                SV_FrameReturns, CL_FrameReturns, SV_Startup, SV_Shutdown,
                Com_Milliseconds, PumpEvents
  <2> QED BY <1>4, <2>1
<1> QED BY <1>2, <1>3, <1>5, <1>6

(* One more packet has been sent.                                          *)
LEMMA Numbered ==
  ASSUME NEW n \in Nat
  PROVE  [i \in 1 .. n + 1 |-> i] = Append([i \in 1 .. n |-> i], n + 1)
<1> DEFINE s == [i \in 1 .. n |-> i]
           t == [i \in 1 .. n + 1 |-> i]
<1>1. s \in [1 .. n -> Nat] /\ t \in [1 .. n + 1 -> Nat]
  OBVIOUS
<1>2. s \in Seq(Nat) /\ Len(s) = n /\ t \in Seq(Nat) /\ Len(t) = n + 1
  BY <1>1, FunctionIsSeq
<1>3. /\ Append(s, n + 1) \in Seq(Nat) /\ Len(Append(s, n + 1)) = n + 1
      /\ \A i \in 1 .. n : Append(s, n + 1)[i] = s[i]
      /\ Append(s, n + 1)[n + 1] = n + 1
  BY <1>2, AppendProperties
<1>4. ASSUME NEW i \in 1 .. n + 1 PROVE t[i] = Append(s, n + 1)[i]
  BY <1>3
<1> HIDE DEF s, t
<1>5. t = Append(s, n + 1)
  BY <1>2, <1>3, <1>4, SeqEqual
<1> QED BY <1>5 DEF s, t

(* The ring to the client, and the one to the server, are message          *)
(* channels: a packet that is overwritten is lost, one that is read is     *)
(* whole, new and later than all before it (NET_SendLoopPacket,            *)
(* NET_GetLoopPacket).                                                     *)
THEOREM LoopbackRefinement == Spec => LoopbackIsChannel
<1>1. Init => ToClient!Init /\ ToServer!Init
  <2>1. \A f : f = [i \in 1 .. 0 |-> i] => f = <<>>
    OBVIOUS
  <2>2. Init => /\ loopbacks.client.head = 0 /\ loopbacks.server.head = 0
                /\ heard.client = <<>> /\ heard.server = <<>>
    BY DEF Init, Ring
  <2> QED BY <2>1, <2>2 DEF ToClient!Init, ToServer!Init
<1>2. FrameInv /\ [Next]_vars => [ToClient!Next]_ToClient!vars
  <2> SUFFICES ASSUME FrameInv, [Next]_vars PROVE [ToClient!Next]_ToClient!vars
    OBVIOUS
  <2> DEFINE n == loopbacks.client.head
             m == loopbacks'.client.head
             h == heard.client
             g == heard'.client
  <2>1. Moves(n, m, h, g) /\ n \in Nat
    BY ChannelsMove DEF FrameInv, RingsOK, LoopRings
  <2>2. CASE m = n /\ g = h
    BY <2>2 DEF ToClient!vars
  <2>3. CASE m = n + 1 /\ m \in 1 .. MaxPackets /\ g = h
    <3>1. [i \in 1 .. m |-> i] = Append([i \in 1 .. n |-> i], m)
      BY <2>1, <2>3, Numbered
    <3>2. PICK k \in 1 .. MaxPackets : k = m
      BY <2>3
    <3>3. ToClient!Send(k)
      BY <2>3, <3>1, <3>2 DEF ToClient!Send
    <3> QED BY <3>3 DEF ToClient!Next
  <2>4. ASSUME m = n, NEW s \in 1 .. n, \A i \in DOMAIN h : h[i].sequence < s,
               g = Append(h, [sequence |-> s, data |-> s])
        PROVE  ToClient!Next
    <3>1. ToClient!Deliver(s)
      BY <2>4 DEF ToClient!Deliver
    <3> QED BY <3>1 DEF ToClient!Next
  <2>5. \/ m = n /\ g = h
        \/ m = n + 1 /\ m \in 1 .. MaxPackets /\ g = h
        \/ /\ m = n
           /\ \E s \in 1 .. n : /\ \A i \in DOMAIN h : h[i].sequence < s
                               /\ g = Append(h, [sequence |-> s, data |-> s])
    BY <2>1 DEF Moves
  <2> HIDE DEF n, m, h, g
  <2> QED BY <2>2, <2>3, <2>4, <2>5
<1>3. FrameInv /\ [Next]_vars => [ToServer!Next]_ToServer!vars
  <2> SUFFICES ASSUME FrameInv, [Next]_vars PROVE [ToServer!Next]_ToServer!vars
    OBVIOUS
  <2> DEFINE n == loopbacks.server.head
             m == loopbacks'.server.head
             h == heard.server
             g == heard'.server
  <2>1. Moves(n, m, h, g) /\ n \in Nat
    BY ChannelsMove DEF FrameInv, RingsOK, LoopRings
  <2>2. CASE m = n /\ g = h
    BY <2>2 DEF ToServer!vars
  <2>3. CASE m = n + 1 /\ m \in 1 .. MaxPackets /\ g = h
    <3>1. [i \in 1 .. m |-> i] = Append([i \in 1 .. n |-> i], m)
      BY <2>1, <2>3, Numbered
    <3>2. PICK k \in 1 .. MaxPackets : k = m
      BY <2>3
    <3>3. ToServer!Send(k)
      BY <2>3, <3>1, <3>2 DEF ToServer!Send
    <3> QED BY <3>3 DEF ToServer!Next
  <2>4. ASSUME m = n, NEW s \in 1 .. n, \A i \in DOMAIN h : h[i].sequence < s,
               g = Append(h, [sequence |-> s, data |-> s])
        PROVE  ToServer!Next
    <3>1. ToServer!Deliver(s)
      BY <2>4 DEF ToServer!Deliver
    <3> QED BY <3>1 DEF ToServer!Next
  <2>5. \/ m = n /\ g = h
        \/ m = n + 1 /\ m \in 1 .. MaxPackets /\ g = h
        \/ /\ m = n
           /\ \E s \in 1 .. n : /\ \A i \in DOMAIN h : h[i].sequence < s
                               /\ g = Append(h, [sequence |-> s, data |-> s])
    BY <2>1 DEF Moves
  <2> HIDE DEF n, m, h, g
  <2> QED BY <2>2, <2>3, <2>4, <2>5
<1> QED
  BY <1>1, <1>2, <1>3, Invariance, PTL
     DEF Spec, LoopbackIsChannel, ToClient!Spec, ToServer!Spec

(* A server that starts hears nothing that was sent before the frame it    *)
(* started in, which was flushed or overwritten ("if the server just shut  *)
(* down, flush the events", Com_EventLoop).                                *)
THEOREM NoOldPackets == Spec => NewServerHearsNoOld
<1>1. FrameInv /\ [Next]_vars =>
        [heard'.server # heard.server =>
           Last(heard'.server).sequence > marks.start]_vars
  <2> SUFFICES ASSUME FrameInv, [Next]_vars, heard'.server # heard.server
               PROVE  Last(heard'.server).sequence > marks.start
    OBVIOUS
  <2> DEFINE r == loopbacks.server
  <2>1. /\ RingHolds(r) /\ heard = [client |-> heard.client, server |-> heard.server]
        /\ heard.server \in Seq(Packets) /\ HeardFrom(heard.server, r)
    BY DEF FrameInv, RingsOK, HeardOK, HeardFrom
  <2>2. /\ NET_GetLoopPacket("server")
        /\ heard' = [heard EXCEPT !.server = Append(@, Got("server"))]
    <3>1. CASE CL_PacketEvent
      <4>1. heard' = [heard EXCEPT !.client = Append(@, Got("client"))]
        BY <3>1 DEF CL_PacketEvent
      <4>2. heard'.server = heard.server
        BY <2>1, <4>1
      <4> QED BY <4>2
    <3>2. CASE SV_PacketEvent
      BY <3>2 DEF SV_PacketEvent
    <3>3. CASE ~CL_PacketEvent /\ ~SV_PacketEvent
      <4>1. UNCHANGED heard
        BY <3>3 DEF Next, vars, packetVars, Com_GetEvent, EventHandled, PacketHandled,
                    ToClientDone, EventLoopReturns, Cbuf_ExecuteReturns,
                    SV_FrameReturns, CL_FrameReturns, SV_Startup, SV_Shutdown,
                    Com_Milliseconds, PumpEvents, NET_SendPacket, Com_Error,
                    SendTo
      <4> QED BY <4>1
    <3> QED BY <3>1, <3>2, <3>3
  <2>3. heard'.server = Append(heard.server, Got("server"))
    BY <2>1, <2>2
  <2>4. /\ Got("server") \in Packets
        /\ Got("server").sequence = OldestKept(r) + 1 /\ OldestKept(r) \in Nat
    <3>1. HasPacket(r)
      BY <2>2 DEF NET_GetLoopPacket
    <3>2. OldestKept(r) \in Nat
      BY <2>1, OldestIs
    <3>3. Got("server") = [sequence |-> OldestKept(r) + 1, data |-> OldestKept(r) + 1]
      BY <2>1, <3>1, HearsNext DEF Got
    <3> QED BY <3>2, <3>3 DEF Packets
  <2>5. Last(heard'.server) = Got("server")
    BY <2>1, <2>3, <2>4, AppendProperties DEF Last
  <2>6. OldestKept(r) >= marks.start /\ marks.start \in Nat
    BY DEF FrameInv, MarksOK
  <2> QED BY <2>4, <2>5, <2>6
<1> QED BY <1>1, Invariance, PTL DEF Spec, NewServerHearsNoOld
=============================================================================
