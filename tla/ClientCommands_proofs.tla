----------------------- MODULE ClientCommands_proofs -----------------------
(***************************************************************************)
(* Proofs about ClientCommands, for every size of the ring, number of      *)
(* commands and number of messages in flight.                              *)
(***************************************************************************)
EXTENDS ClientCommands, SequencesExt, SequenceTheorems, TLAPS

-----------------------------------------------------------------------------
(* Slots of a ring and sequences.                                          *)

(* Division by the size of the ring: the slot is the remainder.            *)
LEMMA SlotOf ==
  ASSUME NEW size \in Nat \ {0}, NEW n \in Nat
  PROVE  /\ n = size * (n \div size) + (n % size)
         /\ n % size \in 0 .. size - 1
         /\ n \div size \in Nat
OBVIOUS

(* The slots of two numbers less than a ring apart are different.          *)
LEMMA SlotsOfNeighbours ==
  ASSUME NEW size \in Nat \ {0}, NEW m \in Nat, NEW n \in Nat,
         m < n, n < m + size
  PROVE  m % size # n % size
<1> DEFINE a == m \div size
           b == n \div size
           r == n % size
<1> SUFFICES ASSUME m % size = n % size PROVE FALSE
  OBVIOUS
<1>1. a \in Nat /\ b \in Nat /\ r \in Nat
  <2>1. a \in Nat /\ b \in Nat
    BY SlotOf
  <2>2. r \in 0 .. size - 1
    BY SlotOf
  <2> HIDE DEF a, b, r
  <2> QED BY <2>1, <2>2
<1>2. m = size * a + r /\ n = size * b + r
  BY SlotOf
<1> HIDE DEF a, b, r
<1>3. n - m = size * (b - a)
  BY <1>1, <1>2
<1>4. b - a >= 1 => size * (b - a) >= size
  BY <1>1
<1>5. b - a <= 0 => size * (b - a) <= 0
  BY <1>1
<1> QED BY <1>1, <1>3, <1>4, <1>5

(* A function on 1 .. k is a sequence of length k.                         *)
LEMMA FunctionIsSeq ==
  ASSUME NEW S, NEW k \in Nat, NEW f \in [1 .. k -> S]
  PROVE  f \in Seq(S) /\ Len(f) = k
<1>1. f \in Seq(S)
  BY SeqDef
<1>2. DOMAIN f = 1 .. k /\ DOMAIN f = 1 .. Len(f) /\ Len(f) \in Nat
  BY <1>1, LenProperties
<1> QED BY <1>1, <1>2

(* A message that is lost leaves the others in their order.                *)
LEMMA RemoveAtProperties ==
  ASSUME NEW S, NEW s \in Seq(S), NEW i \in DOMAIN s
  PROVE  /\ RemoveAt(s, i) \in Seq(S)
         /\ Len(RemoveAt(s, i)) = Len(s) - 1
         /\ \A j \in 1 .. Len(s) - 1 :
              RemoveAt(s, i)[j] = s[IF j < i THEN j ELSE j + 1]
<1> DEFINE before == SubSeq(s, 1, i - 1)
           after == SubSeq(s, i + 1, Len(s))
<1>0. Len(s) \in Nat /\ DOMAIN s = 1 .. Len(s)
  BY LenProperties
<1>1. \A j \in 1 .. Len(s) : s[j] \in S
  BY ElementOfSeq
<1>2. /\ before \in Seq(S) /\ Len(before) = i - 1
      /\ \A j \in 1 .. i - 1 : before[j] = s[j]
  <2>1. \A j \in 1 .. i - 1 : s[j] \in S
    BY <1>0, <1>1
  <2>2. /\ before \in Seq(S)
        /\ Len(before) = IF 1 <= i - 1 THEN (i - 1) - 1 + 1 ELSE 0
        /\ \A j \in 1 .. (i - 1) - 1 + 1 : before[j] = s[1 + j - 1]
    <3> HIDE DEF before
    <3> QED BY <1>0, <2>1, SubSeqProperties DEF before
  <2> HIDE DEF before
  <2> QED BY <1>0, <2>2
<1>3. /\ after \in Seq(S) /\ Len(after) = Len(s) - i
      /\ \A j \in 1 .. Len(s) - i : after[j] = s[i + j]
  <2>1. \A j \in i + 1 .. Len(s) : s[j] \in S
    BY <1>0, <1>1
  <2>2. /\ after \in Seq(S)
        /\ Len(after) = IF i + 1 <= Len(s) THEN Len(s) - (i + 1) + 1 ELSE 0
        /\ \A j \in 1 .. Len(s) - (i + 1) + 1 : after[j] = s[i + 1 + j - 1]
    <3> HIDE DEF after
    <3> QED BY <1>0, <2>1, SubSeqProperties DEF after
  <2> HIDE DEF after
  <2>3. ASSUME NEW j \in 1 .. Len(s) - i PROVE after[j] = s[i + j]
    <3>1. j \in 1 .. Len(s) - (i + 1) + 1 /\ i + 1 + j - 1 = i + j
      BY <1>0
    <3> QED BY <2>2, <3>1
  <2>4. Len(after) = Len(s) - i
    BY <1>0, <2>2
  <2> QED BY <2>2, <2>3, <2>4
<1>4. RemoveAt(s, i) = before \o after
  BY DEF RemoveAt
<1> HIDE DEF before, after
<1>5. /\ RemoveAt(s, i) \in Seq(S)
      /\ Len(RemoveAt(s, i)) = Len(before) + Len(after)
      /\ \A j \in 1 .. Len(before) + Len(after) :
           RemoveAt(s, i)[j] = IF j <= Len(before) THEN before[j]
                               ELSE after[j - Len(before)]
  <2>1. before \in Seq(S) /\ after \in Seq(S)
    BY <1>2, <1>3
  <2> QED BY <1>4, <2>1, ConcatProperties
<1>6. ASSUME NEW j \in 1 .. Len(s) - 1
      PROVE  RemoveAt(s, i)[j] = s[IF j < i THEN j ELSE j + 1]
  <2>1. CASE j < i
    <3>1. j \in 1 .. i - 1 /\ j \in 1 .. Len(before) + Len(after)
      BY <1>0, <1>2, <1>3, <2>1
    <3> QED BY <1>2, <1>5, <2>1, <3>1
  <2>2. CASE ~(j < i)
    <3>1. /\ j - (i - 1) \in 1 .. Len(s) - i
          /\ ~(j <= i - 1) /\ i + (j - (i - 1)) = j + 1
          /\ j \in 1 .. Len(before) + Len(after)
      BY <1>0, <1>2, <1>3, <2>2
    <3>2. RemoveAt(s, i)[j] = after[j - (i - 1)]
      BY <1>2, <1>5, <3>1
    <3>3. after[j - (i - 1)] = s[j + 1]
      BY <1>3, <3>1
    <3> QED BY <2>2, <3>2, <3>3
  <2> QED BY <2>1, <2>2
<1>7. Len(RemoveAt(s, i)) = Len(s) - 1
  BY <1>0, <1>2, <1>3, <1>5
<1> QED BY <1>5, <1>6, <1>7

(* Taking the oldest message.                                              *)
LEMMA TailOfMessages ==
  ASSUME NEW S, NEW s \in Seq(S), s # <<>>
  PROVE  /\ Head(s) = s[1] /\ 1 \in DOMAIN s /\ Tail(s) \in Seq(S)
         /\ \A i \in DOMAIN Tail(s) : i + 1 \in DOMAIN s /\ Tail(s)[i] = s[i + 1]
<1>1. /\ Len(s) \in Nat \ {0} /\ DOMAIN s = 1 .. Len(s)
      /\ Tail(s) \in Seq(S) /\ Len(Tail(s)) = Len(s) - 1
      /\ \A i \in 1 .. Len(Tail(s)) : Tail(s)[i] = s[i + 1]
  BY LenProperties, EmptySeq, HeadTailProperties
<1>2. DOMAIN Tail(s) = 1 .. Len(Tail(s))
  BY <1>1, LenProperties
<1>3. Head(s) = s[1]
  OBVIOUS
<1> QED BY <1>1, <1>2, <1>3

-----------------------------------------------------------------------------
(* The ring: a slot for every number, and different slots for different    *)
(* numbers that are less than a ring apart.                                *)

(* Division by the number of slots: a slot is the remainder.               *)
LEMMA DivisionRing ==
  ASSUME NEW n \in Nat
  PROVE  /\ n = MAX_RELIABLE_COMMANDS * (n \div MAX_RELIABLE_COMMANDS) + Slot(n)
         /\ Slot(n) \in 0 .. MAX_RELIABLE_COMMANDS - 1
         /\ n \div MAX_RELIABLE_COMMANDS \in Nat
BY RingAssumption, SlotOf DEF Slot

(* The slots of two commands less than a ring apart are different.         *)
LEMMA SlotsDiffer ==
  ASSUME NEW m \in Nat, NEW n \in Nat, m < n, n < m + MAX_RELIABLE_COMMANDS
  PROVE  Slot(m) # Slot(n)
BY RingAssumption, SlotsOfNeighbours DEF Slot

-----------------------------------------------------------------------------
(* Packets.                                                                *)

Text == [number : Nat, text : Nat]

(* The commands of a packet are numbered from a + 1 on.                    *)
Numbered(p, a) == \A j \in DOMAIN p.commands : p.commands[j].number = a + j

(* What PacketOf puts in a packet.                                         *)
LEMMA PacketOfCommands ==
  ASSUME NEW a \in Nat, NEW s \in Nat,
         NEW ring \in [0 .. MAX_RELIABLE_COMMANDS - 1 -> Nat]
  PROVE  LET p == PacketOf(a, s, ring) IN
         /\ p \in Packets /\ p.usercmd = s /\ Numbered(p, a)
         /\ a <= s => Len(p.commands) = s - a
         /\ \A j \in DOMAIN p.commands :
              p.commands[j] = [number |-> a + j, text |-> ring[Slot(a + j)]]
<1> DEFINE cs == [i \in 1 .. s - a |->
                    [number |-> a + i, text |-> ring[Slot(a + i)]]]
           k == IF a <= s THEN s - a ELSE 0
<1>1. k \in Nat /\ 1 .. s - a = 1 .. k
  OBVIOUS
<1>2. ASSUME NEW i \in 1 .. s - a
      PROVE  [number |-> a + i, text |-> ring[Slot(a + i)]] \in Text
  <2>1. a + i \in Nat
    OBVIOUS
  <2>2. Slot(a + i) \in 0 .. MAX_RELIABLE_COMMANDS - 1
    BY <2>1, DivisionRing
  <2> QED BY <2>1, <2>2 DEF Text
<1>3. cs \in [1 .. s - a -> Text]
  BY <1>2
<1> HIDE DEF k
<1>4. cs \in Seq(Text) /\ Len(cs) = k
  <2> HIDE DEF cs
  <2> QED BY <1>1, <1>3, FunctionIsSeq
<1>5. PacketOf(a, s, ring) = [commands |-> cs, usercmd |-> s]
  BY DEF PacketOf
<1>6. DOMAIN cs = 1 .. s - a
  OBVIOUS
<1>7. \A j \in DOMAIN cs :
        cs[j] = [number |-> a + j, text |-> ring[Slot(a + j)]]
  OBVIOUS
<1>8. a <= s => Len(cs) = s - a
  BY <1>4 DEF k
<1> HIDE DEF cs
<1> QED BY <1>4, <1>5, <1>7, <1>8 DEF Packets, Text, Numbered

(* How many commands of a packet numbered from a + 1 on the server has.    *)
Done(p, a) == IF lastClientCommand <= a THEN 0
              ELSE IF lastClientCommand - a <= Len(p.commands)
                THEN lastClientCommand - a ELSE Len(p.commands)

(* Fresh leaves out exactly the commands up to lastClientCommand.          *)
LEMMA FreshCommands ==
  ASSUME lastClientCommand \in Nat, NEW p \in Packets, NEW a \in Nat,
         Numbered(p, a)
  PROVE  /\ Done(p, a) \in 0 .. Len(p.commands)
         /\ Fresh(p) \in Seq(Text)
         /\ Len(Fresh(p)) = Len(p.commands) - Done(p, a)
         /\ \A i \in 1 .. Len(Fresh(p)) :
              Fresh(p)[i] = p.commands[Done(p, a) + i]
<1> DEFINE cs == p.commands
           IsSplit(k) == \A i \in DOMAIN cs :
                           cs[i].number <= lastClientCommand <=> i <= k
<1>1. cs \in Seq(Text) /\ Len(cs) \in Nat /\ DOMAIN cs = 1 .. Len(cs)
  BY LenProperties DEF Packets, Text
<1>2. Done(p, a) \in 0 .. Len(cs)
  BY <1>1 DEF Done
<1>3. IsSplit(Done(p, a))
  BY <1>1 DEF Done, Numbered
<1>4. ASSUME NEW k \in 0 .. Len(cs), IsSplit(k) PROVE k = Done(p, a)
  <2>1. CASE k < Done(p, a)
    <3>1. k + 1 \in DOMAIN cs /\ k + 1 <= Done(p, a)
      BY <1>1, <1>2, <2>1
    <3> QED BY <1>1, <1>2, <1>3, <1>4, <3>1
  <2>2. CASE k > Done(p, a)
    <3>1. Done(p, a) + 1 \in DOMAIN cs /\ Done(p, a) + 1 <= k
      BY <1>1, <1>2, <2>2
    <3> QED BY <1>1, <1>2, <1>3, <1>4, <3>1
  <2> QED BY <1>2, <2>1, <2>2
<1>5. Repeated(p) = CHOOSE k \in 0 .. Len(cs) : IsSplit(k)
  BY DEF Repeated
<1>6. Repeated(p) = Done(p, a)
  <2> HIDE DEF IsSplit
  <2> QED BY <1>2, <1>3, <1>4, <1>5
<1>7. Fresh(p) = SubSeq(cs, Done(p, a) + 1, Len(cs))
  BY <1>6 DEF Fresh
<1>8. \A i \in Done(p, a) + 1 .. Len(cs) : cs[i] \in Text
  BY <1>1, <1>2, ElementOfSeq
<1> HIDE DEF cs
<1>9. /\ Fresh(p) \in Seq(Text)
      /\ Len(Fresh(p)) = IF Done(p, a) + 1 <= Len(cs)
                           THEN Len(cs) - (Done(p, a) + 1) + 1 ELSE 0
      /\ \A i \in 1 .. Len(cs) - (Done(p, a) + 1) + 1 :
           Fresh(p)[i] = cs[Done(p, a) + 1 + i - 1]
  BY <1>1, <1>2, <1>7, <1>8, SubSeqProperties
<1>10. Len(Fresh(p)) = Len(cs) - Done(p, a)
  BY <1>1, <1>2, <1>9
<1>11. ASSUME NEW i \in 1 .. Len(Fresh(p))
       PROVE  Fresh(p)[i] = cs[Done(p, a) + i]
  <2>1. /\ i \in 1 .. Len(cs) - (Done(p, a) + 1) + 1
        /\ Done(p, a) + 1 + i - 1 = Done(p, a) + i
    BY <1>1, <1>2, <1>10
  <2> QED BY <1>9, <2>1
<1> QED BY <1>2, <1>9, <1>10, <1>11 DEF cs
-----------------------------------------------------------------------------
(* Type correctness.                                                       *)

(* Packets keep the numbering that Fresh relies on, so TypeInv is          *)
(* inductive.                                                              *)
PacketsNumbered == \A i \in DOMAIN toServer : \E a \in Nat : Numbered(toServer[i], a)

TypeInv == TypeOK /\ PacketsNumbered

(* A client that has just connected.                                       *)
LEMMA TypeInit == Init => TypeInv
<1> SUFFICES ASSUME Init PROVE TypeInv
  OBVIOUS
<1>1. /\ <<>> \in Seq(Packets) /\ <<>> \in Seq(Nat)
      /\ <<>> \in Seq([text : Nat, done : BOOLEAN]) /\ DOMAIN <<>> = {}
  BY EmptySeq
<1>2. reliableCommands \in [0 .. MAX_RELIABLE_COMMANDS - 1 -> Nat]
  BY DEF Init
<1>3. toServer = <<>>
  BY DEF Init
<1>4. PacketsNumbered
  BY <1>1, <1>3 DEF PacketsNumbered
<1> QED BY <1>1, <1>2, <1>4 DEF Init, TypeInv, TypeOK

(* What the ring and the counters are after a command has been added.      *)
LEMMA AddReliableCommandType ==
  ASSUME TypeOK, AddReliableCommand
  PROVE  /\ reliableSequence' = reliableSequence + 1
         /\ reliableSequence' \in Nat /\ reliableAcknowledge' = reliableAcknowledge
         /\ reliableCommands' \in [0 .. MAX_RELIABLE_COMMANDS - 1 -> Nat]
         /\ \A i \in 0 .. MAX_RELIABLE_COMMANDS - 1 :
              reliableCommands'[i] = IF i = Slot(reliableSequence')
                                       THEN reliableSequence'
                                       ELSE reliableCommands[i]
         /\ overran' \in BOOLEAN
<1>1. reliableSequence' = reliableSequence + 1 /\ reliableSequence' \in Nat
  <2>1. reliableSequence \in Nat
    BY DEF TypeOK
  <2>2. reliableSequence' = reliableSequence + 1
    BY DEF AddReliableCommand
  <2> QED BY <2>1, <2>2
<1>2. Slot(reliableSequence') \in 0 .. MAX_RELIABLE_COMMANDS - 1
  BY <1>1, DivisionRing
<1>3. reliableCommands' = [reliableCommands EXCEPT
                             ![Slot(reliableSequence')] = reliableSequence']
  BY DEF AddReliableCommand
<1>4. overran' \in BOOLEAN /\ reliableAcknowledge' = reliableAcknowledge
  BY DEF AddReliableCommand
<1> QED BY <1>1, <1>2, <1>3, <1>4 DEF TypeOK

(* Packets joining those in flight keep them numbered.                     *)
LEMMA MorePackets ==
  ASSUME TypeInv, NEW more \in Seq(Packets), NEW a \in Nat,
         \A i \in DOMAIN more : Numbered(more[i], a),
         toServer' = toServer \o more
  PROVE  toServer' \in Seq(Packets) /\ PacketsNumbered'
<1>1. toServer \in Seq(Packets)
  BY DEF TypeInv, TypeOK
<1>2. /\ toServer' \in Seq(Packets)
      /\ Len(toServer') = Len(toServer) + Len(more)
      /\ \A i \in 1 .. Len(toServer) + Len(more) :
           toServer'[i] = IF i <= Len(toServer) THEN toServer[i]
                          ELSE more[i - Len(toServer)]
  BY <1>1, ConcatProperties
<1>3. /\ Len(toServer) \in Nat /\ DOMAIN toServer = 1 .. Len(toServer)
      /\ Len(more) \in Nat /\ DOMAIN more = 1 .. Len(more)
      /\ DOMAIN toServer' = 1 .. Len(toServer')
  BY <1>1, <1>2, LenProperties
<1>4. ASSUME NEW i \in DOMAIN toServer'
      PROVE  \E b \in Nat : Numbered(toServer'[i], b)
  <2>1. CASE i <= Len(toServer)
    <3>1. i \in DOMAIN toServer /\ toServer'[i] = toServer[i]
      BY <1>2, <1>3, <2>1
    <3> QED BY <3>1 DEF TypeInv, PacketsNumbered
  <2>2. CASE ~(i <= Len(toServer))
    <3>1. /\ i - Len(toServer) \in DOMAIN more
          /\ toServer'[i] = more[i - Len(toServer)]
      BY <1>2, <1>3, <2>2
    <3> QED BY <3>1
  <2> QED BY <2>1, <2>2
<1> QED BY <1>2, <1>4 DEF PacketsNumbered

(* Losing or taking a packet keeps the others numbered.                    *)
LEMMA FewerPackets ==
  ASSUME PacketsNumbered,
         \A i \in DOMAIN toServer' : \E j \in DOMAIN toServer :
             toServer'[i] = toServer[j]
  PROVE  PacketsNumbered'
  BY DEF PacketsNumbered

(* The packets of CL_WritePacket and CL_Disconnect are packets.            *)
LEMMA ThreePackets ==
  ASSUME NEW p \in Packets
  PROVE  /\ <<p>> \in Seq(Packets) /\ \A i \in DOMAIN <<p>> : <<p>>[i] = p
         /\ <<p, p, p>> \in Seq(Packets)
         /\ \A i \in DOMAIN <<p, p, p>> : <<p, p, p>>[i] = p
  OBVIOUS

(* CL_WritePacket keeps the types.                                         *)
LEMMA WriteType ==
  ASSUME TypeInv, CL_WritePacket
  PROVE  TypeInv'
<1> DEFINE p == PacketOf(reliableAcknowledge, reliableSequence, reliableCommands)
<1>1. /\ TypeOK /\ reliableAcknowledge \in Nat /\ reliableSequence \in Nat
      /\ reliableCommands \in [0 .. MAX_RELIABLE_COMMANDS - 1 -> Nat]
      /\ toServer \in Seq(Packets)
  BY DEF TypeInv, TypeOK
<1>2. p \in Packets /\ Numbered(p, reliableAcknowledge)
  BY <1>1, PacketOfCommands
<1>3. toServer' = Append(toServer, p)
  BY DEF CL_WritePacket
<1> HIDE DEF p
<1>4. toServer' = toServer \o <<p>>
  BY <1>1, <1>2, <1>3, AppendIsConcat
<1>5. <<p>> \in Seq(Packets) /\ \A i \in DOMAIN <<p>> : Numbered(<<p>>[i], reliableAcknowledge)
  BY <1>2, ThreePackets
<1>6. toServer' \in Seq(Packets) /\ PacketsNumbered'
  BY <1>1, <1>4, <1>5, MorePackets
<1>7. UNCHANGED <<clientVars, serverVars, toClient, history>>
  BY DEF CL_WritePacket
<1> QED
  BY <1>1, <1>6, <1>7 DEF TypeInv, TypeOK, clientVars, serverVars, history

(* CL_Disconnect keeps the types.                                          *)
LEMMA DisconnectType ==
  ASSUME TypeInv, CL_Disconnect
  PROVE  TypeInv'
<1> DEFINE p == PacketOf(reliableAcknowledge, reliableSequence', reliableCommands')
<1>1. /\ TypeOK /\ reliableAcknowledge \in Nat /\ AddReliableCommand
      /\ UNCHANGED <<serverVars, toClient, executed, moved>>
      /\ clientState' = "disconnected" /\ quitCommand' = reliableSequence'
      /\ toServer' = toServer \o <<p, p, p>>
  BY DEF TypeInv, TypeOK, CL_Disconnect
<1>2. /\ reliableSequence' \in Nat /\ reliableAcknowledge' = reliableAcknowledge
      /\ reliableCommands' \in [0 .. MAX_RELIABLE_COMMANDS - 1 -> Nat]
      /\ overran' \in BOOLEAN
  BY <1>1, AddReliableCommandType
<1>3. p \in Packets /\ Numbered(p, reliableAcknowledge)
  BY <1>1, <1>2, PacketOfCommands
<1> HIDE DEF p
<1>4. /\ <<p, p, p>> \in Seq(Packets)
      /\ \A i \in DOMAIN <<p, p, p>> : Numbered(<<p, p, p>>[i], reliableAcknowledge)
  BY <1>3, ThreePackets
<1>5. toServer' \in Seq(Packets) /\ PacketsNumbered'
  BY <1>1, <1>4, MorePackets
<1> QED
  BY <1>1, <1>2, <1>5 DEF TypeInv, TypeOK, serverVars

(* Each fresh command of a packet has a text.                              *)
LEMMA ExecuteType ==
  ASSUME TypeInv, toServer # <<>>, NEW quiet \in BOOLEAN,
         ExecuteClientMessage(quiet)
  PROVE  /\ lastClientCommand' \in Nat /\ moved' \in Nat
         /\ executed' \in Seq([text : Nat, done : BOOLEAN])
         /\ dropped' \in {"no", "disconnected", "lost commands"}
         /\ overran' = overran /\ quitCommand' = quitCommand
<1> DEFINE p == Head(toServer)
           took == [i \in DOMAIN Fresh(p) |->
                      [text |-> Fresh(p)[i].text,
                       done |-> CarriedOut(Fresh(p)[i].text, i, quiet)]]
<1>1. p \in Packets /\ p = toServer[1] /\ 1 \in DOMAIN toServer
  <2>1. toServer \in Seq(Packets)
    BY DEF TypeInv, TypeOK
  <2>2. p = toServer[1] /\ 1 \in DOMAIN toServer
    BY <2>1, TailOfMessages
  <2>3. toServer[1] \in Packets
    BY <2>1, <2>2, ElementOfSeq, LenProperties
  <2> QED BY <2>2, <2>3
<1>2. PICK a \in Nat : Numbered(p, a)
  BY <1>1 DEF TypeInv, PacketsNumbered
<1>3. /\ lastClientCommand \in Nat /\ moved \in Nat
      /\ executed \in Seq([text : Nat, done : BOOLEAN])
      /\ dropped \in {"no", "disconnected", "lost commands"}
  BY DEF TypeInv, TypeOK
<1>4. Fresh(p) \in Seq(Text)
  BY <1>1, <1>2, <1>3, FreshCommands
<1>5. /\ lastClientCommand' = lastClientCommand + Len(Fresh(p))
      /\ executed' = executed \o took
      /\ overran' = overran /\ quitCommand' = quitCommand
      /\ \/ dropped' = "disconnected" /\ moved' = moved
         \/ moved' = p.usercmd /\ dropped' = dropped
  BY DEF ExecuteClientMessage
<1>6. /\ Len(Fresh(p)) \in Nat /\ DOMAIN Fresh(p) = 1 .. Len(Fresh(p))
      /\ \A i \in 1 .. Len(Fresh(p)) : Fresh(p)[i].text \in Nat
  <2> HIDE DEF p
  <2>1. Len(Fresh(p)) \in Nat /\ DOMAIN Fresh(p) = 1 .. Len(Fresh(p))
    BY <1>4, LenProperties
  <2>2. \A i \in 1 .. Len(Fresh(p)) : Fresh(p)[i] \in Text
    BY <1>4, ElementOfSeq
  <2> QED BY <2>1, <2>2 DEF Text
<1>7. took \in [1 .. Len(Fresh(p)) -> [text : Nat, done : BOOLEAN]]
  <2>1. ASSUME NEW i \in 1 .. Len(Fresh(p))
        PROVE  CarriedOut(Fresh(p)[i].text, i, quiet) \in BOOLEAN
    BY DEF CarriedOut
  <2> QED BY <1>6, <2>1
<1>8. took \in Seq([text : Nat, done : BOOLEAN])
  <2> HIDE DEF took
  <2> QED BY <1>6, <1>7, FunctionIsSeq
<1>9. executed' \in Seq([text : Nat, done : BOOLEAN])
  <2> HIDE DEF took
  <2> QED BY <1>3, <1>5, <1>8, ConcatProperties
<1>10. lastClientCommand' \in Nat
  <2>1. lastClientCommand' = lastClientCommand + Len(Fresh(p))
    BY <1>5
  <2>2. Len(Fresh(p)) \in Nat
    BY <1>6
  <2>3. lastClientCommand \in Nat
    BY <1>3
  <2> HIDE DEF p, took
  <2> QED BY <2>1, <2>2, <2>3
<1>11. p.usercmd \in Nat
  BY <1>1 DEF Packets
<1> QED BY <1>3, <1>5, <1>9, <1>10, <1>11

(* The server, reading or answering, keeps the types.                      *)
LEMMA ServerType ==
  ASSUME TypeInv, SV_ExecuteClientMessage
  PROVE  TypeInv'
<1>1. /\ toServer # <<>> /\ toServer' = Tail(toServer)
      /\ UNCHANGED <<clientVars, toClient>>
  BY DEF SV_ExecuteClientMessage
<1>2. toServer' \in Seq(Packets) /\ PacketsNumbered'
  <2>1. /\ toServer' \in Seq(Packets)
        /\ \A i \in DOMAIN toServer' :
             i + 1 \in DOMAIN toServer /\ toServer'[i] = toServer[i + 1]
    BY <1>1, TailOfMessages DEF TypeInv, TypeOK
  <2> QED BY <2>1, FewerPackets DEF TypeInv
<1>3. CASE \E quiet \in BOOLEAN : ExecuteClientMessage(quiet)
  <2>1. PICK quiet \in BOOLEAN : ExecuteClientMessage(quiet)
    BY <1>3
  <2>2. /\ lastClientCommand' \in Nat /\ moved' \in Nat
        /\ executed' \in Seq([text : Nat, done : BOOLEAN])
        /\ dropped' \in {"no", "disconnected", "lost commands"}
        /\ overran' = overran /\ quitCommand' = quitCommand
    BY <1>1, <2>1, ExecuteType
  <2> QED BY <1>1, <1>2, <2>2 DEF TypeInv, TypeOK, clientVars
<1>4. CASE LostReliableCommands
  BY <1>1, <1>2, <1>4
     DEF LostReliableCommands, TypeInv, TypeOK, clientVars, history
<1> QED BY <1>3, <1>4 DEF SV_ExecuteClientMessage

(* A lost message changes no type.                                         *)
LEMMA LoseType ==
  ASSUME TypeInv, Lose, UNCHANGED <<clientVars, serverVars, history>>
  PROVE  TypeInv'
<1>0. toServer \in Seq(Packets) /\ toClient \in Seq(Nat)
  BY DEF TypeInv, TypeOK
<1>1. CASE /\ \E i \in DOMAIN toServer : toServer' = RemoveAt(toServer, i)
           /\ UNCHANGED toClient
  <2>1. PICK i \in DOMAIN toServer : toServer' = RemoveAt(toServer, i)
    BY <1>1
  <2>2. /\ toServer' \in Seq(Packets) /\ Len(toServer') = Len(toServer) - 1
        /\ \A j \in 1 .. Len(toServer) - 1 :
             toServer'[j] = toServer[IF j < i THEN j ELSE j + 1]
    BY <1>0, <2>1, RemoveAtProperties
  <2>3. /\ DOMAIN toServer = 1 .. Len(toServer) /\ Len(toServer) \in Nat
        /\ DOMAIN toServer' = 1 .. Len(toServer) - 1
    BY <1>0, <2>2, LenProperties
  <2>4. \A j \in DOMAIN toServer' : \E k \in DOMAIN toServer :
           toServer'[j] = toServer[k]
    <3> SUFFICES ASSUME NEW j \in DOMAIN toServer'
                 PROVE  \E k \in DOMAIN toServer : toServer'[j] = toServer[k]
      OBVIOUS
    <3> DEFINE k == IF j < i THEN j ELSE j + 1
    <3>1. j \in 1 .. Len(toServer) - 1
      BY <2>3
    <3>2. k \in 1 .. Len(toServer)
      BY <2>3, <3>1
    <3>3. toServer'[j] = toServer[k]
      BY <2>2, <3>1
    <3> QED BY <2>3, <3>2, <3>3
  <2>5. PacketsNumbered'
    BY <2>4, FewerPackets DEF TypeInv
  <2> QED
    BY <1>1, <2>2, <2>5 DEF TypeInv, TypeOK, clientVars, serverVars, history
<1>2. CASE /\ \E i \in DOMAIN toClient : toClient' = RemoveAt(toClient, i)
           /\ UNCHANGED toServer
  <2>1. toClient' \in Seq(Nat)
    BY <1>0, <1>2, RemoveAtProperties
  <2> QED
    BY <1>2, <2>1
       DEF TypeInv, TypeOK, PacketsNumbered, clientVars, serverVars, history
<1> QED BY <1>1, <1>2 DEF Lose

(* Every step keeps the types.                                             *)
LEMMA TypeStep == TypeInv /\ [Next]_vars => TypeInv'
<1> SUFFICES ASSUME TypeInv, [Next]_vars PROVE TypeInv'
  OBVIOUS
<1>0. TypeOK /\ PacketsNumbered
  BY DEF TypeInv
<1>1. CASE CL_AddReliableCommand
  <2>1. /\ AddReliableCommand
        /\ UNCHANGED <<clientState, serverVars, toServer, toClient, executed,
                       moved, quitCommand>>
    BY <1>1 DEF CL_AddReliableCommand
  <2>2. /\ reliableSequence' \in Nat /\ reliableAcknowledge' = reliableAcknowledge
        /\ reliableCommands' \in [0 .. MAX_RELIABLE_COMMANDS - 1 -> Nat]
        /\ overran' \in BOOLEAN
    BY <1>0, <2>1, AddReliableCommandType
  <2> QED BY <1>0, <2>1, <2>2 DEF TypeInv, TypeOK, PacketsNumbered, serverVars
<1>2. CASE CL_Disconnect
  BY <1>2, DisconnectType
<1>3. CASE CommandOverflow
  BY <1>0, <1>3
     DEF CommandOverflow, TypeInv, TypeOK, PacketsNumbered, serverVars, history
<1>4. CASE CL_WritePacket
  BY <1>4, WriteType
<1>5. CASE CL_ParseServerMessage
  <2>1. /\ toClient # <<>> /\ toClient' = Tail(toClient)
        /\ reliableAcknowledge' \in {reliableSequence, Head(toClient)}
        /\ UNCHANGED <<reliableSequence, reliableCommands, clientState,
                       serverVars, toServer, history>>
    BY <1>5 DEF CL_ParseServerMessage
  <2>2. Head(toClient) \in Nat /\ toClient' \in Seq(Nat)
    BY <1>0, <2>1, HeadTailProperties DEF TypeOK
  <2> QED
    BY <1>0, <2>1, <2>2
       DEF TypeInv, TypeOK, PacketsNumbered, serverVars, history
<1>6. CASE SV_ExecuteClientMessage
  BY <1>6, ServerType
<1>7. CASE SV_SendMessageToClient
  <2>1. toClient' \in Seq(Nat)
    BY <1>0, <1>7, AppendProperties DEF SV_SendMessageToClient, TypeOK
  <2> QED
    BY <1>0, <1>7, <2>1
       DEF SV_SendMessageToClient, TypeInv, TypeOK, PacketsNumbered,
           clientVars, serverVars, history
<1>8. CASE Lose /\ UNCHANGED <<clientVars, serverVars, history>>
  BY <1>8, LoseType
<1>9. CASE UNCHANGED vars
  BY <1>0, <1>9
     DEF TypeInv, TypeOK, PacketsNumbered, vars, clientVars, serverVars, history
<1> QED
  BY <1>1, <1>2, <1>3, <1>4, <1>5, <1>6, <1>7, <1>8, <1>9 DEF Next

(* The types, with the numbers of the packets, hold for ever.              *)
LEMMA TypeInvariant == Spec => []TypeInv
  BY TypeInit, TypeStep, PTL DEF Spec

(* The variables of both ends and the packets keep their types.            *)
THEOREM TypeCorrect == Spec => []TypeOK
<1>1. TypeInv => TypeOK
  BY DEF TypeInv
<1> QED BY <1>1, TypeInvariant, PTL

-----------------------------------------------------------------------------
(* The commands.  As long as the ring has not been overrun, its slots hold *)
(* the last commands added, so a packet carries the commands it says; the  *)
(* acknowledgements in flight ascend and are of commands the server has;   *)
(* and no packet starts after a command the server lacks, because it was   *)
(* written when the client knew that the server had what came before.      *)

RingHolds ==
    \A n \in 0 .. reliableSequence :
        n + MAX_RELIABLE_COMMANDS > reliableSequence
            => reliableCommands[Slot(n)] = n

InRange ==
    /\ reliableAcknowledge <= lastClientCommand
    /\ lastClientCommand <= reliableSequence
    /\ reliableSequence <= reliableAcknowledge + MAX_RELIABLE_COMMANDS

AcksGenuine ==
    /\ \A i \in DOMAIN toClient :
          reliableAcknowledge <= toClient[i] /\ toClient[i] <= lastClientCommand
    /\ \A i, j \in DOMAIN toClient : i < j => toClient[i] <= toClient[j]

Carries(p, a) ==
    /\ a <= p.usercmd /\ Len(p.commands) = p.usercmd - a
    /\ \A j \in DOMAIN p.commands :
          p.commands[j] = [number |-> a + j, text |-> a + j]

GenuinePacket(p, taken, added) ==
    \E a \in Nat : a <= taken /\ p.usercmd <= added /\ Carries(p, a)

PacketsGenuine ==
    \A i \in DOMAIN toServer :
        GenuinePacket(toServer[i], lastClientCommand, reliableSequence)

ExecutedAll ==
    /\ Len(executed) = lastClientCommand
    /\ \A i \in DOMAIN executed :
          executed[i].text = i /\ (~FloodProtect => executed[i].done)
    /\ moved <= lastClientCommand
    /\ dropped # "lost commands"

Kept == RingHolds /\ InRange /\ AcksGenuine /\ PacketsGenuine /\ ExecutedAll

CommandInv == TypeInv /\ (~overran => Kept)

(* The inductive invariant holds for a client that has just connected.     *)
LEMMA CommandInit == Init => CommandInv
<1> SUFFICES ASSUME Init PROVE CommandInv
  OBVIOUS
<1>1. TypeInv
  BY TypeInit
<1>2. /\ toServer = <<>> /\ toClient = <<>> /\ executed = <<>>
      /\ DOMAIN <<>> = {} /\ Len(<<>>) = 0
  BY EmptySeq DEF Init
<1>3. AcksGenuine /\ PacketsGenuine
  BY <1>2 DEF AcksGenuine, PacketsGenuine
<1>4. ExecutedAll
  BY <1>2 DEF Init, ExecutedAll
<1>5. InRange
  BY RingAssumption DEF Init, InRange
<1>6. RingHolds
  <2> SUFFICES ASSUME NEW n \in 0 .. reliableSequence
               PROVE  reliableCommands[Slot(n)] = n
    BY DEF RingHolds
  <2>1. n = 0 /\ n \in Nat
    BY DEF Init
  <2>2. Slot(n) \in 0 .. MAX_RELIABLE_COMMANDS - 1
    BY <2>1, DivisionRing
  <2> QED BY <2>1, <2>2 DEF Init
<1> QED BY <1>1, <1>3, <1>4, <1>5, <1>6 DEF CommandInv, Kept

(* A command added to a ring that is not full overwrites none of those it  *)
(* still has to hold.                                                      *)
LEMMA AddKeepsRing ==
  ASSUME TypeOK, RingHolds, AddReliableCommand, ~overran'
  PROVE  /\ RingHolds'
         /\ reliableSequence' <= reliableAcknowledge + MAX_RELIABLE_COMMANDS
<1>1. /\ reliableSequence \in Nat /\ reliableSequence' \in Nat
      /\ reliableSequence' = reliableSequence + 1
      /\ \A i \in 0 .. MAX_RELIABLE_COMMANDS - 1 :
           reliableCommands'[i] = IF i = Slot(reliableSequence')
                                    THEN reliableSequence' ELSE reliableCommands[i]
  BY AddReliableCommandType DEF TypeOK
<1>2. reliableSequence' <= reliableAcknowledge + MAX_RELIABLE_COMMANDS
  <2>1. ~(reliableSequence' > reliableAcknowledge + MAX_RELIABLE_COMMANDS)
    BY DEF AddReliableCommand
  <2>2. reliableAcknowledge \in Nat
    BY DEF TypeOK
  <2> QED BY <1>1, <2>1, <2>2, RingAssumption
<1>3. ASSUME NEW n \in 0 .. reliableSequence',
             n + MAX_RELIABLE_COMMANDS > reliableSequence'
      PROVE  reliableCommands'[Slot(n)] = n
  <2>1. n \in Nat
    BY <1>1
  <2>2. Slot(n) \in 0 .. MAX_RELIABLE_COMMANDS - 1
    BY <2>1, DivisionRing
  <2>3. CASE n = reliableSequence'
    BY <1>1, <2>2, <2>3
  <2>4. CASE n < reliableSequence'
    <3>1. reliableSequence' < n + MAX_RELIABLE_COMMANDS
      BY <1>1, <1>3, <2>1, RingAssumption
    <3>2. Slot(n) # Slot(reliableSequence')
      BY <1>1, <2>1, <2>4, <3>1, SlotsDiffer
    <3>3. reliableCommands'[Slot(n)] = reliableCommands[Slot(n)]
      BY <1>1, <2>2, <3>2
    <3>4. /\ n \in 0 .. reliableSequence
          /\ n + MAX_RELIABLE_COMMANDS > reliableSequence
      BY <1>1, <1>3, <2>1, <2>4, RingAssumption
    <3> QED BY <3>3, <3>4 DEF RingHolds
  <2> QED BY <1>1, <2>1, <2>3, <2>4
<1>4. RingHolds'
  BY <1>3 DEF RingHolds
<1> QED BY <1>2, <1>4

(* A packet written from a ring that holds its commands carries them.      *)
LEMMA PacketCarries ==
  ASSUME NEW a \in Nat, NEW s \in Nat, a <= s, s <= a + MAX_RELIABLE_COMMANDS,
         NEW ring \in [0 .. MAX_RELIABLE_COMMANDS - 1 -> Nat],
         \A n \in 0 .. s : n + MAX_RELIABLE_COMMANDS > s => ring[Slot(n)] = n
  PROVE  /\ PacketOf(a, s, ring) \in Packets
         /\ PacketOf(a, s, ring).usercmd = s
         /\ Carries(PacketOf(a, s, ring), a)
<1> DEFINE p == PacketOf(a, s, ring)
<1>1. /\ p \in Packets /\ p.usercmd = s /\ Len(p.commands) = s - a
      /\ \A j \in DOMAIN p.commands :
           p.commands[j] = [number |-> a + j, text |-> ring[Slot(a + j)]]
  BY PacketOfCommands
<1>2. p.commands \in Seq(Text)
  BY <1>1 DEF Packets, Text
<1>3. DOMAIN p.commands = 1 .. s - a
  BY <1>1, <1>2, LenProperties
<1>4. ASSUME NEW j \in DOMAIN p.commands
      PROVE  p.commands[j] = [number |-> a + j, text |-> a + j]
  <2>1. a + j \in 0 .. s /\ a + j + MAX_RELIABLE_COMMANDS > s
    BY <1>3, RingAssumption
  <2>2. ring[Slot(a + j)] = a + j
    BY <2>1
  <2> QED BY <1>1, <2>2
<1> HIDE DEF p
<1>5. Carries(p, a)
  BY <1>1, <1>4 DEF Carries
<1> QED BY <1>1, <1>5 DEF p

(* Packets stay genuine while both ends go on.                             *)
LEMMA PacketsStayGenuine ==
  ASSUME TypeInv, TypeInv', PacketsGenuine,
         reliableSequence <= reliableSequence',
         lastClientCommand <= lastClientCommand',
         \A i \in DOMAIN toServer' :
             \/ \E j \in DOMAIN toServer : toServer'[i] = toServer[j]
             \/ GenuinePacket(toServer'[i], lastClientCommand', reliableSequence')
  PROVE  PacketsGenuine'
<1> SUFFICES ASSUME NEW i \in DOMAIN toServer',
                    NEW j \in DOMAIN toServer, toServer'[i] = toServer[j]
             PROVE  GenuinePacket(toServer[j], lastClientCommand', reliableSequence')
  BY DEF PacketsGenuine
<1>1. /\ reliableSequence \in Nat /\ reliableSequence' \in Nat
      /\ lastClientCommand \in Nat /\ lastClientCommand' \in Nat
      /\ toServer \in Seq(Packets)
  BY DEF TypeInv, TypeOK
<1>2. toServer[j] \in Packets
  BY <1>1, ElementOfSeq, LenProperties
<1>3. toServer[j].usercmd \in Nat
  BY <1>2 DEF Packets
<1>4. PICK a \in Nat : /\ a <= lastClientCommand
                       /\ toServer[j].usercmd <= reliableSequence
                       /\ Carries(toServer[j], a)
  BY DEF PacketsGenuine, GenuinePacket
<1>5. a <= lastClientCommand' /\ toServer[j].usercmd <= reliableSequence'
  BY <1>1, <1>3, <1>4
<1> QED BY <1>4, <1>5 DEF GenuinePacket

(* The client adds a command.                                              *)
LEMMA AddStep ==
  ASSUME CommandInv, CL_AddReliableCommand
  PROVE  CommandInv'
<1>1. /\ TypeInv /\ TypeInv' /\ TypeOK /\ AddReliableCommand
      /\ UNCHANGED <<serverVars, toServer, toClient, executed, moved>>
  BY TypeStep DEF CommandInv, TypeInv, CL_AddReliableCommand, Next
<1> SUFFICES ASSUME ~overran' PROVE Kept'
  BY <1>1 DEF CommandInv
<1>2. ~overran /\ reliableAcknowledge' = reliableAcknowledge
  BY <1>1 DEF AddReliableCommand
<1>3. Kept
  BY <1>2 DEF CommandInv
<1>4. /\ reliableSequence \in Nat /\ lastClientCommand \in Nat
      /\ reliableSequence' = reliableSequence + 1
  BY <1>1, AddReliableCommandType DEF TypeOK
<1>5. /\ RingHolds'
      /\ reliableSequence' <= reliableAcknowledge + MAX_RELIABLE_COMMANDS
  BY <1>1, <1>3, AddKeepsRing DEF Kept
<1>6. InRange'
  BY <1>1, <1>2, <1>3, <1>4, <1>5 DEF Kept, InRange, serverVars
<1>7. PacketsGenuine'
  BY <1>1, <1>3, <1>4, PacketsStayGenuine DEF Kept, serverVars
<1>8. AcksGenuine' /\ ExecutedAll'
  BY <1>1, <1>2, <1>3 DEF Kept, AcksGenuine, ExecutedAll, serverVars
<1> QED BY <1>5, <1>6, <1>7, <1>8 DEF Kept

(* The client repeats what is not acknowledged.                            *)
LEMMA WriteStep ==
  ASSUME CommandInv, CL_WritePacket
  PROVE  CommandInv'
<1> DEFINE p == PacketOf(reliableAcknowledge, reliableSequence, reliableCommands)
<1>1. /\ TypeInv /\ TypeInv' /\ TypeOK /\ toServer' = Append(toServer, p)
      /\ UNCHANGED <<clientVars, serverVars, toClient, history>>
  BY TypeStep DEF CommandInv, TypeInv, CL_WritePacket, Next
<1> SUFFICES ASSUME ~overran' PROVE Kept'
  BY <1>1 DEF CommandInv
<1>2. ~overran
  BY <1>1 DEF history
<1>3. Kept
  BY <1>2 DEF CommandInv
<1>4. /\ reliableSequence \in Nat /\ lastClientCommand \in Nat
      /\ reliableAcknowledge \in Nat /\ toServer \in Seq(Packets)
      /\ reliableCommands \in [0 .. MAX_RELIABLE_COMMANDS - 1 -> Nat]
  BY <1>1 DEF TypeOK
<1>5. /\ reliableAcknowledge <= lastClientCommand
      /\ reliableAcknowledge <= reliableSequence
      /\ reliableSequence <= reliableAcknowledge + MAX_RELIABLE_COMMANDS
  BY <1>3, <1>4 DEF Kept, InRange
<1>6. /\ p \in Packets /\ p.usercmd = reliableSequence
      /\ Carries(p, reliableAcknowledge)
  BY <1>3, <1>4, <1>5, PacketCarries DEF Kept, RingHolds
<1> HIDE DEF p
<1>7. GenuinePacket(p, lastClientCommand, reliableSequence)
  BY <1>4, <1>5, <1>6 DEF GenuinePacket
<1>8. PacketsGenuine'
  <2>1. /\ toServer' \in Seq(Packets) /\ Len(toServer') = Len(toServer) + 1
        /\ \A i \in 1 .. Len(toServer) : toServer'[i] = toServer[i]
        /\ toServer'[Len(toServer) + 1] = p
    BY <1>1, <1>4, <1>6, AppendProperties
  <2>2. /\ DOMAIN toServer = 1 .. Len(toServer) /\ Len(toServer) \in Nat
        /\ DOMAIN toServer' = 1 .. Len(toServer) + 1
    BY <1>4, <2>1, LenProperties
  <2>3. reliableSequence' = reliableSequence /\ lastClientCommand' = lastClientCommand
    BY <1>1 DEF clientVars, serverVars
  <2>4. ASSUME NEW i \in DOMAIN toServer'
        PROVE  GenuinePacket(toServer'[i], lastClientCommand, reliableSequence)
    <3>1. CASE i = Len(toServer) + 1
      BY <1>7, <2>1, <3>1
    <3>2. CASE i # Len(toServer) + 1
      <4>1. i \in DOMAIN toServer /\ toServer'[i] = toServer[i]
        BY <2>1, <2>2, <3>2
      <4> QED BY <1>3, <4>1 DEF Kept, PacketsGenuine
    <3> QED BY <3>1, <3>2
  <2> QED BY <2>3, <2>4 DEF PacketsGenuine
<1>9. RingHolds' /\ InRange' /\ AcksGenuine' /\ ExecutedAll'
  BY <1>1, <1>3
     DEF Kept, RingHolds, InRange, AcksGenuine, ExecutedAll, clientVars,
         serverVars, history
<1> QED BY <1>8, <1>9 DEF Kept

(* The client leaves: one more command, and three packets that carry it.   *)
LEMMA DisconnectStep ==
  ASSUME CommandInv, CL_Disconnect
  PROVE  CommandInv'
<1> DEFINE p == PacketOf(reliableAcknowledge, reliableSequence', reliableCommands')
<1>1. /\ TypeInv /\ TypeInv' /\ TypeOK /\ AddReliableCommand
      /\ toServer' = toServer \o <<p, p, p>>
      /\ UNCHANGED <<serverVars, toClient, executed, moved>>
  BY TypeStep DEF CommandInv, TypeInv, CL_Disconnect, Next
<1> SUFFICES ASSUME ~overran' PROVE Kept'
  BY <1>1 DEF CommandInv
<1>2. ~overran /\ reliableAcknowledge' = reliableAcknowledge
  BY <1>1 DEF AddReliableCommand
<1>3. Kept
  BY <1>2 DEF CommandInv
<1>4. /\ reliableSequence \in Nat /\ lastClientCommand \in Nat
      /\ reliableAcknowledge \in Nat /\ toServer \in Seq(Packets)
      /\ reliableSequence' = reliableSequence + 1
      /\ reliableSequence' \in Nat
      /\ reliableCommands' \in [0 .. MAX_RELIABLE_COMMANDS - 1 -> Nat]
  BY <1>1, AddReliableCommandType DEF TypeOK
<1>5. /\ RingHolds'
      /\ reliableSequence' <= reliableAcknowledge + MAX_RELIABLE_COMMANDS
  BY <1>1, <1>3, AddKeepsRing DEF Kept
<1>6. /\ InRange' /\ reliableAcknowledge <= lastClientCommand
      /\ reliableAcknowledge <= reliableSequence'
  BY <1>1, <1>2, <1>3, <1>4, <1>5 DEF Kept, InRange, serverVars
<1>7. /\ p \in Packets /\ p.usercmd = reliableSequence'
      /\ Carries(p, reliableAcknowledge)
  BY <1>4, <1>5, <1>6, PacketCarries DEF RingHolds
<1> HIDE DEF p
<1>8. GenuinePacket(p, lastClientCommand, reliableSequence')
  BY <1>4, <1>6, <1>7 DEF GenuinePacket
<1>9. PacketsGenuine'
  <2>1. <<p, p, p>> \in Seq(Packets) /\ \A i \in DOMAIN <<p, p, p>> : <<p, p, p>>[i] = p
    BY <1>7, ThreePackets
  <2> DEFINE more == <<p, p, p>>
  <2>2. more \in Seq(Packets) /\ \A i \in DOMAIN more : more[i] = p
    BY <2>1
  <2>3. toServer' = toServer \o more
    BY <1>1
  <2> HIDE DEF more
  <2>4. /\ toServer' \in Seq(Packets) /\ Len(toServer') = Len(toServer) + Len(more)
        /\ \A i \in 1 .. Len(toServer) + Len(more) :
             toServer'[i] = IF i <= Len(toServer) THEN toServer[i]
                            ELSE more[i - Len(toServer)]
    BY <1>4, <2>2, <2>3, ConcatProperties
  <2>5. /\ DOMAIN toServer = 1 .. Len(toServer) /\ Len(toServer) \in Nat
        /\ DOMAIN more = 1 .. Len(more) /\ Len(more) \in Nat
        /\ DOMAIN toServer' = 1 .. Len(toServer) + Len(more)
    BY <1>4, <2>2, <2>4, LenProperties
  <2>6. \A i \in DOMAIN toServer' :
           (\E j \in DOMAIN toServer : toServer'[i] = toServer[j]) \/ toServer'[i] = p
    <3> SUFFICES ASSUME NEW i \in DOMAIN toServer'
                 PROVE  \/ \E j \in DOMAIN toServer : toServer'[i] = toServer[j]
                        \/ toServer'[i] = p
      OBVIOUS
    <3>1. CASE i <= Len(toServer)
      <4>1. i \in DOMAIN toServer /\ toServer'[i] = toServer[i]
        BY <2>4, <2>5, <3>1
      <4> QED BY <4>1
    <3>2. CASE ~(i <= Len(toServer))
      <4>1. /\ i - Len(toServer) \in DOMAIN more
            /\ toServer'[i] = more[i - Len(toServer)]
        BY <2>4, <2>5, <3>2
      <4> QED BY <2>2, <4>1
    <3> QED BY <3>1, <3>2
  <2>7. lastClientCommand' = lastClientCommand
    BY <1>1 DEF serverVars
  <2> QED
    BY <1>1, <1>3, <1>4, <1>8, <2>6, <2>7, PacketsStayGenuine DEF Kept
<1>10. AcksGenuine' /\ ExecutedAll'
  <2>1. dropped' = dropped /\ lastClientCommand' = lastClientCommand
    BY <1>1 DEF serverVars
  <2> QED BY <1>1, <1>2, <1>3, <2>1 DEF Kept, AcksGenuine, ExecutedAll
<1> QED BY <1>5, <1>6, <1>9, <1>10 DEF Kept

(* The client reads an acknowledgement, which is of a command that is      *)
(* still in the ring and not older than the last one read.                 *)
LEMMA ParseStep ==
  ASSUME CommandInv, CL_ParseServerMessage
  PROVE  CommandInv'
<1>1. /\ TypeInv /\ TypeInv' /\ TypeOK
      /\ toClient # <<>> /\ toClient' = Tail(toClient)
      /\ UNCHANGED <<reliableSequence, reliableCommands, clientState,
                     serverVars, toServer, history>>
  BY TypeStep DEF CommandInv, TypeInv, CL_ParseServerMessage, Next
<1> SUFFICES ASSUME ~overran' PROVE Kept'
  BY <1>1 DEF CommandInv
<1>2. ~overran
  BY <1>1 DEF history
<1>3. Kept
  BY <1>2 DEF CommandInv
<1>4. /\ reliableSequence \in Nat /\ lastClientCommand \in Nat
      /\ reliableAcknowledge \in Nat /\ toClient \in Seq(Nat)
  BY <1>1 DEF TypeOK
<1>5. /\ Head(toClient) = toClient[1] /\ 1 \in DOMAIN toClient
      /\ \A i \in DOMAIN toClient' :
           i + 1 \in DOMAIN toClient /\ toClient'[i] = toClient[i + 1]
  BY <1>1, <1>4, TailOfMessages
<1>6. /\ Head(toClient) \in Nat
      /\ reliableAcknowledge <= Head(toClient)
      /\ Head(toClient) <= lastClientCommand
      /\ lastClientCommand <= reliableSequence
      /\ reliableSequence <= reliableAcknowledge + MAX_RELIABLE_COMMANDS
  <2>1. toClient[1] \in Nat
    BY <1>4, <1>5, ElementOfSeq, LenProperties
  <2> QED BY <1>3, <1>5, <2>1 DEF Kept, AcksGenuine, InRange
<1>7. reliableAcknowledge' = Head(toClient)
  <2>1. ~(Head(toClient) + MAX_RELIABLE_COMMANDS < reliableSequence)
    BY <1>4, <1>6, RingAssumption
  <2> QED BY <2>1 DEF CL_ParseServerMessage
<1>8. InRange'
  <2>1. /\ Head(toClient) <= lastClientCommand
        /\ lastClientCommand <= reliableSequence
        /\ reliableSequence <= Head(toClient) + MAX_RELIABLE_COMMANDS
    BY <1>4, <1>6, RingAssumption
  <2> QED BY <1>1, <1>7, <2>1 DEF InRange, serverVars
<1>9. AcksGenuine'
  <2>1. DOMAIN toClient \subseteq Nat
    BY <1>4, LenProperties
  <2>2. DOMAIN toClient' \subseteq Nat
    BY <1>1, <1>4, HeadTailProperties, LenProperties
  <2>3. ASSUME NEW i \in DOMAIN toClient'
        PROVE  Head(toClient) <= toClient'[i] /\ toClient'[i] <= lastClientCommand
    <3>1. 1 < i + 1 \/ i + 1 = 1
      BY <2>2
    <3>2. i + 1 \in DOMAIN toClient /\ toClient'[i] = toClient[i + 1]
      BY <1>5
    <3>3. Head(toClient) <= toClient[i + 1]
      BY <1>3, <1>4, <1>5, <1>6, <3>1, <3>2 DEF Kept, AcksGenuine
    <3> QED BY <1>3, <3>2, <3>3 DEF Kept, AcksGenuine
  <2>4. ASSUME NEW i \in DOMAIN toClient', NEW j \in DOMAIN toClient', i < j
        PROVE  toClient'[i] <= toClient'[j]
    <3>1. i + 1 < j + 1
      BY <2>2, <2>4
    <3> QED BY <1>3, <1>5, <3>1 DEF Kept, AcksGenuine
  <2> QED BY <1>1, <1>7, <2>3, <2>4 DEF AcksGenuine, serverVars
<1>10. RingHolds' /\ PacketsGenuine' /\ ExecutedAll'
  BY <1>1, <1>3
     DEF Kept, RingHolds, PacketsGenuine, ExecutedAll, serverVars, history
<1> QED BY <1>8, <1>9, <1>10 DEF Kept

(* The server acknowledges the last command it has executed.               *)
LEMMA SendStep ==
  ASSUME CommandInv, SV_SendMessageToClient
  PROVE  CommandInv'
<1>1. /\ TypeInv /\ TypeInv' /\ TypeOK
      /\ toClient' = Append(toClient, lastClientCommand)
      /\ UNCHANGED <<clientVars, serverVars, toServer, history>>
  BY TypeStep DEF CommandInv, TypeInv, SV_SendMessageToClient, Next
<1> SUFFICES ASSUME ~overran' PROVE Kept'
  BY <1>1 DEF CommandInv
<1>2. ~overran
  BY <1>1 DEF history
<1>3. Kept
  BY <1>2 DEF CommandInv
<1>4. /\ lastClientCommand \in Nat /\ toClient \in Seq(Nat)
      /\ reliableAcknowledge \in Nat
  BY <1>1 DEF TypeOK
<1>5. /\ toClient' \in Seq(Nat) /\ Len(toClient') = Len(toClient) + 1
      /\ \A i \in 1 .. Len(toClient) : toClient'[i] = toClient[i]
      /\ toClient'[Len(toClient) + 1] = lastClientCommand
  BY <1>1, <1>4, AppendProperties
<1>6. /\ DOMAIN toClient = 1 .. Len(toClient) /\ Len(toClient) \in Nat
      /\ DOMAIN toClient' = 1 .. Len(toClient) + 1
  BY <1>4, <1>5, LenProperties
<1>7. ASSUME NEW i \in DOMAIN toClient'
      PROVE  /\ reliableAcknowledge <= toClient'[i]
             /\ toClient'[i] <= lastClientCommand
  <2>1. CASE i \in DOMAIN toClient
    BY <1>3, <1>5, <1>6, <2>1 DEF Kept, AcksGenuine
  <2>2. CASE i = Len(toClient) + 1
    BY <1>3, <1>4, <1>5, <2>2 DEF Kept, InRange
  <2> QED BY <1>6, <2>1, <2>2
<1>8. ASSUME NEW i \in DOMAIN toClient', NEW j \in DOMAIN toClient', i < j
      PROVE  toClient'[i] <= toClient'[j]
  <2>1. i \in DOMAIN toClient
    BY <1>6, <1>8
  <2>2. CASE j \in DOMAIN toClient
    BY <1>3, <1>5, <1>6, <1>8, <2>1, <2>2 DEF Kept, AcksGenuine
  <2>3. CASE j = Len(toClient) + 1
    BY <1>5, <1>7, <2>3
  <2> QED BY <1>6, <2>2, <2>3
<1>9. AcksGenuine'
  <2>1. reliableAcknowledge' = reliableAcknowledge /\ lastClientCommand' = lastClientCommand
    BY <1>1 DEF clientVars, serverVars
  <2> QED BY <1>7, <1>8, <2>1 DEF AcksGenuine
<1>10. RingHolds' /\ InRange' /\ PacketsGenuine' /\ ExecutedAll'
  BY <1>1, <1>3
     DEF Kept, RingHolds, InRange, PacketsGenuine, ExecutedAll, clientVars,
         serverVars, history
<1> QED BY <1>9, <1>10 DEF Kept

(* A message is lost.                                                      *)
LEMMA LoseStep ==
  ASSUME CommandInv, Lose, UNCHANGED <<clientVars, serverVars, history>>
  PROVE  CommandInv'
<1>1. TypeInv /\ TypeInv' /\ TypeOK
  BY LoseType DEF CommandInv, TypeInv
<1> SUFFICES ASSUME ~overran' PROVE Kept'
  BY <1>1 DEF CommandInv
<1>2. Kept
  BY DEF CommandInv, history
<1>3. RingHolds' /\ InRange' /\ ExecutedAll'
  BY <1>2
     DEF Kept, RingHolds, InRange, ExecutedAll, clientVars, serverVars, history
<1>4. CASE /\ \E i \in DOMAIN toServer : toServer' = RemoveAt(toServer, i)
           /\ UNCHANGED toClient
  <2>1. PICK i \in DOMAIN toServer : toServer' = RemoveAt(toServer, i)
    BY <1>4
  <2>2. toServer \in Seq(Packets)
    BY <1>1 DEF TypeOK
  <2>3. /\ toServer' \in Seq(Packets) /\ Len(toServer') = Len(toServer) - 1
        /\ \A j \in 1 .. Len(toServer) - 1 :
             toServer'[j] = toServer[IF j < i THEN j ELSE j + 1]
    BY <2>1, <2>2, RemoveAtProperties
  <2>4. /\ DOMAIN toServer = 1 .. Len(toServer) /\ Len(toServer) \in Nat
        /\ DOMAIN toServer' = 1 .. Len(toServer) - 1
    BY <2>2, <2>3, LenProperties
  <2>5. \A j \in DOMAIN toServer' : \E k \in DOMAIN toServer :
           toServer'[j] = toServer[k]
    BY <2>3, <2>4
  <2>6. PacketsGenuine'
    BY <1>2, <2>5 DEF Kept, PacketsGenuine, clientVars, serverVars
  <2>7. AcksGenuine'
    BY <1>2, <1>4 DEF Kept, AcksGenuine, clientVars, serverVars
  <2> QED BY <1>3, <2>6, <2>7 DEF Kept
<1>5. CASE /\ \E i \in DOMAIN toClient : toClient' = RemoveAt(toClient, i)
           /\ UNCHANGED toServer
  <2>1. PICK i \in DOMAIN toClient : toClient' = RemoveAt(toClient, i)
    BY <1>5
  <2>2. toClient \in Seq(Nat)
    BY <1>1 DEF TypeOK
  <2> DEFINE old(j) == IF j < i THEN j ELSE j + 1
  <2>3. /\ toClient' \in Seq(Nat) /\ Len(toClient') = Len(toClient) - 1
        /\ \A j \in 1 .. Len(toClient) - 1 : toClient'[j] = toClient[old(j)]
    BY <2>1, <2>2, RemoveAtProperties
  <2>4. /\ DOMAIN toClient = 1 .. Len(toClient) /\ Len(toClient) \in Nat
        /\ DOMAIN toClient' = 1 .. Len(toClient) - 1
    BY <2>2, <2>3, LenProperties
  <2>5. \A j \in DOMAIN toClient' : old(j) \in DOMAIN toClient
    BY <2>4
  <2>6. \A j, k \in DOMAIN toClient' : j < k => old(j) < old(k)
    BY <2>4
  <2> HIDE DEF old
  <2>7. AcksGenuine'
    BY <1>2, <2>3, <2>4, <2>5, <2>6
       DEF Kept, AcksGenuine, clientVars, serverVars
  <2>8. PacketsGenuine'
    BY <1>2, <1>5 DEF Kept, PacketsGenuine, clientVars, serverVars
  <2> QED BY <1>3, <2>7, <2>8 DEF Kept
<1> QED BY <1>4, <1>5 DEF Lose

(* A genuine packet has no gap, and what is fresh in it follows what the   *)
(* server has.                                                             *)
LEMMA FreshFollows ==
  ASSUME lastClientCommand \in Nat, NEW p \in Packets, NEW a \in Nat,
         a <= lastClientCommand, Carries(p, a)
  PROVE  /\ ~HasGap(p)
         /\ Fresh(p) \in Seq(Text)
         /\ lastClientCommand + Len(Fresh(p)) \in Nat
         /\ p.usercmd <= lastClientCommand + Len(Fresh(p))
         /\ \/ Len(Fresh(p)) = 0
            \/ lastClientCommand + Len(Fresh(p)) = p.usercmd
         /\ \A i \in 1 .. Len(Fresh(p)) : Fresh(p)[i].text = lastClientCommand + i
<1> DEFINE cs == p.commands
           fresh == Fresh(p)
           d == Done(p, a)
<1>1. /\ cs \in Seq(Text) /\ Len(cs) \in Nat /\ DOMAIN cs = 1 .. Len(cs)
      /\ p.usercmd \in Nat /\ a <= p.usercmd /\ Len(cs) = p.usercmd - a
      /\ \A j \in DOMAIN cs : cs[j] = [number |-> a + j, text |-> a + j]
  BY LenProperties DEF Packets, Text, Carries
<1>2. Numbered(p, a)
  <2> SUFFICES ASSUME NEW j \in DOMAIN cs PROVE cs[j].number = a + j
    BY DEF Numbered
  <2>1. cs[j] = [number |-> a + j, text |-> a + j]
    BY <1>1
  <2> HIDE DEF cs
  <2> QED BY <2>1
<1>3. /\ d \in 0 .. Len(cs) /\ fresh \in Seq(Text)
      /\ Len(fresh) = Len(cs) - d
      /\ \A i \in 1 .. Len(fresh) : fresh[i] = cs[d + i]
  BY <1>2, FreshCommands
<1>4. /\ lastClientCommand - a <= Len(cs) => d = lastClientCommand - a
      /\ lastClientCommand - a > Len(cs) => d = Len(cs)
  BY <1>1 DEF Done
<1> HIDE DEF cs, fresh, d
<1>5. ASSUME NEW i \in 1 .. Len(fresh)
      PROVE  /\ fresh[i] = [number |-> lastClientCommand + i,
                            text |-> lastClientCommand + i]
  <2>1. d + i \in DOMAIN cs /\ d = lastClientCommand - a
    BY <1>1, <1>3, <1>4
  <2>2. fresh[i] = [number |-> a + (d + i), text |-> a + (d + i)]
    BY <1>1, <1>3, <2>1
  <2>3. a + (d + i) = lastClientCommand + i
    BY <1>1, <1>3, <2>1
  <2> QED BY <2>2, <2>3
<1>6. ~HasGap(p)
  <2> SUFFICES ASSUME fresh # <<>>
               PROVE  ~(Head(fresh).number > lastClientCommand + 1)
    BY DEF HasGap, fresh
  <2>1. Head(fresh) = fresh[1] /\ 1 \in 1 .. Len(fresh)
    BY <1>3, TailOfMessages, LenProperties
  <2>2. fresh[1] = [number |-> lastClientCommand + 1,
                    text |-> lastClientCommand + 1]
    BY <1>5, <2>1
  <2>3. Head(fresh).number = lastClientCommand + 1
    BY <2>1, <2>2
  <2> QED BY <2>3
<1>7. /\ lastClientCommand + Len(fresh) \in Nat
      /\ p.usercmd <= lastClientCommand + Len(fresh)
      /\ Len(fresh) = 0 \/ lastClientCommand + Len(fresh) = p.usercmd
  <2>1. CASE lastClientCommand - a <= Len(cs)
    <3>1. d = lastClientCommand - a
      BY <1>4, <2>1
    <3>2. Len(fresh) = (p.usercmd - a) - (lastClientCommand - a)
      BY <1>1, <1>3, <3>1
    <3>3. lastClientCommand + Len(fresh) = p.usercmd
      BY <1>1, <3>2
    <3> QED BY <1>1, <3>3
  <2>2. CASE lastClientCommand - a > Len(cs)
    <3>1. Len(fresh) = 0
      BY <1>1, <1>3, <1>4, <2>2
    <3>2. p.usercmd <= lastClientCommand
      BY <1>1, <2>2
    <3> QED BY <1>1, <3>1, <3>2
  <2> QED BY <1>1, <2>1, <2>2
<1>8. \A i \in 1 .. Len(fresh) : fresh[i].text = lastClientCommand + i
  <2> SUFFICES ASSUME NEW i \in 1 .. Len(fresh)
               PROVE  fresh[i].text = lastClientCommand + i
    OBVIOUS
  <2>1. fresh[i] = [number |-> lastClientCommand + i,
                    text |-> lastClientCommand + i]
    BY <1>5
  <2> QED BY <2>1
<1> QED BY <1>3, <1>6, <1>7, <1>8 DEF fresh

(* The server executes what is fresh in a packet, and then its usercmds.   *)
LEMMA ExecuteStep ==
  ASSUME CommandInv, SV_ExecuteClientMessage
  PROVE  CommandInv'
<1> DEFINE p == Head(toServer)
           fresh == Fresh(p)
<1>1. /\ TypeInv /\ TypeInv' /\ TypeOK
      /\ toServer # <<>> /\ toServer' = Tail(toServer) /\ dropped = "no"
      /\ UNCHANGED <<clientVars, toClient>>
  BY TypeStep DEF CommandInv, TypeInv, SV_ExecuteClientMessage, Next
<1> SUFFICES ASSUME ~overran' PROVE Kept'
  BY <1>1 DEF CommandInv
<1>2. overran' = overran
  BY DEF SV_ExecuteClientMessage, ExecuteClientMessage, LostReliableCommands, history
<1>3. Kept
  BY <1>2 DEF CommandInv
<1>4. /\ lastClientCommand \in Nat /\ reliableSequence \in Nat
      /\ reliableAcknowledge \in Nat
      /\ toServer \in Seq(Packets) /\ moved \in Nat
      /\ executed \in Seq([text : Nat, done : BOOLEAN])
      /\ toClient \in Seq(Nat)
  BY <1>1 DEF TypeOK
<1>5. /\ p = toServer[1] /\ 1 \in DOMAIN toServer
      /\ \A i \in DOMAIN toServer' :
           i + 1 \in DOMAIN toServer /\ toServer'[i] = toServer[i + 1]
  BY <1>1, <1>4, TailOfMessages
<1>6. p \in Packets
  BY <1>4, <1>5, ElementOfSeq, LenProperties
<1>7. PICK a \in Nat : /\ a <= lastClientCommand /\ p.usercmd <= reliableSequence
                       /\ Carries(p, a)
  BY <1>3, <1>5 DEF Kept, PacketsGenuine, GenuinePacket
<1>8. /\ ~HasGap(p) /\ fresh \in Seq(Text)
      /\ lastClientCommand + Len(fresh) \in Nat
      /\ p.usercmd <= lastClientCommand + Len(fresh)
      /\ Len(fresh) = 0 \/ lastClientCommand + Len(fresh) = p.usercmd
      /\ \A i \in 1 .. Len(fresh) : fresh[i].text = lastClientCommand + i
  BY <1>4, <1>6, <1>7, FreshFollows
<1>9. PICK quiet \in BOOLEAN : ExecuteClientMessage(quiet)
  BY <1>8 DEF SV_ExecuteClientMessage, LostReliableCommands
<1> DEFINE took == [i \in DOMAIN fresh |->
                      [text |-> fresh[i].text,
                       done |-> CarriedOut(fresh[i].text, i, quiet)]]
<1>10. /\ lastClientCommand' = lastClientCommand + Len(fresh)
       /\ executed' = executed \o took
       /\ \/ dropped' = "disconnected" /\ moved' = moved
          \/ moved' = p.usercmd /\ dropped' = dropped
  BY <1>9 DEF ExecuteClientMessage
<1>11. Len(fresh) \in Nat /\ DOMAIN fresh = 1 .. Len(fresh)
  <2> HIDE DEF fresh
  <2> QED BY <1>8, LenProperties
<1>12. p.usercmd \in Nat
  BY <1>6 DEF Packets
<1>13. /\ took \in Seq([text : Nat, done : BOOLEAN]) /\ Len(took) = Len(fresh)
       /\ \A i \in 1 .. Len(fresh) :
            /\ took[i].text = lastClientCommand + i
            /\ ~FloodProtect => took[i].done
  <2> HIDE DEF fresh
  <2>1. ASSUME NEW i \in 1 .. Len(fresh)
        PROVE  /\ CarriedOut(fresh[i].text, i, quiet) \in BOOLEAN
               /\ ~FloodProtect => CarriedOut(fresh[i].text, i, quiet)
               /\ fresh[i].text \in Nat
    BY <1>4, <1>8 DEF CarriedOut
  <2>2. took \in [1 .. Len(fresh) -> [text : Nat, done : BOOLEAN]]
    BY <1>11, <2>1
  <2>3. \A i \in 1 .. Len(fresh) :
            /\ took[i].text = lastClientCommand + i
            /\ ~FloodProtect => took[i].done
    BY <1>8, <1>11, <2>1
  <2> HIDE DEF took
  <2>4. took \in Seq([text : Nat, done : BOOLEAN]) /\ Len(took) = Len(fresh)
    BY <1>11, <2>2, FunctionIsSeq
  <2> QED BY <2>3, <2>4
<1> HIDE DEF p, fresh, took
<1>14. /\ lastClientCommand' \in Nat
       /\ lastClientCommand <= lastClientCommand'
       /\ lastClientCommand' <= reliableSequence
       /\ p.usercmd <= lastClientCommand'
  <2>1. lastClientCommand <= reliableSequence
    BY <1>3 DEF Kept, InRange
  <2>2. lastClientCommand' = lastClientCommand + Len(fresh)
    BY <1>10
  <2> QED BY <1>4, <1>7, <1>8, <1>11, <1>12, <2>1, <2>2
<1>15. RingHolds' /\ InRange' /\ AcksGenuine'
  <2>1. /\ reliableSequence' = reliableSequence
        /\ reliableAcknowledge' = reliableAcknowledge
        /\ reliableCommands' = reliableCommands /\ toClient' = toClient
    BY <1>1 DEF clientVars
  <2>2. RingHolds'
    BY <1>3, <2>1 DEF Kept, RingHolds
  <2>3. InRange'
    BY <1>3, <1>4, <1>14, <2>1 DEF Kept, InRange
  <2>4. ASSUME NEW i \in DOMAIN toClient PROVE toClient[i] <= lastClientCommand'
    <3>1. toClient[i] \in Nat
      BY <1>4, ElementOfSeq, LenProperties
    <3>2. toClient[i] <= lastClientCommand
      BY <1>3 DEF Kept, AcksGenuine
    <3> QED BY <1>4, <1>14, <3>1, <3>2
  <2>5. AcksGenuine'
    BY <1>3, <2>1, <2>4 DEF Kept, AcksGenuine
  <2> QED BY <2>2, <2>3, <2>5
<1>16. PacketsGenuine'
  <2>1. reliableSequence' = reliableSequence
    BY <1>1 DEF clientVars
  <2>2. reliableSequence <= reliableSequence'
    BY <1>4, <2>1
  <2> QED BY <1>1, <1>3, <1>5, <1>14, <2>2, PacketsStayGenuine DEF Kept
<1>17. ExecutedAll'
  <2>1. /\ executed' \in Seq([text : Nat, done : BOOLEAN])
        /\ Len(executed') = Len(executed) + Len(took)
        /\ \A i \in 1 .. Len(executed) + Len(took) :
             executed'[i] = IF i <= Len(executed) THEN executed[i]
                            ELSE took[i - Len(executed)]
    BY <1>4, <1>10, <1>13, ConcatProperties
  <2>2. /\ Len(executed) = lastClientCommand /\ moved <= lastClientCommand
        /\ \A i \in DOMAIN executed :
             executed[i].text = i /\ (~FloodProtect => executed[i].done)
    BY <1>3 DEF Kept, ExecutedAll
  <2>3. /\ DOMAIN executed = 1 .. Len(executed)
        /\ DOMAIN executed' = 1 .. Len(executed')
    BY <1>4, <2>1, LenProperties
  <2>4. Len(executed') = lastClientCommand'
    BY <1>10, <1>13, <2>1, <2>2
  <2>5. ASSUME NEW i \in DOMAIN executed'
        PROVE  executed'[i].text = i /\ (~FloodProtect => executed'[i].done)
    <3>1. CASE i <= Len(executed)
      <4>1. i \in DOMAIN executed /\ executed'[i] = executed[i]
        BY <1>4, <1>11, <1>13, <2>1, <2>2, <2>3, <3>1
      <4> QED BY <2>2, <4>1
    <3>2. CASE ~(i <= Len(executed))
      <4>1. /\ i - Len(executed) \in 1 .. Len(fresh)
            /\ executed'[i] = took[i - Len(executed)]
            /\ lastClientCommand + (i - Len(executed)) = i
        BY <1>4, <1>11, <1>13, <2>1, <2>2, <2>3, <3>2
      <4> QED BY <1>13, <4>1
    <3> QED BY <3>1, <3>2
  <2>6. moved' <= lastClientCommand'
    BY <1>4, <1>10, <1>12, <1>14, <2>2
  <2>7. dropped' # "lost commands"
    BY <1>1, <1>10
  <2> QED BY <2>4, <2>5, <2>6, <2>7 DEF ExecutedAll
<1> QED BY <1>15, <1>16, <1>17 DEF Kept

(* The inductive invariant is kept by every step.                          *)
LEMMA CommandStep == CommandInv /\ [Next]_vars => CommandInv'
<1> SUFFICES ASSUME CommandInv, [Next]_vars PROVE CommandInv'
  OBVIOUS
<1>1. TypeInv'
  BY TypeStep DEF CommandInv
<1>2. CASE CommandOverflow
  BY <1>1, <1>2
     DEF CommandOverflow, CommandInv, Kept, RingHolds, InRange, AcksGenuine,
         PacketsGenuine, ExecutedAll, serverVars, history
<1>3. CASE UNCHANGED vars
  BY <1>1, <1>3
     DEF CommandInv, Kept, RingHolds, InRange, AcksGenuine, PacketsGenuine,
         ExecutedAll, vars, clientVars, serverVars, history
<1> QED
  BY <1>2, <1>3, AddStep, DisconnectStep, WriteStep, ParseStep, ExecuteStep,
     SendStep, LoseStep DEF Next

(* While the ring is not overrun: a command keeps its slot until the server  *)
(* is known to have it, packets and acknowledgements carry what was once   *)
(* true, and the server has executed exactly the first commands in order.  *)
THEOREM CommandsCorrect == Spec => []CommandInv
  BY CommandInit, CommandStep, PTL DEF Spec

(* The two ends agree on what is outstanding; the server never finds that  *)
(* commands were lost.                                                     *)
THEOREM Agreement == Spec => []AcknowledgesAgree
<1>1. CommandInv => AcknowledgesAgree
  BY DEF CommandInv, Kept, InRange, ExecutedAll, AcknowledgesAgree
<1> QED BY <1>1, CommandsCorrect, PTL

(* Without flood protection, no usercmd runs before the commands added     *)
(* before it.                                                              *)
THEOREM UsercmdsAfterCommands ==
  ASSUME ~FloodProtect
  PROVE  Spec => []CommandsBeforeUsercmds
<1>1. CommandInv => CommandsBeforeUsercmds
  <2> SUFFICES ASSUME CommandInv, ~overran, NEW n \in 1 .. moved
               PROVE  \E i \in DOMAIN executed :
                          executed[i].text = n /\ executed[i].done
    BY DEF CommandsBeforeUsercmds
  <2>1. /\ moved \in Nat /\ lastClientCommand \in Nat
        /\ executed \in Seq([text : Nat, done : BOOLEAN])
    BY DEF CommandInv, TypeInv, TypeOK
  <2>2. /\ Len(executed) = lastClientCommand /\ moved <= lastClientCommand
        /\ \A i \in DOMAIN executed : executed[i].text = i /\ executed[i].done
    BY DEF CommandInv, Kept, ExecutedAll
  <2>3. n \in DOMAIN executed
    <3>1. DOMAIN executed = 1 .. lastClientCommand
      BY <2>1, <2>2, LenProperties
    <3> QED BY <2>1, <2>2, <3>1
  <2> QED BY <2>2, <2>3
<1> QED BY <1>1, CommandsCorrect, PTL

(* Below the limit of the ring, the next message of the server is          *)
(* unscrambled with the command it was scrambled with.                     *)
THEOREM Unscrambling == Spec => []UnscramblesBelowLimit
<1>1. CommandInv => UnscramblesBelowLimit
  <2> SUFFICES ASSUME CommandInv, ~overran, toClient # <<>>,
                      reliableSequence < reliableAcknowledge + MAX_RELIABLE_COMMANDS
               PROVE  UnscrambledAsScrambled
    BY DEF UnscramblesBelowLimit
  <2>1. /\ reliableSequence \in Nat /\ reliableAcknowledge \in Nat
        /\ lastClientCommand \in Nat /\ toClient \in Seq(Nat)
    BY DEF CommandInv, TypeInv, TypeOK
  <2>2. Head(toClient) = toClient[1] /\ 1 \in DOMAIN toClient
    BY <2>1, TailOfMessages
  <2>3. toClient[1] \in Nat
    BY <2>1, <2>2, ElementOfSeq, LenProperties
  <2>4. /\ reliableAcknowledge <= toClient[1] /\ toClient[1] <= lastClientCommand
        /\ lastClientCommand <= reliableSequence
    BY <2>2 DEF CommandInv, Kept, AcksGenuine, InRange
  <2>5. /\ toClient[1] \in 0 .. reliableSequence
        /\ toClient[1] + MAX_RELIABLE_COMMANDS > reliableSequence
    BY <2>1, <2>3, <2>4, RingAssumption
  <2> QED
    BY <2>2, <2>5 DEF CommandInv, Kept, RingHolds, UnscrambledAsScrambled
<1> QED BY <1>1, CommandsCorrect, PTL

-----------------------------------------------------------------------------
(* Refinement of ReliableCommands.                                         *)

Texts == [i \in DOMAIN executed |-> executed[i].text]

(* While the ring is not overrun, what the server has taken are the        *)
(* commands from the first to the last, in order.                          *)
LEMMA TextsAreNumbers ==
  ASSUME CommandInv, ~overran
  PROVE  /\ Texts = [i \in 1 .. lastClientCommand |-> i]
         /\ Len(Texts) = lastClientCommand
         /\ lastClientCommand \in Nat /\ reliableSequence \in Nat
         /\ lastClientCommand <= reliableSequence
<1>1. /\ lastClientCommand \in Nat /\ reliableSequence \in Nat
      /\ executed \in Seq([text : Nat, done : BOOLEAN])
  BY DEF CommandInv, TypeInv, TypeOK
<1>2. /\ Len(executed) = lastClientCommand
      /\ \A i \in DOMAIN executed : executed[i].text = i
      /\ lastClientCommand <= reliableSequence
  BY DEF CommandInv, Kept, ExecutedAll, InRange
<1>3. DOMAIN executed = 1 .. lastClientCommand
  BY <1>1, <1>2, LenProperties
<1>4. Texts = [i \in 1 .. lastClientCommand |-> i]
  BY <1>2, <1>3 DEF Texts
<1>5. Texts \in [1 .. lastClientCommand -> Nat]
  BY <1>4
<1>6. Len(Texts) = lastClientCommand
  BY <1>1, <1>5, FunctionIsSeq
<1> QED BY <1>1, <1>2, <1>4, <1>6

(* The same of the state a step leads to.                                  *)
LEMMA NextTextsAreNumbers ==
  ASSUME CommandInv', ~overran'
  PROVE  /\ Texts' = [i \in 1 .. lastClientCommand' |-> i]
         /\ lastClientCommand' \in Nat
         /\ lastClientCommand' <= reliableSequence'
<1>1. /\ lastClientCommand' \in Nat /\ reliableSequence' \in Nat
      /\ executed' \in Seq([text : Nat, done : BOOLEAN])
  BY DEF CommandInv, TypeInv, TypeOK
<1>2. /\ Len(executed') = lastClientCommand'
      /\ \A i \in DOMAIN executed' : executed'[i].text = i
      /\ lastClientCommand' <= reliableSequence'
  BY DEF CommandInv, Kept, ExecutedAll, InRange
<1>3. DOMAIN executed' = 1 .. lastClientCommand'
  BY <1>1, <1>2, LenProperties
<1>4. Texts' = [i \in 1 .. lastClientCommand' |-> i]
  BY <1>2, <1>3 DEF Texts
<1> QED BY <1>1, <1>2, <1>4

(* Every step adds a command, takes some, gives up, or is none.            *)
LEMMA StepRefines ==
  CommandInv /\ CommandInv' /\ [Next]_vars => [Reliable!Next]_Reliable!vars
<1> SUFFICES ASSUME CommandInv, CommandInv', [Next]_vars
             PROVE  [Reliable!Next]_Reliable!vars
  OBVIOUS
<1>1. CASE overran
  BY <1>1 DEF Reliable!Next
<1>2. CASE ~overran /\ overran'
  BY <1>2 DEF Reliable!Next, Reliable!GiveUp
<1>3. CASE ~overran /\ ~overran'
  <2>0. (~overran)' = ~overran
    BY <1>3
  <2>1. CASE UNCHANGED <<reliableSequence, executed, overran>>
    BY <2>1 DEF Reliable!vars
  <2>2. CASE AddReliableCommand /\ UNCHANGED executed
    <3>1. reliableSequence' = reliableSequence + 1 /\ reliableSequence \in Nat
      BY <2>2 DEF AddReliableCommand, CommandInv, TypeInv, TypeOK
    <3>2. reliableSequence' > reliableSequence
      BY <3>1
    <3>3. Reliable!Add
      BY <2>0, <2>2, <3>2 DEF Reliable!Add
    <3> QED BY <1>3, <3>3 DEF Reliable!Next
  <2>3. CASE /\ SV_ExecuteClientMessage
             /\ reliableSequence' = reliableSequence
    <3>1. /\ Texts = [i \in 1 .. lastClientCommand |-> i]
          /\ Len(Texts) = lastClientCommand
          /\ lastClientCommand \in Nat /\ reliableSequence \in Nat
      BY <1>3, TextsAreNumbers
    <3>2. /\ Texts' = [i \in 1 .. lastClientCommand' |-> i]
          /\ lastClientCommand' \in Nat
          /\ lastClientCommand' <= reliableSequence
      BY <1>3, <2>3, NextTextsAreNumbers
    <3>3. lastClientCommand' >= lastClientCommand
      <4>1. CASE LostReliableCommands
        <5>1. lastClientCommand' = lastClientCommand
          BY <4>1 DEF LostReliableCommands
        <5> QED BY <3>1, <5>1
      <4>2. CASE \E quiet \in BOOLEAN : ExecuteClientMessage(quiet)
        <5>1. lastClientCommand' = lastClientCommand + Len(Fresh(Head(toServer)))
          BY <4>2 DEF ExecuteClientMessage
        <5>2. Len(Fresh(Head(toServer))) \in Nat
          <6>1. /\ toServer \in Seq(Packets) /\ toServer # <<>>
                /\ PacketsNumbered
            BY <2>3 DEF CommandInv, TypeInv, TypeOK, SV_ExecuteClientMessage
          <6>2. Head(toServer) = toServer[1] /\ 1 \in DOMAIN toServer
            BY <6>1, TailOfMessages
          <6>3. toServer[1] \in Packets
            BY <6>1, <6>2, ElementOfSeq, LenProperties
          <6>4. PICK a \in Nat : Numbered(toServer[1], a)
            BY <6>1, <6>2 DEF PacketsNumbered
          <6>5. Fresh(toServer[1]) \in Seq(Text)
            BY <3>1, <6>3, <6>4, FreshCommands
          <6> QED BY <6>2, <6>5, LenProperties
        <5> QED BY <3>1, <5>1, <5>2
      <4>3. \/ LostReliableCommands
            \/ \E quiet \in BOOLEAN : ExecuteClientMessage(quiet)
        BY <2>3 DEF SV_ExecuteClientMessage
      <4> QED BY <4>1, <4>2, <4>3
    <3>4. CASE lastClientCommand' = lastClientCommand
      <4>1. Texts' = Texts
        BY <3>1, <3>2, <3>4
      <4> QED BY <2>0, <2>3, <4>1 DEF Reliable!vars, Texts
    <3>5. CASE lastClientCommand' # lastClientCommand
      <4>1. lastClientCommand' \in Len(Texts) + 1 .. reliableSequence
        BY <3>1, <3>2, <3>3, <3>5
      <4>2. Reliable!Take
        BY <2>0, <2>3, <3>2, <4>1 DEF Reliable!Take, Texts
      <4> QED BY <1>3, <4>2 DEF Reliable!Next
    <3> QED BY <3>4, <3>5
  <2>4. \/ UNCHANGED <<reliableSequence, executed, overran>>
        \/ AddReliableCommand /\ UNCHANGED executed
        \/ SV_ExecuteClientMessage /\ reliableSequence' = reliableSequence
    <3>1. CASE CL_AddReliableCommand
      BY <3>1 DEF CL_AddReliableCommand
    <3>2. CASE CL_Disconnect
      BY <3>2 DEF CL_Disconnect
    <3>3. CASE CommandOverflow
      BY <3>3 DEF CommandOverflow, history
    <3>4. CASE CL_WritePacket
      BY <3>4 DEF CL_WritePacket, clientVars, history
    <3>5. CASE CL_ParseServerMessage
      BY <3>5 DEF CL_ParseServerMessage, history
    <3>6. CASE SV_ExecuteClientMessage
      BY <3>6 DEF SV_ExecuteClientMessage, clientVars
    <3>7. CASE SV_SendMessageToClient
      BY <3>7 DEF SV_SendMessageToClient, clientVars, history
    <3>8. CASE Lose /\ UNCHANGED <<clientVars, serverVars, history>>
      BY <3>8 DEF clientVars, history
    <3>9. CASE UNCHANGED vars
      BY <3>9 DEF vars, clientVars, history
    <3> QED
      BY <3>1, <3>2, <3>3, <3>4, <3>5, <3>6, <3>7, <3>8, <3>9 DEF Next
  <2> QED BY <2>1, <2>2, <2>3, <2>4
<1> QED BY <1>1, <1>2, <1>3

(* The ring, the repeated packets and the acknowledgements implement a     *)
(* stream of reliable commands.                                            *)
THEOREM Refinement == Spec => ImplementsReliableCommands
<1>1. Init => Reliable!Init
  BY DEF Init, Reliable!Init
<1> QED
  BY <1>1, StepRefines, CommandsCorrect, PTL
     DEF Spec, Reliable!Spec, ImplementsReliableCommands
=============================================================================
