--------------------------- MODULE NetChan_proofs ---------------------------
(***************************************************************************)
(* Proofs about NetChan, for every message set, fragment size and number   *)
(* of messages, and about the server's side of it, SvNetChan, which sends  *)
(* through a netchan and has one more step, the end of one message and the *)
(* beginning of the next.                                                  *)
(***************************************************************************)
EXTENDS SvNetChan, SequenceTheorems, FiniteSetTheorems, TLAPS

(* A fragment is a slice of its message.                                   *)
LEMMA FragmentSlice ==
  ASSUME NEW msg \in Seq(Byte), NEW start \in Nat, start <= Len(msg)
  PROVE  /\ FragmentEnd(msg, start) \in Nat
         /\ start <= FragmentEnd(msg, start)
         /\ FragmentEnd(msg, start) <= Len(msg)
         /\ SubSeq(msg, start + 1, FragmentEnd(msg, start)) \in Seq(Byte)
         /\ Len(SubSeq(msg, start + 1, FragmentEnd(msg, start)))
              = FragmentEnd(msg, start) - start
         /\ FragmentEnd(msg, start) - start # FRAGMENT_SIZE
              => FragmentEnd(msg, start) = Len(msg)
<1> DEFINE end == FragmentEnd(msg, start)
<1>1. /\ end \in Nat /\ start <= end /\ end <= Len(msg)
      /\ end - start # FRAGMENT_SIZE => end = Len(msg)
  BY FragmentSizeAssumption, LenProperties DEF FragmentEnd
<1>2. \A i \in start + 1 .. end : msg[i] \in Byte
  BY <1>1, ElementOfSeq, LenProperties
<1>3. /\ SubSeq(msg, start + 1, end) \in Seq(Byte)
      /\ Len(SubSeq(msg, start + 1, end))
           = IF start + 1 <= end THEN end - (start + 1) + 1 ELSE 0
  <2>1. start + 1 \in Int /\ end \in Int
    BY <1>1
  <2> HIDE DEF end
  <2> QED BY <1>2, <2>1, SubSeqProperties
<1> QED BY <1>1, <1>3

-----------------------------------------------------------------------------
(* Type correctness.                                                       *)

(* Sending a fragment keeps the types of what it changes.                  *)
LEMMA SendFragmentType ==
  ASSUME TypeOK, NEW msg \in Seq(Byte), NEW start \in Nat,
         start <= Len(msg), SendFragment(msg, start)
  PROVE  /\ net' \in Seq(Packet)
         /\ unsentFragmentStart' \in Nat
         /\ outgoingSequence' \in Nat
         /\ unsentFragments' \in BOOLEAN
<1> DEFINE end == FragmentEnd(msg, start)
           packet == [sequence |-> outgoingSequence, fragmented |-> TRUE,
                      start |-> start,
                      data |-> SubSeq(msg, start + 1, end)]
<1>1. packet \in Packet
  BY FragmentSlice DEF Packet, TypeOK
<1>2. net' = Append(net, packet)
  BY DEF SendFragment, Fragment
<1>3. net' \in Seq(Packet)
  BY <1>1, <1>2, AppendProperties DEF TypeOK
<1>4. end \in Nat
  BY FragmentSlice
<1>5. unsentFragmentStart' = end
  BY DEF SendFragment
<1>6. outgoingSequence' \in Nat /\ unsentFragments' \in BOOLEAN
  <2>1. \/ outgoingSequence' = outgoingSequence + 1 /\ unsentFragments' = FALSE
        \/ outgoingSequence' = outgoingSequence /\ unsentFragments' = TRUE
    BY Zenon DEF SendFragment
  <2>2. outgoingSequence \in Nat
    BY DEF TypeOK
  <2>3. outgoingSequence' \in Nat
    BY <2>1, <2>2, SMT
  <2>4. unsentFragments' \in BOOLEAN
    BY <2>1, Zenon
  <2> QED BY <2>3, <2>4
<1> HIDE DEF end, packet
<1> QED BY <1>3, <1>4, <1>5, <1>6

(* What one received packet does to the receiver's half.                   *)
LEMMA ReceiveType ==
  ASSUME TypeOK, NEW p \in Packet, Netchan_Process(p)
  PROVE  TypeOK'
<1>0. Collected(p) \in Seq(Byte) /\ p.data \in Seq(Byte) /\ p.sequence \in Nat
  BY EmptySeq DEF Collected, TypeOK, Packet
<1>00. Collected(p) \o p.data \in Seq(Byte)
  BY <1>0, ConcatProperties
<1>1. CASE DiscardOld(p)
  BY <1>1 DEF DiscardOld, vars, senderVars, receiverVars, TypeOK
<1>2. CASE KeepWaiting(p)
  BY <1>0, <1>2 DEF KeepWaiting, senderVars, TypeOK
<1>3. CASE AppendFragment(p)
  BY <1>0, <1>00, <1>3 DEF AppendFragment, senderVars, TypeOK
<1>4. CASE CompleteMessage(p)
  <2> DEFINE up == [sequence |-> p.sequence, data |-> Collected(p) \o p.data]
  <2>1. up \in [sequence : Nat, data : Seq(Byte)]
    BY <1>0, <1>00
  <2>2. delivered' = Append(delivered, up)
    BY <1>4 DEF CompleteMessage, HandUp
  <2>3. delivered' \in Seq([sequence : Nat, data : Seq(Byte)])
    BY <2>1, <2>2, AppendProperties DEF TypeOK
  <2>4. fragmentBuffer' \in Seq(Byte)
    BY <1>4, EmptySeq DEF CompleteMessage
  <2> QED
    BY <1>0, <1>4, <2>3, <2>4 DEF CompleteMessage, HandUp, senderVars, TypeOK
<1>5. CASE AcceptWhole(p)
  <2> DEFINE up == [sequence |-> p.sequence, data |-> p.data]
  <2>1. up \in [sequence : Nat, data : Seq(Byte)]
    BY <1>0
  <2>2. delivered' = Append(delivered, up)
    BY <1>5 DEF AcceptWhole, HandUp
  <2>3. delivered' \in Seq([sequence : Nat, data : Seq(Byte)])
    BY <2>1, <2>2, AppendProperties DEF TypeOK
  <2> QED
    BY <1>0, <1>5, <2>3 DEF AcceptWhole, HandUp, senderVars, TypeOK
<1> QED
  BY <1>1, <1>2, <1>3, <1>4, <1>5 DEF Netchan_Process

(* The invariant of the sender that type correctness needs: a fragment     *)
(* starts inside its message.                                              *)
SenderInv == TypeOK /\ SenderPosition

(* A channel just set up satisfies the invariant.                          *)
LEMMA SenderInit == Init => SenderInv
<1> SUFFICES ASSUME Init PROVE SenderInv
  OBVIOUS
<1>1. /\ <<>> \in Seq(Byte) /\ <<>> \in Seq(Packet) /\ <<>> \in Seq(Seq(Byte))
      /\ <<>> \in Seq([sequence : Nat, data : Seq(Byte)])
      /\ Len(<<>>) = 0
  BY EmptySeq
<1>2. TypeOK
  BY <1>1 DEF Init, Netchan_Setup, TypeOK
<1>3. SenderPosition
  BY <1>1 DEF Init, Netchan_Setup, SenderPosition
<1> QED BY <1>2, <1>3 DEF SenderInv

(* Accepting a message from the layer above.                               *)
LEMMA TransmitSender ==
  ASSUME SenderInv, ~unsentFragments, NEW m \in Messages, Netchan_Transmit(m)
  PROVE  SenderInv' /\ sent' = Append(sent, m)
<1>0. /\ m \in Seq(Byte) /\ Len(m) \in Nat
      /\ sent \in Seq(Seq(Byte)) /\ Len(sent) \in Nat
      /\ TypeOK /\ outgoingSequence = Len(sent) + 1
  BY MessagesAssumption, LenProperties DEF SenderInv, SenderPosition, TypeOK
<1>1. /\ sent' = Append(sent, m)
      /\ UNCHANGED <<receiverVars, delivered>>
  BY DEF Netchan_Transmit, Netchan_TransmitWhole, Netchan_TransmitFragmented
<1>2. /\ sent' \in Seq(Seq(Byte)) /\ Len(sent') = Len(sent) + 1
      /\ sent'[Len(sent')] = m
  BY <1>0, <1>1, AppendProperties
<1>3. CASE Netchan_TransmitWhole(m)
  <2> DEFINE packet == [sequence |-> outgoingSequence, fragmented |-> FALSE,
                        start |-> 0, data |-> m]
  <2>1. packet \in Packet
    BY <1>0 DEF Packet, TypeOK
  <2>2. net' = Append(net, packet)
    BY <1>3 DEF Netchan_TransmitWhole, Whole
  <2>3. net' \in Seq(Packet)
    BY <1>0, <2>1, <2>2, AppendProperties DEF TypeOK
  <2>4. TypeOK'
    BY <1>0, <1>1, <1>2, <1>3, <2>3
       DEF Netchan_TransmitWhole, TypeOK, receiverVars
  <2>5. SenderPosition'
    BY <1>0, <1>2, <1>3 DEF Netchan_TransmitWhole, SenderPosition
  <2> QED BY <1>1, <2>4, <2>5 DEF SenderInv
<1>4. CASE Netchan_TransmitFragmented(m)
  <2>1. SendFragment(m, 0) /\ unsentBuffer' = m /\ Len(m) >= FRAGMENT_SIZE
    BY <1>4 DEF Netchan_TransmitFragmented
  <2>2. TypeOK'
    BY <1>0, <1>1, <1>2, <2>1, SendFragmentType DEF TypeOK, receiverVars
  <2>3. FragmentEnd(m, 0) = FRAGMENT_SIZE
    BY <1>0, <2>1, FragmentSizeAssumption DEF FragmentEnd
  <2>4. ~IsLastFragment(m, 0)
    BY <2>3, FragmentSizeAssumption DEF IsLastFragment
  <2>5. /\ unsentFragments' = TRUE
        /\ unsentFragmentStart' = FRAGMENT_SIZE
        /\ outgoingSequence' = outgoingSequence
    BY <2>1, <2>3, <2>4 DEF SendFragment
  <2>6. SenderPosition'
    BY <1>0, <1>2, <2>1, <2>5, FragmentSizeAssumption DEF SenderPosition
  <2> QED BY <1>1, <2>2, <2>6 DEF SenderInv
<1> QED BY <1>3, <1>4 DEF Netchan_Transmit

(* Going on with a message keeps the position inside it.                   *)
LEMMA NextFragmentSender ==
  ASSUME SenderInv, Netchan_TransmitNextFragment
  PROVE  SenderInv'
<1>0. /\ unsentBuffer \in Seq(Byte) /\ Len(unsentBuffer) \in Nat
      /\ unsentFragmentStart \in Nat
      /\ unsentFragmentStart <= Len(unsentBuffer)
      /\ sent \in Seq(Seq(Byte)) /\ Len(sent) \in Nat
      /\ outgoingSequence = Len(sent) /\ Len(sent) > 0
      /\ unsentBuffer = sent[Len(sent)]
      /\ TypeOK /\ unsentFragments
  BY LenProperties
     DEF SenderInv, SenderPosition, TypeOK, Netchan_TransmitNextFragment
<1>1. /\ SendFragment(unsentBuffer, unsentFragmentStart)
      /\ UNCHANGED <<unsentBuffer, receiverVars, sent, delivered>>
  BY DEF Netchan_TransmitNextFragment
<1>2. TypeOK'
  BY <1>0, <1>1, SendFragmentType DEF TypeOK, receiverVars
<1> DEFINE end == FragmentEnd(unsentBuffer, unsentFragmentStart)
<1>3. unsentFragmentStart' = end /\ end <= Len(unsentBuffer)
  BY <1>0, <1>1, FragmentSlice DEF SendFragment
<1>4. SenderPosition'
  <2>1. CASE IsLastFragment(unsentBuffer, unsentFragmentStart)
    BY <1>0, <1>1, <2>1 DEF SendFragment, SenderPosition
  <2>2. CASE ~IsLastFragment(unsentBuffer, unsentFragmentStart)
    BY <1>0, <1>1, <1>3, <2>2 DEF SendFragment, SenderPosition
  <2> QED BY <2>1, <2>2
<1> QED BY <1>2, <1>4 DEF SenderInv

(* A packet that arrives leaves the sender alone.                          *)
LEMMA ReceiveSender ==
  ASSUME SenderInv, NEW i \in DOMAIN net, Netchan_Process(net[i])
  PROVE  SenderInv'
<1>1. net[i] \in Packet
  BY ElementOfSeq, LenProperties DEF SenderInv, TypeOK
<1>2. TypeOK'
  BY <1>1, ReceiveType DEF SenderInv
<1>3. UNCHANGED <<senderVars, sent>>
  BY DEF Netchan_Process, DiscardOld, KeepWaiting, AppendFragment,
         CompleteMessage, AcceptWhole, vars
<1> QED BY <1>2, <1>3 DEF SenderInv, SenderPosition, senderVars

(* Every step of the channel keeps the invariant of the sender.            *)
LEMMA SenderStep == SenderInv /\ [Next]_vars => SenderInv'
<1> SUFFICES ASSUME SenderInv, [Next]_vars PROVE SenderInv'
  OBVIOUS
<1>1. CASE Send
  BY <1>1, TransmitSender DEF Send
<1>2. CASE Netchan_TransmitNextFragment
  BY <1>2, NextFragmentSender
<1>3. CASE Receive
  BY <1>3, ReceiveSender DEF Receive
<1>4. CASE UNCHANGED vars
  BY <1>4 DEF SenderInv, TypeOK, SenderPosition, vars, senderVars, receiverVars
<1> QED BY <1>1, <1>2, <1>3, <1>4 DEF Next

(* The variables of the channel keep their types, and the sender always    *)
(* works on the last message it was given, from a position inside it.      *)
THEOREM SenderCorrect == Spec => []SenderInv
  BY SenderInit, SenderStep, PTL DEF Spec

(* The variables of the channel keep their types.                          *)
THEOREM TypeCorrect == Spec => []TypeOK
<1>1. SenderInv => TypeOK
  BY DEF SenderInv
<1> QED BY <1>1, SenderCorrect, PTL

-----------------------------------------------------------------------------
(* Integrity and order.  ChannelInv is the inductive invariant: the        *)
(* packets in the network are slices of what was sent, so what the         *)
(* receiver collects is a prefix of one message, and what completes it is  *)
(* the rest of the same message.                                           *)

MessagesFit == \A s \in DOMAIN sent : Len(sent[s]) <= MAX_MSGLEN

DeliveredUpToIncoming ==
    \A i \in DOMAIN delivered : delivered[i].sequence <= incomingSequence

DeliveredGenuine ==
    \A i \in DOMAIN delivered :
        /\ delivered[i].sequence \in DOMAIN sent
        /\ delivered[i].data = sent[delivered[i].sequence]
        /\ delivered[i].sequence < outgoingSequence

ChannelInv ==
    /\ SenderInv
    /\ MessagesFit
    /\ PacketsGenuine
    /\ CollectedIsPrefix
    /\ DeliveredGenuine
    /\ DeliveredUpToIncoming
    /\ DeliveredInOrder

(* A channel just set up satisfies the invariant.                          *)
LEMMA ChannelInit == Init => ChannelInv
<1> SUFFICES ASSUME Init PROVE ChannelInv
  OBVIOUS
<1>1. SenderInv
  BY SenderInit
<1>2. sent = <<>> /\ net = <<>> /\ delivered = <<>> /\ fragmentBuffer = <<>>
  BY DEF Init, Netchan_Setup
<1>3. DOMAIN sent = {} /\ DOMAIN net = {} /\ DOMAIN delivered = {}
  BY <1>2
<1> QED
  BY <1>1, <1>2, <1>3
     DEF ChannelInv, MessagesFit, PacketsGenuine, CollectedIsPrefix,
         DeliveredGenuine, DeliveredUpToIncoming, DeliveredInOrder

(* The sender's history only grows, and its sequence never goes back.      *)
SenderGrows ==
    /\ DOMAIN sent \subseteq DOMAIN sent'
    /\ \A s \in DOMAIN sent : sent'[s] = sent[s]
    /\ outgoingSequence' >= outgoingSequence

(* A packet stays genuine while the history of the sender grows.           *)
LEMMA GenuineStable ==
  ASSUME NEW p \in Packet, Genuine(p), SenderGrows,
         outgoingSequence \in Nat, outgoingSequence' \in Nat
  PROVE  Genuine(p)'
<1>1. p.sequence \in Nat
  BY DEF Packet
<1>2. /\ p.sequence \in DOMAIN sent'
      /\ sent'[p.sequence] = sent[p.sequence]
      /\ p.sequence < outgoingSequence => p.sequence < outgoingSequence'
  BY <1>1 DEF Genuine, SenderGrows
<1> QED BY <1>2 DEF Genuine

(* What the sender does leaves what has been received correct.             *)
LEMMA ReceiverStable ==
  ASSUME ChannelInv, SenderInv', SenderGrows,
         UNCHANGED <<receiverVars, delivered>>
  PROVE  /\ CollectedIsPrefix' /\ DeliveredGenuine'
         /\ DeliveredUpToIncoming' /\ DeliveredInOrder'
<1>1. CollectedIsPrefix'
  BY DEF ChannelInv, CollectedIsPrefix, SenderGrows, receiverVars
<1>2. DeliveredGenuine'
  <2> SUFFICES ASSUME NEW i \in DOMAIN delivered
               PROVE  /\ delivered[i].sequence \in DOMAIN sent'
                      /\ delivered[i].data = sent'[delivered[i].sequence]
                      /\ delivered[i].sequence < outgoingSequence'
    BY DEF DeliveredGenuine
  <2>1. delivered[i] \in [sequence : Nat, data : Seq(Byte)]
    BY ElementOfSeq, LenProperties DEF ChannelInv, SenderInv, TypeOK
  <2>2. delivered[i].sequence \in Nat
    BY <2>1
  <2>3. outgoingSequence \in Nat /\ outgoingSequence' \in Nat
    BY DEF ChannelInv, SenderInv, TypeOK
  <2> QED BY <2>2, <2>3 DEF ChannelInv, DeliveredGenuine, SenderGrows
<1>3. DeliveredUpToIncoming' /\ DeliveredInOrder'
  BY DEF ChannelInv, DeliveredUpToIncoming, DeliveredInOrder, receiverVars
<1> QED BY <1>1, <1>2, <1>3

(* A sent packet joins the network: the old ones stay genuine, and the new *)
(* one must be.                                                            *)
LEMMA NetworkStable ==
  ASSUME ChannelInv, SenderInv', SenderGrows,
         NEW p \in Packet, net' = Append(net, p), Genuine(p)'
  PROVE  PacketsGenuine'
<1>1. net \in Seq(Packet) /\ Len(net) \in Nat
  BY LenProperties DEF ChannelInv, SenderInv, TypeOK
<1>2. /\ DOMAIN net' = 1 .. Len(net) + 1
      /\ \A i \in 1 .. Len(net) : net'[i] = net[i]
      /\ net'[Len(net) + 1] = p
  BY <1>1, AppendProperties, LenProperties
<1>3. ASSUME NEW i \in 1 .. Len(net) PROVE Genuine(net[i])'
  <2>1. net[i] \in Packet /\ Genuine(net[i])
    BY <1>1, ElementOfSeq, LenProperties DEF ChannelInv, PacketsGenuine
  <2>2. outgoingSequence \in Nat /\ outgoingSequence' \in Nat
    BY DEF ChannelInv, SenderInv, TypeOK
  <2>3. net'[i] = net[i]
    BY <1>2
  <2> QED BY <2>1, <2>2, <2>3, GenuineStable DEF Genuine
<1> QED BY <1>1, <1>2, <1>3 DEF PacketsGenuine, Genuine

(* A fragment of the message being sent is genuine.                        *)
LEMMA SendFragmentGenuine ==
  ASSUME ChannelInv, SenderInv', SenderGrows,
         NEW msg \in Seq(Byte), NEW start \in Nat, start <= Len(msg),
         SendFragment(msg, start),
         outgoingSequence \in DOMAIN sent', sent'[outgoingSequence] = msg
  PROVE  PacketsGenuine'
<1> DEFINE end == FragmentEnd(msg, start)
           slice == SubSeq(msg, start + 1, end)
           packet == [sequence |-> outgoingSequence, fragmented |-> TRUE,
                      start |-> start, data |-> slice]
<1>1. /\ slice \in Seq(Byte) /\ Len(slice) = end - start
      /\ end \in Nat /\ start <= end /\ end <= Len(msg)
      /\ end - start # FRAGMENT_SIZE => end = Len(msg)
  BY FragmentSlice
<1>2. /\ net' = Append(net, packet)
      /\ IsLastFragment(msg, start)
           => outgoingSequence' = outgoingSequence + 1
  BY DEF SendFragment, Fragment
<1>3. outgoingSequence \in Nat
  BY DEF ChannelInv, SenderInv, TypeOK
<1>4a. packet \in Packet
  BY <1>1, <1>3 DEF Packet
<1>4. PICK p \in Packet : p = packet
  BY <1>4a, Zenon
<1>5. end - start # FRAGMENT_SIZE => outgoingSequence < outgoingSequence'
  BY <1>1, <1>2, <1>3 DEF IsLastFragment
<1>6. /\ start + Len(slice) = end
      /\ p.sequence = outgoingSequence /\ p.fragmented = TRUE
      /\ p.start = start /\ p.data = slice
  <2> HIDE DEF slice, end
  <2>1. start + Len(slice) = end
    BY <1>1
  <2>2. /\ p.sequence = outgoingSequence /\ p.fragmented = TRUE
        /\ p.start = start /\ p.data = slice
    BY <1>4
  <2> QED BY <2>1, <2>2
<1>7. Genuine(p)'
  <2> HIDE DEF slice, end
  <2>1. /\ start + Len(slice) <= Len(msg)
        /\ Len(slice) # FRAGMENT_SIZE =>
             /\ start + Len(slice) = Len(msg)
             /\ outgoingSequence < outgoingSequence'
    BY <1>1, <1>5, <1>6
  <2>2. slice = SubSeq(msg, start + 1, start + Len(slice))
    BY <1>6 DEF slice
  <2> QED BY <1>6, <2>1, <2>2 DEF Genuine
<1> QED BY <1>2, <1>4, <1>7, NetworkStable

(* Accepting a message from the layer above keeps the invariant.           *)
LEMMA TransmitChannel ==
  ASSUME ChannelInv, ~unsentFragments, NEW m \in Messages, Netchan_Transmit(m)
  PROVE  ChannelInv'
<1>1. SenderInv' /\ sent' = Append(sent, m)
  BY TransmitSender DEF ChannelInv
<1>2. /\ m \in Seq(Byte) /\ Len(m) <= MAX_MSGLEN /\ Len(m) \in Nat
      /\ sent \in Seq(Seq(Byte)) /\ Len(sent) \in Nat
      /\ outgoingSequence = Len(sent) + 1 /\ outgoingSequence' \in Nat
  BY <1>1, MessagesAssumption, LenProperties
     DEF ChannelInv, SenderInv, SenderPosition, TypeOK
<1>3. /\ DOMAIN sent = 1 .. Len(sent)
      /\ DOMAIN sent' = 1 .. Len(sent) + 1
      /\ \A s \in 1 .. Len(sent) : sent'[s] = sent[s]
      /\ sent'[outgoingSequence] = m
      /\ outgoingSequence \in DOMAIN sent'
  BY <1>1, <1>2, AppendProperties, LenProperties
<1>4. UNCHANGED <<receiverVars, delivered>>
  BY DEF Netchan_Transmit, Netchan_TransmitWhole, Netchan_TransmitFragmented
<1>5. outgoingSequence' >= outgoingSequence
  BY <1>2 DEF Netchan_Transmit, Netchan_TransmitWhole,
              Netchan_TransmitFragmented, SendFragment
<1>6. SenderGrows
  BY <1>2, <1>3, <1>5 DEF SenderGrows
<1>7. MessagesFit'
  BY <1>2, <1>3 DEF ChannelInv, MessagesFit
<1>8. PacketsGenuine'
  <2>1. CASE Netchan_TransmitWhole(m)
    <3> DEFINE packet == [sequence |-> outgoingSequence, fragmented |-> FALSE,
                          start |-> 0, data |-> m]
    <3>1. /\ net' = Append(net, packet)
          /\ outgoingSequence' = outgoingSequence + 1
      BY <2>1 DEF Netchan_TransmitWhole, Whole
    <3>2a. packet \in Packet
      BY <1>2 DEF Packet
    <3>2. PICK p \in Packet : p = packet
      BY <3>2a, Zenon
    <3>3. Genuine(p)'
      BY <1>2, <1>3, <3>1, <3>2 DEF Genuine
    <3> QED BY <1>1, <1>6, <3>1, <3>2, <3>3, NetworkStable
  <2>2. CASE Netchan_TransmitFragmented(m)
    <3>1. SendFragment(m, 0) /\ 0 <= Len(m)
      BY <1>2, <2>2 DEF Netchan_TransmitFragmented
    <3> QED BY <1>1, <1>2, <1>3, <1>6, <3>1, SendFragmentGenuine
  <2> QED BY <2>1, <2>2 DEF Netchan_Transmit
<1> QED
  BY <1>1, <1>4, <1>6, <1>7, <1>8, ReceiverStable DEF ChannelInv

(* Going on with a message keeps the invariant.                            *)
LEMMA NextFragmentChannel ==
  ASSUME ChannelInv, Netchan_TransmitNextFragment
  PROVE  ChannelInv'
<1>1. SenderInv'
  BY NextFragmentSender DEF ChannelInv
<1>2. /\ SendFragment(unsentBuffer, unsentFragmentStart)
      /\ UNCHANGED <<unsentBuffer, receiverVars, sent, delivered>>
      /\ unsentFragments
  BY DEF Netchan_TransmitNextFragment
<1>3. /\ unsentBuffer \in Seq(Byte) /\ unsentFragmentStart \in Nat
      /\ unsentFragmentStart <= Len(unsentBuffer)
      /\ outgoingSequence \in Nat
      /\ outgoingSequence \in DOMAIN sent
      /\ unsentBuffer = sent[outgoingSequence]
  BY <1>2, LenProperties DEF ChannelInv, SenderInv, SenderPosition, TypeOK
<1>4. outgoingSequence' >= outgoingSequence
  BY <1>2, <1>3 DEF SendFragment
<1>5. SenderGrows
  BY <1>2, <1>4 DEF SenderGrows
<1>6. PacketsGenuine'
  BY <1>1, <1>2, <1>3, <1>5, SendFragmentGenuine
<1>7. MessagesFit'
  BY <1>2 DEF ChannelInv, MessagesFit
<1> QED
  BY <1>1, <1>2, <1>5, <1>6, <1>7, ReceiverStable DEF ChannelInv

(* The receiver: what it has collected is a prefix of the message the      *)
(* packet belongs to.                                                      *)
LEMMA CollectedPrefix ==
  ASSUME ChannelInv, NEW p \in Packet, Genuine(p)
  PROVE  /\ sent[p.sequence] \in Seq(Byte)
         /\ Collected(p) \in Seq(Byte)
         /\ Len(Collected(p)) <= Len(sent[p.sequence])
         /\ Collected(p) = SubSeq(sent[p.sequence], 1, Len(Collected(p)))
<1>1. sent[p.sequence] \in Seq(Byte)
  BY ElementOfSeq, LenProperties
     DEF ChannelInv, SenderInv, TypeOK, Genuine
<1>2. Len(sent[p.sequence]) \in Nat
  BY <1>1, LenProperties
<1>3. CASE p.sequence = fragmentSequence /\ fragmentBuffer # <<>>
  BY <1>1, <1>3 DEF ChannelInv, SenderInv, TypeOK, CollectedIsPrefix, Collected
<1>4. CASE ~(p.sequence = fragmentSequence /\ fragmentBuffer # <<>>)
  <2>1. Collected(p) = <<>>
    BY <1>4 DEF Collected
  <2>2. SubSeq(sent[p.sequence], 1, 0) = <<>>
    BY SubSeqEmpty
  <2> QED BY <1>1, <1>2, <2>1, <2>2, EmptySeq
<1> QED BY <1>3, <1>4

(* A prefix and the slice that follows it make a longer prefix.            *)
LEMMA PrefixExtends ==
  ASSUME NEW msg \in Seq(Byte), NEW k \in Nat, NEW n \in Nat,
         k + n <= Len(msg)
  PROVE  SubSeq(msg, 1, k) \o SubSeq(msg, k + 1, k + n)
           = SubSeq(msg, 1, k + n)
<1>1. Len(msg) \in Nat
  BY LenProperties
<1>2. /\ 1 \in 1 .. Len(msg) + 1 /\ k \in 1 - 1 .. Len(msg)
      /\ k + n \in k .. Len(msg)
  BY <1>1
<1> QED BY <1>1, <1>2, ConcatAdjacentSubSeq

(* A fragment that starts where the bytes collected end extends the prefix;*)
(* one that is not full completes the message.                             *)
LEMMA FragmentExtends ==
  ASSUME ChannelInv, NEW p \in Packet, Genuine(p), p.fragmented,
         p.start = Len(Collected(p))
  PROVE  LET msg == sent[p.sequence]
             joined == Collected(p) \o p.data
         IN  /\ joined \in Seq(Byte)
             /\ Len(joined) = p.start + Len(p.data)
             /\ Len(joined) <= Len(msg)
             /\ joined = SubSeq(msg, 1, Len(joined))
             /\ Len(p.data) # FRAGMENT_SIZE => joined = msg
<1> DEFINE msg == sent[p.sequence]
           joined == Collected(p) \o p.data
           n == Len(p.data)
<1>1. /\ msg \in Seq(Byte) /\ Len(msg) \in Nat
      /\ Collected(p) \in Seq(Byte)
      /\ p.start \in Nat /\ p.start <= Len(msg)
      /\ Collected(p) = SubSeq(msg, 1, p.start)
  BY CollectedPrefix, LenProperties
<1>2. /\ p.data \in Seq(Byte) /\ n \in Nat
      /\ p.start + n <= Len(msg)
      /\ p.data = SubSeq(msg, p.start + 1, p.start + n)
      /\ n # FRAGMENT_SIZE => p.start + n = Len(msg)
  BY LenProperties DEF Packet, Genuine
<1>3. joined \in Seq(Byte) /\ Len(joined) = p.start + n
  BY <1>1, <1>2, ConcatProperties
<1>4. joined = SubSeq(msg, 1, p.start + n)
  <2>1. SubSeq(msg, 1, p.start) \o SubSeq(msg, p.start + 1, p.start + n)
          = SubSeq(msg, 1, p.start + n)
    <3> HIDE DEF msg, n
    <3> QED BY <1>1, <1>2, PrefixExtends
  <2> QED BY <1>1, <1>2, <2>1
<1>5. n # FRAGMENT_SIZE => joined = msg
  BY <1>1, <1>2, <1>4, SubSeqFull
<1> HIDE DEF msg, joined, n
<1>6. /\ joined \in Seq(Byte) /\ Len(joined) = p.start + Len(p.data)
      /\ Len(joined) <= Len(msg) /\ joined = SubSeq(msg, 1, Len(joined))
      /\ Len(p.data) # FRAGMENT_SIZE => joined = msg
  BY <1>2, <1>3, <1>4, <1>5 DEF n
<1> QED BY <1>6 DEF msg, joined

(* Handing a message up keeps the order, if it is the one sent under its   *)
(* number and newer than all before.                                       *)
LEMMA HandUpStable ==
  ASSUME ChannelInv, SenderInv', NEW s \in Nat, NEW data \in Seq(Byte),
         HandUp(s, data), s > incomingSequence,
         s \in DOMAIN sent, data = sent[s], s < outgoingSequence,
         UNCHANGED <<sent, outgoingSequence>>
  PROVE  DeliveredGenuine' /\ DeliveredUpToIncoming' /\ DeliveredInOrder'
<1> DEFINE up == [sequence |-> s, data |-> data]
           n == Len(delivered)
<1>1. /\ delivered \in Seq([sequence : Nat, data : Seq(Byte)]) /\ n \in Nat
      /\ up \in [sequence : Nat, data : Seq(Byte)]
      /\ DOMAIN delivered = 1 .. n /\ incomingSequence \in Nat
  BY LenProperties DEF ChannelInv, SenderInv, TypeOK
<1>2. delivered' = Append(delivered, up) /\ incomingSequence' = s
  BY DEF HandUp
<1>3. /\ DOMAIN delivered' = 1 .. n + 1
      /\ \A i \in 1 .. n : delivered'[i] = delivered[i]
      /\ delivered'[n + 1] = up
  BY <1>1, <1>2, AppendProperties, LenProperties
<1>4. ASSUME NEW i \in 1 .. n PROVE delivered[i].sequence \in Nat
  <2>1. delivered[i] \in [sequence : Nat, data : Seq(Byte)]
    BY <1>1, ElementOfSeq
  <2> QED BY <2>1
<1>5. up.sequence = s /\ up.data = data
  OBVIOUS
<1> HIDE DEF up, n
<1>6. DeliveredGenuine'
  <2> SUFFICES ASSUME NEW i \in 1 .. n + 1
               PROVE  /\ delivered'[i].sequence \in DOMAIN sent
                      /\ delivered'[i].data = sent[delivered'[i].sequence]
                      /\ delivered'[i].sequence < outgoingSequence
    BY <1>3, Zenon DEF DeliveredGenuine
  <2>1. CASE i \in 1 .. n
    BY <1>1, <1>3, <2>1, Zenon DEF ChannelInv, DeliveredGenuine
  <2>2. CASE i = n + 1
    BY <1>3, <1>5, <2>2, Zenon
  <2> QED BY <1>1, <2>1, <2>2, SMT
<1>7. DeliveredUpToIncoming'
  BY <1>1, <1>2, <1>3, <1>4, <1>5 DEF ChannelInv, DeliveredUpToIncoming
<1>8. DeliveredInOrder'
  <2> SUFFICES ASSUME NEW i \in 1 .. n + 1, NEW j \in 1 .. n + 1, i < j
               PROVE  delivered'[i].sequence < delivered'[j].sequence
    BY <1>3 DEF DeliveredInOrder
  <2>1. i \in 1 .. n
    BY <1>1
  <2>2. CASE j \in 1 .. n
    BY <1>1, <1>3, <2>1, <2>2 DEF ChannelInv, DeliveredInOrder
  <2>3. CASE j = n + 1
    <3>1. delivered[i].sequence <= incomingSequence
      BY <1>1, <2>1 DEF ChannelInv, DeliveredUpToIncoming
    <3> QED BY <1>1, <1>3, <1>4, <1>5, <2>1, <2>3, <3>1
  <2> QED BY <1>1, <2>2, <2>3
<1> QED BY <1>6, <1>7, <1>8

(* Whatever packet arrives, the invariant is kept.                         *)
LEMMA ReceiveChannel ==
  ASSUME ChannelInv, NEW i \in DOMAIN net, Netchan_Process(net[i])
  PROVE  ChannelInv'
<1>0. SenderInv'
  BY ReceiveSender DEF ChannelInv
<1>1. PICK p \in Packet : p = net[i]
  <2>1. net[i] \in Packet
    BY ElementOfSeq, LenProperties DEF ChannelInv, SenderInv, TypeOK
  <2> QED BY <2>1, Zenon
<1>2. Netchan_Process(p) /\ Genuine(p)
  BY <1>1 DEF ChannelInv, PacketsGenuine
<1>3. UNCHANGED <<outgoingSequence, net, sent>>
  BY <1>2 DEF Netchan_Process, DiscardOld, KeepWaiting, AppendFragment,
              CompleteMessage, AcceptWhole, vars, senderVars
<1>4. MessagesFit' /\ PacketsGenuine'
  BY <1>3 DEF ChannelInv, MessagesFit, PacketsGenuine, Genuine
<1>5. SenderGrows
  BY <1>3 DEF SenderGrows, ChannelInv, SenderInv, TypeOK
<1>6. p.sequence \in Nat /\ p.sequence \in DOMAIN sent /\ p.data \in Seq(Byte)
  BY <1>2 DEF Packet, Genuine
<1>7. /\ sent[p.sequence] \in Seq(Byte)
      /\ Collected(p) \in Seq(Byte)
      /\ Len(Collected(p)) <= Len(sent[p.sequence])
      /\ Collected(p) = SubSeq(sent[p.sequence], 1, Len(Collected(p)))
  BY <1>2, CollectedPrefix
<1>8. CASE DiscardOld(p)
  <2>1. UNCHANGED <<receiverVars, delivered>>
    BY <1>8 DEF DiscardOld, vars
  <2> QED
    BY <1>0, <1>4, <1>5, <2>1, ReceiverStable DEF ChannelInv
<1>9. CASE KeepWaiting(p)
  <2>1. CollectedIsPrefix'
    BY <1>3, <1>6, <1>7, <1>9 DEF KeepWaiting, CollectedIsPrefix
  <2>2. DeliveredGenuine' /\ DeliveredUpToIncoming' /\ DeliveredInOrder'
    BY <1>3, <1>9 DEF KeepWaiting, ChannelInv, DeliveredGenuine,
                      DeliveredUpToIncoming, DeliveredInOrder
  <2> QED BY <1>0, <1>4, <2>1, <2>2 DEF ChannelInv
<1>10. CASE AppendFragment(p)
  <2>1. p.fragmented /\ p.start = Len(Collected(p))
    BY <1>10 DEF AppendFragment, FragmentFits
  <2>2. /\ Len(Collected(p) \o p.data) <= Len(sent[p.sequence])
        /\ Collected(p) \o p.data
             = SubSeq(sent[p.sequence], 1, Len(Collected(p) \o p.data))
    BY <1>2, <2>1, FragmentExtends
  <2>3. CollectedIsPrefix'
    BY <1>3, <1>6, <1>10, <2>2 DEF AppendFragment, CollectedIsPrefix
  <2>4. DeliveredGenuine' /\ DeliveredUpToIncoming' /\ DeliveredInOrder'
    BY <1>3, <1>10 DEF AppendFragment, ChannelInv, DeliveredGenuine,
                       DeliveredUpToIncoming, DeliveredInOrder
  <2> QED BY <1>0, <1>4, <2>3, <2>4 DEF ChannelInv
<1>11. CASE CompleteMessage(p)
  <2>1. /\ p.fragmented /\ p.start = Len(Collected(p))
        /\ Len(p.data) # FRAGMENT_SIZE
        /\ fragmentBuffer' = <<>>
        /\ HandUp(p.sequence, Collected(p) \o p.data)
        /\ p.sequence > incomingSequence
    BY <1>11 DEF CompleteMessage, FragmentFits
  <2>2. /\ Collected(p) \o p.data \in Seq(Byte)
        /\ Collected(p) \o p.data = sent[p.sequence]
    BY <1>2, <2>1, FragmentExtends
  <2>3. p.sequence < outgoingSequence
    BY <1>2, <2>1 DEF Genuine
  <2>4. DeliveredGenuine' /\ DeliveredUpToIncoming' /\ DeliveredInOrder'
    BY <1>0, <1>3, <1>6, <2>1, <2>2, <2>3, HandUpStable
  <2>5. CollectedIsPrefix'
    BY <2>1 DEF CollectedIsPrefix
  <2> QED BY <1>0, <1>4, <2>4, <2>5 DEF ChannelInv
<1>12. CASE AcceptWhole(p)
  <2>1. /\ HandUp(p.sequence, p.data) /\ p.sequence > incomingSequence
        /\ ~p.fragmented
        /\ UNCHANGED <<fragmentSequence, fragmentBuffer>>
    BY <1>12 DEF AcceptWhole
  <2>2. p.data = sent[p.sequence] /\ p.sequence < outgoingSequence
    BY <1>2, <2>1 DEF Genuine
  <2>3. DeliveredGenuine' /\ DeliveredUpToIncoming' /\ DeliveredInOrder'
    BY <1>0, <1>3, <1>6, <2>1, <2>2, HandUpStable
  <2>4. CollectedIsPrefix'
    BY <1>3, <2>1 DEF ChannelInv, CollectedIsPrefix
  <2> QED BY <1>0, <1>4, <2>3, <2>4 DEF ChannelInv
<1> QED
  BY <1>2, <1>8, <1>9, <1>10, <1>11, <1>12 DEF Netchan_Process

(* Every step of the channel keeps the invariant.                          *)
LEMMA ChannelStep == ChannelInv /\ [Next]_vars => ChannelInv'
<1> SUFFICES ASSUME ChannelInv, [Next]_vars PROVE ChannelInv'
  OBVIOUS
<1>1. CASE Send
  BY <1>1, TransmitChannel DEF Send
<1>2. CASE Netchan_TransmitNextFragment
  BY <1>2, NextFragmentChannel
<1>3. CASE Receive
  BY <1>3, ReceiveChannel DEF Receive
<1>4. CASE UNCHANGED vars
  <2>1. SenderInv'
    BY <1>4, SenderStep DEF ChannelInv
  <2> QED
    BY <1>4, <2>1
       DEF ChannelInv, MessagesFit, PacketsGenuine, Genuine,
           CollectedIsPrefix, DeliveredGenuine, DeliveredUpToIncoming,
           DeliveredInOrder, vars, senderVars, receiverVars
<1> QED BY <1>1, <1>2, <1>3, <1>4 DEF Next

(* ChannelInv is an invariant of the channel.                              *)
LEMMA ChannelCorrect == Spec => []ChannelInv
  BY ChannelInit, ChannelStep, PTL DEF Spec

(* Every message handed up is the one sent under its number, byte for      *)
(* byte, whatever the network lost, repeated or reordered.                 *)
THEOREM Integrity == Spec => []DeliveredIntact
<1>1. ChannelInv => DeliveredIntact
  BY DEF ChannelInv, DeliveredGenuine, DeliveredIntact
<1> QED BY <1>1, ChannelCorrect, PTL

(* Messages are handed up in the order of their numbers, each at most once.*)
THEOREM Order == Spec => []DeliveredInOrder
<1>1. ChannelInv => DeliveredInOrder
  BY DEF ChannelInv
<1> QED BY <1>1, ChannelCorrect, PTL

(* What the receiver has collected of an unfinished message is a prefix of *)
(* that message, however the fragments arrived.                            *)
THEOREM Prefix == Spec => []CollectedIsPrefix
<1>1. ChannelInv => CollectedIsPrefix
  BY DEF ChannelInv
<1> QED BY <1>1, ChannelCorrect, PTL

(* No message is handed up before its sender has sent all of it.           *)
THEOREM NotAhead == Spec => []NeverAheadOfSender
<1>1. ChannelInv => NeverAheadOfSender
  BY DEF ChannelInv, DeliveredGenuine, NeverAheadOfSender
<1> QED BY <1>1, ChannelCorrect, PTL

(* The receiver's bounds check never rejects a fragment of this sender.    *)
THEOREM NoOverflow == Spec => []NeverOverflows
<1>1. ChannelInv => NeverOverflows
  <2> SUFFICES ASSUME ChannelInv, NEW i \in DOMAIN net,
                      net[i].fragmented,
                      net[i].start = Len(Collected(net[i]))
               PROVE  Len(Collected(net[i])) + Len(net[i].data) <= MAX_MSGLEN
    BY DEF NeverOverflows
  <2>1. net[i] \in Packet /\ Genuine(net[i])
    BY ElementOfSeq, LenProperties
       DEF ChannelInv, SenderInv, TypeOK, PacketsGenuine
  <2>2. Len(sent[net[i].sequence]) <= MAX_MSGLEN
    BY <2>1 DEF ChannelInv, MessagesFit, Genuine
  <2>3. net[i].start + Len(net[i].data) <= Len(sent[net[i].sequence])
    BY <2>1 DEF Genuine
  <2>4. /\ sent[net[i].sequence] \in Seq(Byte)
        /\ net[i].start \in Nat /\ net[i].data \in Seq(Byte)
    BY <2>1, CollectedPrefix DEF Packet
  <2>5. Len(sent[net[i].sequence]) \in Nat /\ Len(net[i].data) \in Nat
    BY <2>4, LenProperties
  <2> QED BY <2>2, <2>3, <2>4, <2>5, MsgLenAssumption
<1> QED BY <1>1, ChannelCorrect, PTL

-----------------------------------------------------------------------------
(* Refinement of MessageChannel.                                           *)

(* A packet that arrives is a delivery, or nothing, to the layer above.    *)
LEMMA ReceiveRefines ==
  ASSUME ChannelInv, NEW i \in DOMAIN net, Netchan_Process(net[i])
  PROVE  [Channel!Next]_Channel!vars
<1>1. PICK p \in Packet : p = net[i]
  <2>1. net[i] \in Packet
    BY ElementOfSeq, LenProperties DEF ChannelInv, SenderInv, TypeOK
  <2> QED BY <2>1, Zenon
<1>2. Netchan_Process(p) /\ Genuine(p) /\ p.sequence \in Nat
  BY <1>1 DEF ChannelInv, PacketsGenuine, Packet
<1>3. ASSUME NEW data \in Seq(Byte), HandUp(p.sequence, data),
             p.sequence > incomingSequence, data = sent[p.sequence],
             UNCHANGED sent
      PROVE  Channel!Next
  <2>1. ASSUME NEW k \in DOMAIN delivered
        PROVE  delivered[k].sequence < p.sequence
    <3>1. delivered[k] \in [sequence : Nat, data : Seq(Byte)]
      BY ElementOfSeq, LenProperties DEF ChannelInv, SenderInv, TypeOK
    <3>2. delivered[k].sequence \in Nat /\ incomingSequence \in Nat
      BY <3>1 DEF ChannelInv, SenderInv, TypeOK
    <3>3. delivered[k].sequence <= incomingSequence
      BY DEF ChannelInv, DeliveredUpToIncoming
    <3> QED BY <1>2, <1>3, <3>2, <3>3
  <2>2. Channel!Deliver(p.sequence)
    BY <1>3, <2>1 DEF Channel!Deliver, HandUp
  <2>3. p.sequence \in DOMAIN sent
    BY <1>2 DEF Genuine
  <2> QED BY <2>2, <2>3 DEF Channel!Next
<1>4. CASE DiscardOld(p) \/ KeepWaiting(p) \/ AppendFragment(p)
  BY <1>4 DEF DiscardOld, KeepWaiting, AppendFragment, vars, Channel!vars
<1>5. CASE CompleteMessage(p)
  <2>1. /\ p.fragmented /\ p.start = Len(Collected(p))
        /\ Len(p.data) # FRAGMENT_SIZE
        /\ HandUp(p.sequence, Collected(p) \o p.data)
        /\ p.sequence > incomingSequence /\ UNCHANGED sent
    BY <1>5 DEF CompleteMessage, FragmentFits
  <2>2. /\ Collected(p) \o p.data \in Seq(Byte)
        /\ Collected(p) \o p.data = sent[p.sequence]
    BY <1>2, <2>1, FragmentExtends
  <2> QED BY <1>3, <2>1, <2>2
<1>6. CASE AcceptWhole(p)
  BY <1>2, <1>3, <1>6 DEF AcceptWhole, Genuine, Packet
<1> QED BY <1>2, <1>4, <1>5, <1>6 DEF Netchan_Process

(* Every step of the netchan is one of the message channel, or none.       *)
LEMMA StepRefines == ChannelInv /\ [Next]_vars => [Channel!Next]_Channel!vars
<1> SUFFICES ASSUME ChannelInv, [Next]_vars
             PROVE  [Channel!Next]_Channel!vars
  OBVIOUS
<1>1. CASE Send
  <2>1. PICK m \in Messages : Netchan_Transmit(m)
    BY <1>1 DEF Send
  <2>2. Channel!Send(m)
    BY <2>1 DEF Netchan_Transmit, Netchan_TransmitWhole,
                Netchan_TransmitFragmented, Channel!Send
  <2> QED BY <2>2 DEF Channel!Next
<1>2. CASE Netchan_TransmitNextFragment
  BY <1>2 DEF Netchan_TransmitNextFragment, Channel!vars
<1>3. CASE Receive
  BY <1>3, ReceiveRefines DEF Receive
<1>4. CASE UNCHANGED vars
  BY <1>4 DEF vars, Channel!vars
<1> QED BY <1>1, <1>2, <1>3, <1>4 DEF Next

(* A netchan implements the message channel its users rely on.             *)
THEOREM Refinement == Spec => ImplementsChannel
<1>1. Init => Channel!Init
  BY DEF Init, Channel!Init
<1> QED
  BY <1>1, StepRefines, ChannelCorrect, PTL
     DEF Spec, Channel!Spec, ImplementsChannel

-----------------------------------------------------------------------------
(* The server's side.  SvInv is its inductive invariant: it keeps that of  *)
(* the netchan, and relates the list to what was handed over, to the       *)
(* message being fragmented and to the number a gamestate is filed under.  *)

StackedMessages ==
    [msg : Messages, gamestate : BOOLEAN, acknowledges : Nat, number : Nat]
FiledMessages ==
    [number : Nat, gamestate : BOOLEAN, acknowledges : Nat, scrambled : Nat]

SvTypes ==
    /\ queue \in Seq(StackedMessages) /\ filed \in Seq(FiledMessages)
    /\ handed \in Seq(Seq(Byte))
    /\ lastClientCommand \in Nat /\ gamestateMessageNum \in Nat \cup {-1}
    /\ disorder \in {"none", "crowded", "stranded"}

(* Only gamestates wait, and they do while another message is fragmented.  *)
QueueOK ==
    /\ \A i \in DOMAIN queue :
         queue[i].gamestate /\ queue[i].number <= outgoingSequence
    /\ disorder # "stranded" /\ queue # <<>> => unsentFragments
    /\ disorder = "none" =>
         /\ Len(queue) <= 1
         /\ queue # <<>> => gamestateMessageNum = outgoingSequence

(* A gamestate goes out under the number it was filed under or the next.   *)
FiledOK ==
    /\ Len(filed) = Len(sent)
    /\ FiledAndKeyed
    /\ disorder = "none" =>
         \A n \in DOMAIN filed :
             filed[n].gamestate => n <= gamestateMessageNum + 1

Counted == \A m \in Messages :
    Copies(handed, m) = Copies(sent, m) + Copies(Waiting, m)

SvInv ==
    /\ ChannelInv /\ SvTypes /\ QueueOK /\ FiledOK /\ Counted
    /\ disorder # "stranded" => sent \o Waiting = handed

(* Messages are counted by their places, so a sequence put together of two *)
(* has as many copies of one as the two have.                              *)
LEMMA CopiesConcat ==
  ASSUME NEW S, NEW s \in Seq(S), NEW t \in Seq(S), NEW m
  PROVE  /\ Copies(s, m) \in Nat /\ Copies(t, m) \in Nat
         /\ Copies(s \o t, m) = Copies(s, m) + Copies(t, m)
<1> DEFINE A == {i \in DOMAIN s : s[i] = m}
           B == {i \in DOMAIN t : t[i] = m}
           C == {i \in DOMAIN (s \o t) : (s \o t)[i] = m}
           D == {i \in C : i > Len(s)}
           f == [i \in B |-> Len(s) + i]
<1>1. /\ Len(s) \in Nat /\ Len(t) \in Nat /\ s \o t \in Seq(S)
      /\ DOMAIN s = 1 .. Len(s) /\ DOMAIN t = 1 .. Len(t)
      /\ DOMAIN (s \o t) = 1 .. Len(s) + Len(t)
      /\ \A i \in 1 .. Len(s) + Len(t) :
           (s \o t)[i] = IF i <= Len(s) THEN s[i] ELSE t[i - Len(s)]
  BY ConcatProperties, LenProperties
<1>2. IsFiniteSet(A) /\ IsFiniteSet(B) /\ IsFiniteSet(C)
  <2>1. /\ IsFiniteSet(1 .. Len(s)) /\ IsFiniteSet(1 .. Len(t))
        /\ IsFiniteSet(1 .. Len(s) + Len(t))
    BY <1>1, FS_Interval
  <2>2. /\ A \in SUBSET (1 .. Len(s)) /\ B \in SUBSET (1 .. Len(t))
        /\ C \in SUBSET (1 .. Len(s) + Len(t))
    BY <1>1
  <2> HIDE DEF A, B, C
  <2> QED BY <2>1, <2>2, FS_Subset
<1>3. Cardinality(A) \in Nat /\ Cardinality(B) \in Nat
  BY <1>2, FS_CardinalityType
<1>4. C = A \cup D /\ A \cap D = {}
  <2>1. ASSUME NEW i \in C, ~(i > Len(s)) PROVE i \in A
    BY <1>1, <2>1
  <2>2. ASSUME NEW i \in A PROVE i \in C /\ ~(i > Len(s))
    <3>1. i \in 1 .. Len(s) + Len(t) /\ i <= Len(s) /\ ~(i > Len(s))
      BY <1>1
    <3> QED BY <1>1, <3>1
  <2> HIDE DEF A, C
  <2> QED BY <2>1, <2>2
<1>5. f \in Bijection(B, D)
  <2>1. ASSUME NEW i \in B PROVE f[i] \in D /\ f[i] - Len(s) = i
    <3>1. /\ Len(s) + i \in 1 .. Len(s) + Len(t) /\ ~(Len(s) + i <= Len(s))
          /\ Len(s) + i > Len(s) /\ Len(s) + i - Len(s) = i /\ t[i] = m
      BY <1>1
    <3>2. (s \o t)[Len(s) + i] = m
      BY <1>1, <3>1
    <3> QED BY <1>1, <3>1, <3>2
  <2>2. ASSUME NEW j \in D PROVE \E i \in B : f[i] = j
    <3>1. /\ j \in 1 .. Len(s) + Len(t) /\ j > Len(s) /\ ~(j <= Len(s))
          /\ j - Len(s) \in 1 .. Len(t) /\ Len(s) + (j - Len(s)) = j
      BY <1>1
    <3>2. t[j - Len(s)] = m
      BY <1>1, <3>1
    <3>3. j - Len(s) \in B
      BY <1>1, <3>1, <3>2
    <3> QED BY <3>1, <3>3
  <2>3. f = [i \in B |-> f[i]]
    OBVIOUS
  <2> HIDE DEF B, D, f
  <2>4. f \in [B -> D]
    BY <2>1, <2>3
  <2>5. \A i, j \in B : f[i] = f[j] => i = j
    BY <2>1
  <2> QED BY <2>2, <2>4, <2>5
          DEF Bijection, Injection, Surjection, IsInjective
<1>6. IsFiniteSet(D) /\ Cardinality(D) = Cardinality(B)
  <2> HIDE DEF B, D, f
  <2>1. ExistsBijection(B, D)
    BY <1>5 DEF ExistsBijection
  <2> QED BY <1>2, <2>1, FS_Bijection
<1>7. Cardinality(C) = Cardinality(A) + Cardinality(B)
  <2> HIDE DEF A, B, C, D
  <2>1. Cardinality(A \cup D) = Cardinality(A) + Cardinality(D) - Cardinality(A \cap D)
    BY <1>2, <1>6, FS_Union
  <2>2. Cardinality(A \cap D) = 0
    BY <1>4, FS_EmptySet
  <2> QED BY <1>3, <1>4, <1>6, <2>1, <2>2
<1> QED BY <1>3, <1>7 DEF Copies

(* So one more message is one more copy, of itself.                        *)
LEMMA CopiesAppend ==
  ASSUME NEW S, NEW s \in Seq(S), NEW e \in S, NEW m
  PROVE  /\ Copies(<<e>>, m) \in Nat
         /\ Copies(Append(s, e), m) = Copies(s, m) + Copies(<<e>>, m)
<1>1. <<e>> \in Seq(S) /\ Append(s, e) = s \o <<e>>
  BY AppendIsConcat
<1> QED BY <1>1, CopiesConcat

(* What waits when a message is stacked, and when one is taken.            *)
LEMMA WaitingIs ==
  ASSUME queue \in Seq(StackedMessages)
  PROVE  /\ Waiting \in Seq(Seq(Byte)) /\ Len(Waiting) = Len(queue)
         /\ \A q \in StackedMessages :
              queue' = Append(queue, q) => Waiting' = Append(Waiting, q.msg)
         /\ queue # <<>> =>
              /\ Head(queue) \in StackedMessages
              /\ queue' = Tail(queue) =>
                   Waiting = <<Head(queue).msg>> \o Waiting'
<1>1. Len(queue) \in Nat /\ DOMAIN queue = 1 .. Len(queue)
  BY LenProperties
<1>2. ASSUME NEW q \in StackedMessages PROVE q.msg \in Seq(Byte)
  BY MessagesAssumption DEF StackedMessages
<1>3. ASSUME NEW s \in Seq(StackedMessages)
      PROVE  LET w == [i \in DOMAIN s |-> s[i].msg]
             IN /\ w \in Seq(Seq(Byte)) /\ Len(w) = Len(s)
                /\ \A i \in 1 .. Len(s) : w[i] = s[i].msg
  <2> DEFINE w == [i \in DOMAIN s |-> s[i].msg]
  <2>1. DOMAIN s = 1 .. Len(s) /\ Len(s) \in Nat
    BY LenProperties
  <2>2. \A i \in 1 .. Len(s) : s[i].msg \in Seq(Byte)
    BY <1>2, <2>1, ElementOfSeq
  <2>3. w \in [1 .. Len(s) -> Seq(Byte)]
    BY <2>1, <2>2
  <2>4. w \in Seq(Seq(Byte))
    BY <2>1, <2>3, IsASeq
  <2>5. DOMAIN w = 1 .. Len(s) /\ DOMAIN w = 1 .. Len(w) /\ Len(w) \in Nat
    BY <2>1, <2>4, LenProperties
  <2>6. \A i \in 1 .. Len(s) : w[i] = s[i].msg
    BY <2>1
  <2> HIDE DEF w
  <2>7. Len(w) = Len(s)
    BY <2>1, <2>5
  <2>8. w \in Seq(Seq(Byte)) /\ Len(w) = Len(s) /\ \A i \in 1 .. Len(s) : w[i] = s[i].msg
    BY <2>4, <2>6, <2>7
  <2> QED BY <2>8 DEF w
<1>4. /\ Waiting \in Seq(Seq(Byte)) /\ Len(Waiting) = Len(queue)
      /\ \A i \in 1 .. Len(queue) : Waiting[i] = queue[i].msg
  BY <1>3 DEF Waiting
<1>5. ASSUME NEW q \in StackedMessages, queue' = Append(queue, q)
      PROVE  Waiting' = Append(Waiting, q.msg)
  <2>1. /\ queue' \in Seq(StackedMessages) /\ Len(queue') = Len(queue) + 1
        /\ \A i \in 1 .. Len(queue) : queue'[i] = queue[i]
        /\ queue'[Len(queue) + 1] = q
    BY <1>5, AppendProperties
  <2>2. PICK s \in Seq(StackedMessages) : s = queue'
    BY <2>1
  <2>3. /\ Waiting' \in Seq(Seq(Byte)) /\ Len(Waiting') = Len(queue')
        /\ \A i \in 1 .. Len(queue') : Waiting'[i] = queue'[i].msg
    BY <1>3, <2>2 DEF Waiting
  <2>4. PICK e \in Seq(Byte) : e = q.msg
    BY <1>2
  <2> DEFINE a == Append(Waiting, e)
  <2>5. /\ a \in Seq(Seq(Byte)) /\ Len(a) = Len(Waiting) + 1
        /\ \A i \in 1 .. Len(Waiting) : a[i] = Waiting[i]
        /\ a[Len(Waiting) + 1] = e
    <3>1. PICK v \in Seq(Seq(Byte)) : v = Waiting
      BY <1>4
    <3>2. /\ Append(v, e) \in Seq(Seq(Byte)) /\ Len(Append(v, e)) = Len(v) + 1
          /\ \A i \in 1 .. Len(v) : Append(v, e)[i] = v[i]
          /\ Append(v, e)[Len(v) + 1] = e
      BY AppendProperties
    <3> QED BY <3>1, <3>2
  <2> HIDE DEF a
  <2>6. \A i \in 1 .. Len(queue) + 1 : i \in 1 .. Len(queue) \/ i = Len(queue) + 1
    BY <1>1
  <2>7. \A i \in 1 .. Len(a) : a[i] = Waiting'[i]
    BY <1>4, <2>1, <2>3, <2>4, <2>5, <2>6
  <2>8. PICK w \in Seq(Seq(Byte)) : w = Waiting'
    BY <2>3
  <2>9. a = w
    BY <1>4, <2>1, <2>3, <2>5, <2>7, <2>8, SeqEqual
  <2> QED BY <2>4, <2>8, <2>9 DEF a
<1>6. ASSUME queue # <<>>
      PROVE  /\ Head(queue) \in StackedMessages
             /\ queue' = Tail(queue) =>
                  Waiting = <<Head(queue).msg>> \o Waiting'
  <2>1. /\ Head(queue) \in StackedMessages /\ Head(queue) = queue[1]
        /\ Tail(queue) \in Seq(StackedMessages) /\ Len(Tail(queue)) = Len(queue) - 1
        /\ \A i \in 1 .. Len(Tail(queue)) : Tail(queue)[i] = queue[i + 1]
    BY <1>6, HeadTailProperties
  <2>2. Len(queue) >= 1
    BY <1>1, <1>6, EmptySeq
  <2>3. SUFFICES ASSUME queue' = Tail(queue)
                 PROVE  Waiting = <<Head(queue).msg>> \o Waiting'
    BY <2>1
  <2>4. PICK s \in Seq(StackedMessages) : s = queue'
    BY <2>1, <2>3
  <2>5. /\ Waiting' \in Seq(Seq(Byte)) /\ Len(Waiting') = Len(queue')
        /\ \A i \in 1 .. Len(queue') : Waiting'[i] = queue'[i].msg
    BY <1>3, <2>4 DEF Waiting
  <2>6. PICK e \in Seq(Byte), w \in Seq(Seq(Byte)) : e = Head(queue).msg /\ w = Waiting'
    BY <1>2, <2>1, <2>5
  <2>7. <<e>> \in Seq(Seq(Byte)) /\ Len(<<e>>) = 1 /\ <<e>>[1] = e
    OBVIOUS
  <2> DEFINE a == <<e>> \o w
  <2>8. /\ a \in Seq(Seq(Byte)) /\ Len(a) = 1 + Len(w)
        /\ \A i \in 1 .. 1 + Len(w) : a[i] = IF i <= 1 THEN e ELSE w[i - 1]
    <3>1. \A i \in 1 .. 1 + Len(w) : i <= 1 => i = 1
      BY LenProperties
    <3> QED BY <2>7, <3>1, ConcatProperties
  <2> HIDE DEF a
  <2>9. Len(a) = Len(Waiting)
    BY <1>1, <1>4, <2>1, <2>2, <2>3, <2>5, <2>6, <2>8
  <2>10. ASSUME NEW i \in 1 .. Len(a) PROVE a[i] = Waiting[i]
    <3>1. CASE i = 1
      <4>1. 1 \in 1 .. Len(queue) /\ 1 \in 1 .. 1 + Len(w) /\ 1 <= 1
        BY <1>1, <1>4, <2>2, <2>8, <2>9
      <4> QED BY <1>4, <2>1, <2>6, <2>8, <3>1, <4>1
    <3>2. CASE i # 1
      <4>1. /\ i - 1 \in 1 .. Len(queue') /\ i - 1 + 1 = i /\ ~(i <= 1)
            /\ i \in 1 .. Len(queue) /\ i \in 1 .. 1 + Len(w)
        BY <1>1, <1>4, <2>1, <2>3, <2>5, <2>6, <2>8, <2>9, <3>2
      <4>2. queue'[i - 1] = queue[i]
        BY <2>1, <2>3, <4>1
      <4> QED BY <1>4, <2>5, <2>6, <2>8, <4>1, <4>2
    <3> QED BY <3>1, <3>2
  <2>11. a = Waiting
    BY <1>4, <2>8, <2>9, <2>10, SeqEqual
  <2> QED BY <2>6, <2>11 DEF a
<1> QED BY <1>4, <1>5, <1>6

-----------------------------------------------------------------------------
(* The steps of the server's side.                                         *)

(* Numbers of messages: the sender's, and how many there are.              *)
LEMMA SenderNumbers ==
  ASSUME ChannelInv
  PROVE  /\ outgoingSequence \in Nat /\ Len(sent) \in Nat
         /\ sent \in Seq(Seq(Byte)) /\ Len(sent) <= outgoingSequence
         /\ unsentFragments => outgoingSequence = Len(sent)
         /\ ~unsentFragments => outgoingSequence = Len(sent) + 1
BY LenProperties DEF ChannelInv, SenderInv, TypeOK, SenderPosition

(* Just set up, nothing waits.                                             *)
LEMMA SvInitInv == SvInit => SvInv
<1> SUFFICES ASSUME SvInit PROVE SvInv
  OBVIOUS
<1>1. ChannelInv
  BY ChannelInit DEF SvInit
<1>2. /\ queue = <<>> /\ filed = <<>> /\ handed = <<>> /\ sent = <<>>
      /\ lastClientCommand = 0 /\ gamestateMessageNum = -1 /\ disorder = "none"
  BY DEF SvInit, Init
<1>3. SvTypes
  BY <1>2, EmptySeq DEF SvTypes
<1>4. QueueOK
  BY <1>2, EmptySeq DEF QueueOK
<1>5. FiledOK
  BY <1>2, EmptySeq DEF FiledOK, FiledAndKeyed
<1>6. Waiting = <<>>
  BY <1>2 DEF Waiting
<1>7. Counted
  <2>1. ASSUME NEW m PROVE Copies(<<>>, m) = 0
    <3>1. {i \in DOMAIN <<>> : <<>>[i] = m} = {}
      OBVIOUS
    <3> QED BY <3>1, FS_EmptySet DEF Copies
  <2> QED BY <1>2, <1>6, <2>1 DEF Counted
<1>8. sent \o Waiting = handed
  BY <1>2, <1>6, EmptySeq, ConcatEmptySeq
<1> QED BY <1>1, <1>3, <1>4, <1>5, <1>7, <1>8 DEF SvInv

(* A message is filed: none is filed above its number, and one that is     *)
(* filed under it is scrambled with the command it acknowledges.           *)
LEMMA OneMoreFiled ==
  ASSUME SvInv, NEW r \in FiledMessages, filed' = Append(filed, r),
         Len(sent') = Len(sent) + 1, disorder' = "none" => disorder = "none",
         r.number <= Len(sent) + 1,
         r.number = Len(sent) + 1 => r.acknowledges = r.scrambled,
         gamestateMessageNum' \in Nat \cup {-1},
         disorder = "none" =>
           /\ r.gamestate => Len(sent) + 1 <= gamestateMessageNum' + 1
           /\ \/ gamestateMessageNum' = gamestateMessageNum
              \/ Len(sent) <= gamestateMessageNum' + 1
  PROVE  filed' \in Seq(FiledMessages) /\ FiledOK'
<1>1. /\ filed \in Seq(FiledMessages) /\ Len(filed) = Len(sent)
      /\ FiledAndKeyed /\ Len(sent) \in Nat
      /\ disorder = "none" =>
           \A n \in DOMAIN filed :
             filed[n].gamestate => n <= gamestateMessageNum + 1
  BY SenderNumbers DEF SvInv, SvTypes, FiledOK
<1>2. /\ filed' \in Seq(FiledMessages) /\ Len(filed') = Len(filed) + 1
      /\ \A i \in 1 .. Len(filed) : filed'[i] = filed[i]
      /\ filed'[Len(filed) + 1] = r
  BY <1>1, AppendProperties
<1>3. DOMAIN filed = 1 .. Len(sent) /\ DOMAIN filed' = 1 .. Len(sent) + 1
  BY <1>1, <1>2, LenProperties
<1>4. ASSUME NEW n \in DOMAIN filed'
      PROVE  \/ n \in DOMAIN filed /\ filed'[n] = filed[n] /\ n <= Len(sent)
             \/ n = Len(sent) + 1 /\ filed'[n] = r
  BY <1>1, <1>2, <1>3
<1>5. ASSUME NEW n \in DOMAIN filed'
      PROVE  /\ filed'[n].number <= n
             /\ filed'[n].number = n
                  => filed'[n].acknowledges = filed'[n].scrambled
  BY <1>1, <1>4 DEF FiledAndKeyed
<1>6. ASSUME disorder = "none", NEW n \in DOMAIN filed', filed'[n].gamestate
      PROVE  n <= gamestateMessageNum' + 1
  <2>1. CASE n = Len(sent) + 1 /\ filed'[n] = r
    BY <1>6, <2>1
  <2>2. CASE n \in DOMAIN filed /\ filed'[n] = filed[n] /\ n <= Len(sent)
    <3>1. n <= gamestateMessageNum + 1
      BY <1>1, <1>6, <2>2
    <3> QED BY <1>1, <1>3, <1>6, <2>2, <3>1
  <2> QED BY <1>4, <2>1, <2>2
<1> QED BY <1>1, <1>2, <1>5, <1>6 DEF FiledOK, FiledAndKeyed

(* A message is handed over while none is being fragmented.                *)
LEMMA TransmitNowStep ==
  ASSUME SvInv, NEW m \in Messages, NEW g \in BOOLEAN,
         SV_Netchan_TransmitNow(m, g), handed' = Append(handed, m),
         UNCHANGED lastClientCommand,
         gamestateMessageNum' = IF g THEN outgoingSequence ELSE gamestateMessageNum
  PROVE  SvInv'
<1> DEFINE r == [number |-> outgoingSequence, gamestate |-> g,
                 acknowledges |-> lastClientCommand,
                 scrambled |-> lastClientCommand]
<1>1. /\ ~unsentFragments /\ Netchan_Transmit(m) /\ UNCHANGED <<queue, disorder>>
      /\ filed' = Append(filed, r)
  BY DEF SV_Netchan_TransmitNow, SV_Netchan_Encode, Stacked, RecordedNumber
<1>2. ChannelInv' /\ sent' = Append(sent, m)
  BY <1>1, TransmitChannel, TransmitSender DEF SvInv, ChannelInv
<1>3. /\ outgoingSequence \in Nat /\ Len(sent) \in Nat
      /\ outgoingSequence = Len(sent) + 1 /\ sent \in Seq(Seq(Byte))
  BY <1>1, SenderNumbers DEF SvInv
<1>4. m \in Seq(Byte)
  BY MessagesAssumption
<1>5. sent' \in Seq(Seq(Byte)) /\ Len(sent') = Len(sent) + 1
  BY <1>2, <1>3, <1>4, AppendProperties
<1>6. outgoingSequence' \in Nat /\ outgoingSequence <= outgoingSequence'
  BY <1>2, <1>3, <1>5, SenderNumbers DEF ChannelInv, SenderInv, SenderPosition, TypeOK
<1>7. SvTypes /\ QueueOK /\ Counted
      /\ (disorder # "stranded" => sent \o Waiting = handed)
  BY DEF SvInv
<1>8. r \in FiledMessages /\ r.number = Len(sent) + 1 /\ r.gamestate = g
      /\ r.acknowledges = r.scrambled
  BY <1>3, <1>7 DEF FiledMessages, SvTypes
<1> HIDE DEF r
<1>9. gamestateMessageNum' \in Nat \cup {-1}
  BY <1>3, <1>7 DEF SvTypes
<1>10. filed' \in Seq(FiledMessages) /\ FiledOK'
  <2>1. disorder = "none" =>
          /\ r.gamestate => Len(sent) + 1 <= gamestateMessageNum' + 1
          /\ \/ gamestateMessageNum' = gamestateMessageNum
             \/ Len(sent) <= gamestateMessageNum' + 1
    BY <1>3, <1>8
  <2>2. r.number <= Len(sent) + 1
    BY <1>3, <1>8
  <2> QED BY <1>1, <1>5, <1>8, <1>9, <2>1, <2>2, OneMoreFiled
<1>11. handed \in Seq(Seq(Byte)) /\ queue \in Seq(StackedMessages)
  BY <1>7 DEF SvTypes
<1>12. SvTypes'
  BY <1>1, <1>4, <1>7, <1>9, <1>10, <1>11, AppendProperties DEF SvTypes
<1>13. ASSUME NEW i \in DOMAIN queue PROVE queue[i].number <= outgoingSequence'
  <2>1. queue[i] \in StackedMessages
    BY <1>11, ElementOfSeq, LenProperties
  <2>2. queue[i].number \in Nat /\ queue[i].number <= outgoingSequence
    BY <1>7, <2>1 DEF QueueOK, StackedMessages
  <2> QED BY <1>3, <1>6, <2>2
<1>14. disorder # "stranded" => queue = <<>>
  BY <1>1, <1>7 DEF QueueOK
<1>15. QueueOK'
  BY <1>1, <1>7, <1>13, <1>14 DEF QueueOK
<1>16. Waiting' = Waiting /\ Waiting \in Seq(Seq(Byte))
  BY <1>1, <1>11, WaitingIs DEF Waiting
<1>17. Counted'
  <2>1. ASSUME NEW x \in Messages
        PROVE  Copies(handed', x) = Copies(sent', x) + Copies(Waiting', x)
    <3>1. /\ Copies(handed', x) = Copies(handed, x) + Copies(<<m>>, x)
          /\ Copies(sent', x) = Copies(sent, x) + Copies(<<m>>, x)
          /\ Copies(<<m>>, x) \in Nat
      BY <1>2, <1>3, <1>4, <1>11, CopiesAppend
    <3>2. Copies(handed, x) = Copies(sent, x) + Copies(Waiting, x)
      BY <1>7 DEF Counted
    <3>3. Copies(sent, x) \in Nat /\ Copies(Waiting, x) \in Nat
      BY <1>3, <1>16, CopiesConcat
    <3> QED BY <1>16, <3>1, <3>2, <3>3
  <2> QED BY <2>1 DEF Counted, Copies
<1>18. disorder' # "stranded" => sent' \o Waiting' = handed'
  <2>1. SUFFICES ASSUME disorder # "stranded" PROVE sent' \o Waiting' = handed'
    BY <1>1
  <2>2. Waiting = <<>>
    BY <1>14, <2>1 DEF Waiting
  <2>3. sent = handed
    BY <1>3, <1>7, <2>1, <2>2, ConcatEmptySeq
  <2> QED BY <1>2, <1>5, <1>16, <2>2, <2>3, ConcatEmptySeq
<1> QED BY <1>2, <1>10, <1>12, <1>15, <1>17, <1>18 DEF SvInv

(* A gamestate is handed over while a message is being fragmented.         *)
LEMMA StackStep ==
  ASSUME SvInv, NEW m \in Messages, SV_Netchan_Stack(m, TRUE), handed' = Append(handed, m),
         UNCHANGED lastClientCommand, gamestateMessageNum' = outgoingSequence
  PROVE  SvInv'
<1> DEFINE q == Stacked(m, TRUE)
<1>1. /\ unsentFragments /\ Netchan_TransmitNextFragment
      /\ queue' = Append(queue, q) /\ UNCHANGED filed
      /\ disorder' = IF disorder = "stranded" \/ ~unsentFragments'
                       THEN "stranded"
                       ELSE IF queue # <<>> THEN "crowded" ELSE disorder
  BY DEF SV_Netchan_Stack
<1>2. ChannelInv' /\ sent' = sent
  BY <1>1, NextFragmentChannel DEF SvInv, Netchan_TransmitNextFragment
<1>3. /\ outgoingSequence \in Nat /\ Len(sent) \in Nat
      /\ outgoingSequence = Len(sent) /\ sent \in Seq(Seq(Byte))
  BY <1>1, SenderNumbers DEF SvInv
<1>4. /\ outgoingSequence' \in Nat /\ outgoingSequence <= outgoingSequence'
      /\ unsentFragments' => outgoingSequence' = outgoingSequence
  BY <1>2, <1>3 DEF ChannelInv, SenderInv, SenderPosition, TypeOK
<1>5. SvTypes /\ QueueOK /\ FiledOK /\ Counted
      /\ (disorder # "stranded" => sent \o Waiting = handed)
  BY DEF SvInv
<1>6. /\ q \in StackedMessages /\ q.msg = m /\ q.gamestate
      /\ q.number = outgoingSequence
  BY <1>3, <1>5 DEF Stacked, RecordedNumber, StackedMessages, SvTypes
<1> HIDE DEF q
<1>7. m \in Seq(Byte)
  BY MessagesAssumption
<1>8. /\ handed \in Seq(Seq(Byte)) /\ queue \in Seq(StackedMessages)
      /\ Len(queue) \in Nat /\ DOMAIN queue = 1 .. Len(queue)
  BY <1>5, LenProperties DEF SvTypes
<1>9. /\ queue' \in Seq(StackedMessages) /\ Len(queue') = Len(queue) + 1
      /\ \A i \in 1 .. Len(queue) : queue'[i] = queue[i]
      /\ queue'[Len(queue) + 1] = q
  BY <1>1, <1>6, <1>8, AppendProperties
<1>10. DOMAIN queue' = 1 .. Len(queue) + 1
  BY <1>9, LenProperties
<1>11. gamestateMessageNum' \in Nat \cup {-1}
       /\ disorder' \in {"none", "crowded", "stranded"}
  BY <1>1, <1>3, <1>5 DEF SvTypes
<1>12. SvTypes'
  BY <1>1, <1>5, <1>7, <1>8, <1>9, <1>11, AppendProperties DEF SvTypes
<1>13. ASSUME NEW i \in DOMAIN queue'
       PROVE  queue'[i].gamestate /\ queue'[i].number <= outgoingSequence'
  <2>1. CASE i \in DOMAIN queue
    <3>1. queue'[i] = queue[i] /\ queue[i] \in StackedMessages
      BY <1>8, <1>9, <2>1, ElementOfSeq
    <3>2. /\ queue[i].gamestate /\ queue[i].number <= outgoingSequence
          /\ queue[i].number \in Nat
      BY <1>5, <2>1, <3>1 DEF QueueOK, StackedMessages
    <3> QED BY <1>3, <1>4, <3>1, <3>2
  <2>2. CASE i \notin DOMAIN queue
    <3>1. queue'[i] = q
      BY <1>8, <1>9, <1>10, <2>2
    <3> QED BY <1>3, <1>4, <1>6, <3>1
  <2> QED BY <2>1, <2>2
<1>14. disorder' # "stranded" => unsentFragments' /\ disorder # "stranded"
  BY <1>1
<1>15. disorder' = "none" => queue = <<>> /\ unsentFragments' /\ disorder = "none"
  BY <1>1
<1>16. disorder' = "none" => Len(queue') <= 1 /\ gamestateMessageNum' = outgoingSequence'
  BY <1>4, <1>8, <1>9, <1>15, EmptySeq
<1>17. QueueOK'
  BY <1>13, <1>14, <1>16 DEF QueueOK
<1>18. FiledOK'
  <2>1. ASSUME NEW n \in DOMAIN filed PROVE n <= outgoingSequence + 1
    <3>1. DOMAIN filed = 1 .. Len(sent)
      BY <1>5, LenProperties DEF FiledOK, SvTypes
    <3> QED BY <1>3, <3>1
  <2> QED BY <1>1, <1>2, <1>5, <2>1 DEF FiledOK, FiledAndKeyed
<1>19. /\ Waiting \in Seq(Seq(Byte)) /\ Waiting' = Append(Waiting, m)
  BY <1>1, <1>6, <1>8, WaitingIs
<1>20. PICK w \in Seq(Seq(Byte)) : w = Waiting
  BY <1>19
<1>21. Counted'
  <2>1. ASSUME NEW x \in Messages
        PROVE  Copies(handed', x) = Copies(sent', x) + Copies(Waiting', x)
    <3>1. /\ Copies(handed', x) = Copies(handed, x) + Copies(<<m>>, x)
          /\ Copies(<<m>>, x) \in Nat
      BY <1>7, <1>8, CopiesAppend
    <3>2. Copies(Append(w, m), x) = Copies(w, x) + Copies(<<m>>, x)
      BY <1>7, CopiesAppend
    <3>3. Copies(handed, x) = Copies(sent, x) + Copies(w, x)
      BY <1>5, <1>20 DEF Counted
    <3>4. Copies(sent, x) \in Nat /\ Copies(w, x) \in Nat
      BY <1>3, CopiesConcat
    <3> QED BY <1>2, <1>19, <1>20, <3>1, <3>2, <3>3, <3>4
  <2> QED BY <2>1 DEF Counted, Copies
<1>22. disorder' # "stranded" => sent' \o Waiting' = handed'
  <2>1. <<m>> \in Seq(Seq(Byte)) /\ Append(w, m) = w \o <<m>>
        /\ Append(handed, m) = handed \o <<m>>
    BY <1>7, <1>8, AppendIsConcat
  <2>2. sent \o (w \o <<m>>) = (sent \o w) \o <<m>>
    BY <1>3, <2>1, ConcatAssociative
  <2>3. disorder' # "stranded" => sent \o w = handed
    BY <1>5, <1>14, <1>20
  <2> QED BY <1>2, <1>19, <1>20, <2>1, <2>2, <2>3
<1> QED BY <1>2, <1>12, <1>17, <1>18, <1>21, <1>22 DEF SvInv

(* A fragment goes out, and nothing is taken from the list.                *)
LEMMA ContinueStep ==
  ASSUME SvInv, Netchan_TransmitNextFragment, unsentFragments' \/ queue = <<>>,
         UNCHANGED <<queue, filed, lastClientCommand, gamestateMessageNum,
                     handed, disorder>>
  PROVE  SvInv'
<1>1. ChannelInv' /\ sent' = sent /\ unsentFragments
  BY NextFragmentChannel DEF SvInv, Netchan_TransmitNextFragment
<1>2. /\ outgoingSequence \in Nat /\ Len(sent) \in Nat /\ outgoingSequence = Len(sent)
  BY <1>1, SenderNumbers DEF SvInv
<1>3. /\ outgoingSequence' \in Nat /\ outgoingSequence <= outgoingSequence'
      /\ unsentFragments' => outgoingSequence' = outgoingSequence
  BY <1>1, <1>2 DEF ChannelInv, SenderInv, SenderPosition, TypeOK
<1>4. SvTypes /\ QueueOK /\ FiledOK /\ Counted
      /\ (disorder # "stranded" => sent \o Waiting = handed)
  BY DEF SvInv
<1>5. ASSUME NEW i \in DOMAIN queue PROVE queue[i].number <= outgoingSequence'
  <2>1. queue[i] \in StackedMessages
    BY <1>4, ElementOfSeq, LenProperties DEF SvTypes
  <2>2. queue[i].number \in Nat /\ queue[i].number <= outgoingSequence
    BY <1>4, <2>1 DEF QueueOK, StackedMessages
  <2> QED BY <1>2, <1>3, <2>2
<1>6. QueueOK'
  BY <1>3, <1>4, <1>5 DEF QueueOK
<1>7. SvTypes' /\ FiledOK' /\ Waiting' = Waiting
  BY <1>1, <1>4 DEF SvTypes, FiledOK, FiledAndKeyed, Waiting
<1>8. Counted'
  BY <1>1, <1>4, <1>7 DEF Counted, Copies
<1> QED BY <1>1, <1>4, <1>6, <1>7, <1>8 DEF SvInv

(* The end of a message and the beginning of the next keep the invariant   *)
(* of the netchan.                                                         *)
LEMMA PopChannel ==
  ASSUME ChannelInv, unsentFragments,
         IsLastFragment(unsentBuffer, unsentFragmentStart),
         NEW m \in Messages, NEW fits \in BOOLEAN,
         fits <=> Len(m) < FRAGMENT_SIZE,
         net' = net \o
           <<Fragment(outgoingSequence, unsentBuffer, unsentFragmentStart),
             IF fits THEN Whole(outgoingSequence + 1, m)
                     ELSE Fragment(outgoingSequence + 1, m, 0)>>,
         sent' = Append(sent, m),
         unsentFragments' = IF fits THEN FALSE ELSE TRUE,
         outgoingSequence' = IF fits THEN outgoingSequence + 2
                                     ELSE outgoingSequence + 1,
         unsentFragmentStart' = IF fits THEN 0 ELSE FragmentEnd(m, 0),
         unsentBuffer' = IF fits THEN unsentBuffer ELSE m,
         UNCHANGED <<receiverVars, delivered>>
  PROVE  ChannelInv'
<1> DEFINE start == unsentFragmentStart
           end == FragmentEnd(unsentBuffer, start)
           a == Fragment(outgoingSequence, unsentBuffer, start)
           b == IF fits THEN Whole(outgoingSequence + 1, m)
                        ELSE Fragment(outgoingSequence + 1, m, 0)
<1>1. /\ outgoingSequence \in Nat /\ Len(sent) \in Nat
      /\ outgoingSequence = Len(sent) /\ sent \in Seq(Seq(Byte))
  BY SenderNumbers
<1>2. /\ unsentBuffer \in Seq(Byte) /\ start \in Nat
      /\ start <= Len(unsentBuffer) /\ Len(unsentBuffer) \in Nat
      /\ Len(sent) > 0 /\ unsentBuffer = sent[outgoingSequence]
      /\ net \in Seq(Packet) /\ Len(net) \in Nat
  BY LenProperties DEF ChannelInv, SenderInv, SenderPosition, TypeOK
<1>3. m \in Seq(Byte) /\ Len(m) \in Nat /\ Len(m) <= MAX_MSGLEN
  BY MessagesAssumption, LenProperties
<1>4. /\ sent' \in Seq(Seq(Byte)) /\ Len(sent') = Len(sent) + 1
      /\ \A s \in 1 .. Len(sent) : sent'[s] = sent[s]
      /\ sent'[Len(sent) + 1] = m
  BY <1>1, <1>3, AppendProperties
<1>5. DOMAIN sent = 1 .. Len(sent) /\ DOMAIN sent' = 1 .. Len(sent) + 1
  BY <1>1, <1>4, LenProperties
<1>6. /\ end \in Nat /\ start <= end /\ end = Len(unsentBuffer)
      /\ a.data \in Seq(Byte) /\ Len(a.data) = end - start
      /\ a.data = SubSeq(unsentBuffer, start + 1, end)
      /\ a.sequence = outgoingSequence /\ a.fragmented = TRUE /\ a.start = start
  BY <1>2, FragmentSlice DEF Fragment, IsLastFragment
<1>7. ~fits => FragmentEnd(m, 0) = FRAGMENT_SIZE /\ FRAGMENT_SIZE <= Len(m)
  BY <1>3, FragmentSizeAssumption DEF FragmentEnd
<1>8. /\ b.data \in Seq(Byte)
      /\ b.sequence = outgoingSequence + 1 /\ b.start = 0
      /\ fits => b.fragmented = FALSE /\ b.data = m
      /\ ~fits => /\ b.fragmented = TRUE /\ Len(b.data) = FRAGMENT_SIZE
                  /\ b.data = SubSeq(m, 1, FRAGMENT_SIZE)
  <2>1. ~fits => /\ SubSeq(m, 0 + 1, FRAGMENT_SIZE) \in Seq(Byte)
                 /\ Len(SubSeq(m, 0 + 1, FRAGMENT_SIZE)) = FRAGMENT_SIZE - 0
    BY <1>3, <1>7, FragmentSlice
  <2>2. CASE fits
    <3>1. b = Whole(outgoingSequence + 1, m)
      BY <2>2
    <3> QED BY <1>3, <2>2, <3>1 DEF Whole
  <2>3. CASE ~fits
    <3>1. b = Fragment(outgoingSequence + 1, m, 0)
      BY <2>3
    <3>2. 0 + 1 = 1
      OBVIOUS
    <3> QED BY <1>7, <2>1, <2>3, <3>1, <3>2 DEF Fragment
  <2> QED BY <2>2, <2>3
<1>9. a = [sequence |-> a.sequence, fragmented |-> a.fragmented,
           start |-> a.start, data |-> a.data]
      /\ b = [sequence |-> b.sequence, fragmented |-> b.fragmented,
              start |-> b.start, data |-> b.data]
  BY DEF Fragment, Whole
<1>10. net' = net \o <<a, b>>
  OBVIOUS
<1> HIDE DEF a, b, end
<1>11. a \in Packet /\ b \in Packet
  <2>1. outgoingSequence + 1 \in Nat /\ 0 \in Nat /\ TRUE \in BOOLEAN
    BY <1>1
  <2>2. a \in Packet
    BY <1>1, <1>2, <1>6, <1>9, <2>1 DEF Packet
  <2>3. b \in Packet
    BY <1>8, <1>9, <2>1 DEF Packet
  <2> QED BY <2>2, <2>3
<1>12. PICK p, r \in Packet : p = a /\ r = b
  BY <1>11
<1>13. <<p, r>> \in Seq(Packet) /\ Len(<<p, r>>) = 2
       /\ <<p, r>>[1] = p /\ <<p, r>>[2] = r
  OBVIOUS
<1>14. /\ net' \in Seq(Packet) /\ Len(net') = Len(net) + 2
       /\ \A i \in 1 .. Len(net) + 2 :
            net'[i] = IF i <= Len(net) THEN net[i] ELSE <<p, r>>[i - Len(net)]
  <2>1. PICK q \in Seq(Packet) : q = <<p, r>>
    BY <1>13
  <2>2. net' = net \o q
    BY <1>10, <1>12, <2>1
  <2> QED BY <1>2, <1>13, <2>1, <2>2, ConcatProperties
<1>15. DOMAIN net = 1 .. Len(net) /\ DOMAIN net' = 1 .. Len(net) + 2
  BY <1>2, <1>14, LenProperties
<1>16. TypeOK'
  BY <1>1, <1>3, <1>4, <1>7, <1>14, FragmentSizeAssumption
     DEF ChannelInv, SenderInv, TypeOK, receiverVars
<1>17. SenderPosition'
  <2>1. CASE fits
    <3>1. unsentFragments' = FALSE /\ outgoingSequence' = Len(sent') + 1
      BY <1>1, <1>4, <2>1
    <3> QED BY <3>1 DEF SenderPosition
  <2>2. CASE ~fits
    BY <1>1, <1>3, <1>4, <1>7, <2>2 DEF SenderPosition
  <2> QED BY <2>1, <2>2
<1>18. SenderGrows
  BY <1>1, <1>4, <1>5 DEF SenderGrows
<1>19. MessagesFit'
  BY <1>3, <1>4, <1>5 DEF ChannelInv, MessagesFit
<1>20. Genuine(p)'
  <2>1. /\ outgoingSequence \in DOMAIN sent'
        /\ sent'[outgoingSequence] = unsentBuffer
        /\ outgoingSequence < outgoingSequence'
    BY <1>1, <1>2, <1>4, <1>5
  <2>2. start + Len(a.data) = end /\ end = Len(unsentBuffer) /\ end <= Len(unsentBuffer)
    BY <1>2, <1>6
  <2> QED BY <1>6, <1>12, <2>1, <2>2 DEF Genuine
<1>21. Genuine(r)'
  <2>1. outgoingSequence + 1 \in DOMAIN sent' /\ sent'[outgoingSequence + 1] = m
    BY <1>1, <1>4, <1>5
  <2>2. CASE fits
    <3>1. outgoingSequence + 1 < outgoingSequence'
      BY <1>1, <2>2
    <3> QED BY <1>8, <1>12, <2>1, <2>2, <3>1 DEF Genuine
  <2>3. CASE ~fits
    <3>1. /\ 0 + Len(b.data) = FRAGMENT_SIZE /\ 0 + 1 = 1
          /\ FRAGMENT_SIZE <= Len(m)
      BY <1>3, <1>7, <1>8, <2>3, FragmentSizeAssumption
    <3> QED BY <1>8, <1>12, <2>1, <2>3, <3>1 DEF Genuine
  <2> QED BY <2>2, <2>3
<1>22. ASSUME NEW i \in DOMAIN net' PROVE Genuine(net[i])'
  <2>1. CASE i \in DOMAIN net
    <3>1. net'[i] = net[i]
      BY <1>2, <1>14, <1>15, <2>1
    <3>2. PICK o \in Packet : o = net[i] /\ Genuine(o)
      BY <1>2, <1>15, <2>1, ElementOfSeq DEF ChannelInv, PacketsGenuine
    <3>3. outgoingSequence' \in Nat
      BY <1>1
    <3>4. Genuine(o)'
      BY <1>1, <1>18, <3>2, <3>3, GenuineStable
    <3> QED BY <3>1, <3>2, <3>4 DEF Genuine
  <2>2. CASE i = Len(net) + 1
    <3>1. i - Len(net) = 1 /\ ~(i <= Len(net)) /\ i \in 1 .. Len(net) + 2
      BY <1>2, <2>2
    <3>2. net'[i] = p
      BY <1>13, <1>14, <3>1
    <3> QED BY <1>20, <3>2 DEF Genuine
  <2>3. CASE i = Len(net) + 2
    <3>1. i - Len(net) = 2 /\ ~(i <= Len(net)) /\ i \in 1 .. Len(net) + 2
      BY <1>2, <2>3
    <3>2. net'[i] = r
      BY <1>13, <1>14, <3>1
    <3> QED BY <1>21, <3>2 DEF Genuine
  <2> QED BY <1>2, <1>15, <2>1, <2>2, <2>3
<1>23. PacketsGenuine'
  BY <1>22 DEF PacketsGenuine, Genuine
<1>24. SenderInv'
  BY <1>16, <1>17 DEF SenderInv
<1> QED BY <1>18, <1>19, <1>23, <1>24, ReceiverStable DEF ChannelInv

(* The last fragment goes out, and what waited longest is begun.           *)
LEMMA PopStep ==
  ASSUME SvInv, PopQueue,
         UNCHANGED <<lastClientCommand, gamestateMessageNum, handed>>
  PROVE  SvInv'
<1> DEFINE m == Head(queue).msg
           fits == Len(m) < FRAGMENT_SIZE
           r == [number |-> Head(queue).number,
                 gamestate |-> Head(queue).gamestate,
                 acknowledges |-> Head(queue).acknowledges,
                 scrambled |-> lastClientCommand]
<1>1. SvTypes /\ QueueOK /\ FiledOK /\ Counted /\ ChannelInv
      /\ (disorder # "stranded" => sent \o Waiting = handed)
  BY DEF SvInv
<1>2. /\ unsentFragments /\ IsLastFragment(unsentBuffer, unsentFragmentStart)
      /\ queue # <<>> /\ filed' = Append(filed, r) /\ queue' = Tail(queue)
      /\ UNCHANGED <<receiverVars, delivered>>
  BY DEF PopQueue, SV_Netchan_Encode
<1>3. /\ outgoingSequence \in Nat /\ Len(sent) \in Nat
      /\ outgoingSequence = Len(sent) /\ sent \in Seq(Seq(Byte))
  BY <1>1, <1>2, SenderNumbers
<1>4. /\ queue \in Seq(StackedMessages) /\ Len(queue) \in Nat /\ Len(queue) > 0
      /\ DOMAIN queue = 1 .. Len(queue) /\ Head(queue) = queue[1]
      /\ queue[1] \in StackedMessages
  BY <1>1, <1>2, LenProperties, EmptySeq, ElementOfSeq DEF SvTypes
<1>5. /\ queue' \in Seq(StackedMessages) /\ Len(queue') = Len(queue) - 1
      /\ \A i \in 1 .. Len(queue') : queue'[i] = queue[i + 1]
  BY <1>2, <1>4, HeadTailProperties
<1>6. DOMAIN queue' = 1 .. Len(queue) - 1
  BY <1>5, LenProperties
<1>7. m \in Messages /\ m \in Seq(Byte) /\ fits \in BOOLEAN
  BY <1>4, MessagesAssumption DEF StackedMessages
<1>8. /\ net' = net \o
           <<Fragment(outgoingSequence, unsentBuffer, unsentFragmentStart),
             IF fits THEN Whole(outgoingSequence + 1, m)
                     ELSE Fragment(outgoingSequence + 1, m, 0)>>
      /\ sent' = Append(sent, m)
      /\ unsentFragments' = IF fits THEN FALSE ELSE TRUE
      /\ outgoingSequence' = IF fits THEN (outgoingSequence + 1) + 1
                                     ELSE outgoingSequence + 1
      /\ unsentFragmentStart' = IF fits THEN 0 ELSE FragmentEnd(m, 0)
      /\ unsentBuffer' = IF fits THEN unsentBuffer ELSE m
      /\ disorder' = IF fits /\ Tail(queue) # <<>> THEN "stranded" ELSE disorder
  BY DEF PopQueue
<1>8a. outgoingSequence' = IF fits THEN outgoingSequence + 2
                                   ELSE outgoingSequence + 1
  BY <1>3, <1>8
<1>8b. /\ disorder' # "stranded" => disorder # "stranded" /\ disorder' = disorder
       /\ disorder' # "stranded" /\ queue' # <<>> => unsentFragments' = TRUE
  BY <1>2, <1>7, <1>8
<1>9. r \in FiledMessages /\ r.number = queue[1].number
      /\ r.gamestate = queue[1].gamestate
  BY <1>1, <1>4 DEF StackedMessages, FiledMessages, SvTypes
<1>10. /\ queue[1].number \in Nat /\ queue[1].number <= outgoingSequence
  BY <1>1, <1>4 DEF QueueOK, StackedMessages
<1>10a. fits <=> Len(m) < FRAGMENT_SIZE
  OBVIOUS
<1> HIDE DEF m, r, fits
<1>11. ChannelInv'
  <2>1. PICK f \in BOOLEAN : f = fits
    BY <1>7
  <2> QED BY <1>1, <1>2, <1>7, <1>8, <1>8a, <1>10a, <2>1, PopChannel
<1>12. sent' \in Seq(Seq(Byte)) /\ Len(sent') = Len(sent) + 1
  BY <1>3, <1>7, <1>8, AppendProperties
<1>13. filed' \in Seq(FiledMessages) /\ FiledOK'
  <2>1. disorder = "none" => gamestateMessageNum = outgoingSequence
    BY <1>1, <1>2 DEF QueueOK
  <2>2. disorder = "none" =>
          /\ r.gamestate => Len(sent) + 1 <= gamestateMessageNum' + 1
          /\ \/ gamestateMessageNum' = gamestateMessageNum
             \/ Len(sent) <= gamestateMessageNum' + 1
    BY <1>3, <2>1
  <2>3. r.number <= Len(sent) + 1 /\ r.number # Len(sent) + 1
    BY <1>3, <1>9, <1>10
  <2>4. gamestateMessageNum' \in Nat \cup {-1}
    BY <1>1 DEF SvTypes
  <2> QED BY <1>2, <1>8b, <1>9, <1>12, <2>2, <2>3, <2>4, OneMoreFiled
<1>14. SvTypes'
  BY <1>1, <1>5, <1>8, <1>13 DEF SvTypes
<1>15. QueueOK'
  <2>1. ASSUME NEW i \in DOMAIN queue'
        PROVE  queue'[i].gamestate /\ queue'[i].number <= outgoingSequence'
    <3>1. i \in 1 .. Len(queue') /\ i + 1 \in DOMAIN queue
      BY <1>4, <1>5, <1>6
    <3>2. queue'[i] = queue[i + 1] /\ queue[i + 1] \in StackedMessages
      BY <1>4, <1>5, <3>1, ElementOfSeq
    <3>3. /\ queue[i + 1].gamestate /\ queue[i + 1].number <= outgoingSequence
          /\ queue[i + 1].number \in Nat
      BY <1>1, <3>1, <3>2 DEF QueueOK, StackedMessages
    <3>4. outgoingSequence <= outgoingSequence' /\ outgoingSequence' \in Nat
      BY <1>3, <1>8a
    <3> QED BY <1>3, <3>2, <3>3, <3>4
  <2>2. disorder = "none" => queue' = <<>> /\ Len(queue') <= 1
    <3>1. disorder = "none" => Len(queue) <= 1
      BY <1>1 DEF QueueOK
    <3>2. disorder = "none" => Len(queue') = 0
      BY <1>4, <1>5, <3>1
    <3>3. PICK t \in Seq(StackedMessages) : t = queue'
      BY <1>5
    <3>4. disorder = "none" => t = <<>> /\ Len(t) <= 1
      BY <3>2, <3>3, EmptySeq
    <3> QED BY <3>3, <3>4
  <2> QED BY <1>8b, <2>1, <2>2 DEF QueueOK
<1>16. /\ Waiting = <<m>> \o Waiting' /\ Waiting' \in Seq(Seq(Byte))
  <2>1. Waiting = <<m>> \o Waiting'
    BY <1>2, <1>4, WaitingIs DEF m
  <2>2. Waiting' \in Seq(Seq(Byte))
    <3>1. ASSUME NEW i \in DOMAIN queue' PROVE queue'[i].msg \in Seq(Byte)
      <4>1. queue'[i] \in StackedMessages
        BY <1>5, <1>6, ElementOfSeq
      <4> QED BY <4>1, MessagesAssumption DEF StackedMessages
    <3>2. Waiting' = [i \in 1 .. Len(queue') |-> queue'[i].msg] /\ Len(queue') \in Nat
          /\ DOMAIN queue' = 1 .. Len(queue')
      BY <1>5, LenProperties DEF Waiting
    <3> QED BY <3>1, <3>2, IsASeq
  <2> QED BY <2>1, <2>2
<1>17. PICK w \in Seq(Seq(Byte)) : w = Waiting'
  BY <1>16
<1>18. <<m>> \in Seq(Seq(Byte)) /\ Append(sent, m) = sent \o <<m>>
  BY <1>3, <1>7, AppendIsConcat
<1>19. Counted'
  <2>1. ASSUME NEW x \in Messages
        PROVE  Copies(handed', x) = Copies(sent', x) + Copies(Waiting', x)
    <3>1. Copies(handed, x) = Copies(sent, x) + Copies(<<m>> \o w, x)
      BY <1>1, <1>16, <1>17 DEF Counted
    <3>2. /\ Copies(<<m>> \o w, x) = Copies(<<m>>, x) + Copies(w, x)
          /\ Copies(<<m>>, x) \in Nat /\ Copies(w, x) \in Nat
      BY <1>17, <1>18, CopiesConcat
    <3>3. /\ Copies(sent \o <<m>>, x) = Copies(sent, x) + Copies(<<m>>, x)
          /\ Copies(sent, x) \in Nat
      BY <1>3, <1>18, CopiesConcat
    <3> QED BY <1>8, <1>17, <1>18, <3>1, <3>2, <3>3
  <2> QED BY <2>1 DEF Counted, Copies
<1>20. disorder' # "stranded" => sent' \o Waiting' = handed'
  <2>1. PICK u \in Seq(Seq(Byte)) : u = <<m>>
    BY <1>18
  <2>2. sent \o (u \o w) = (sent \o u) \o w
    BY <1>3, ConcatAssociative
  <2> QED BY <1>1, <1>8, <1>8b, <1>16, <1>17, <1>18, <2>1, <2>2
<1> QED BY <1>11, <1>13, <1>14, <1>15, <1>19, <1>20 DEF SvInv

(* Every step of the server's side keeps the invariant.                    *)
LEMMA SvStep == SvInv /\ [SvNext]_<<vars, svVars>> => SvInv'
<1> SUFFICES ASSUME SvInv, [SvNext]_<<vars, svVars>> PROVE SvInv'
  OBVIOUS
<1>1. ASSUME SV_Netchan_TransmitNextFragment PROVE SvInv'
  BY <1>1, ContinueStep, PopStep DEF SV_Netchan_TransmitNextFragment, ContinueFragments
<1>2. ASSUME NEW m \in Messages, ~unsentFragments, SV_Netchan_Transmit(m, FALSE),
             UNCHANGED gamestateMessageNum
      PROVE  SvInv'
  <2>1. SV_Netchan_TransmitNow(m, FALSE)
    BY <1>2 DEF SV_Netchan_Transmit, SV_Netchan_Stack
  <2> QED BY <1>2, <2>1, TransmitNowStep DEF SV_Netchan_Transmit
<1>3. CASE SV_SendClientGameState
  <2>1. PICK m \in Messages : SV_Netchan_Transmit(m, TRUE)
    BY <1>3 DEF SV_SendClientGameState
  <2>2. gamestateMessageNum' = outgoingSequence
    BY <1>3 DEF SV_SendClientGameState, RecordedNumber
  <2>3. CASE SV_Netchan_TransmitNow(m, TRUE)
    BY <2>1, <2>2, <2>3, TransmitNowStep DEF SV_Netchan_Transmit
  <2>4. CASE SV_Netchan_Stack(m, TRUE)
    BY <2>1, <2>2, <2>4, StackStep DEF SV_Netchan_Transmit
  <2> QED BY <2>1, <2>3, <2>4 DEF SV_Netchan_Transmit
<1>4. CASE SV_ClientCommand
  <2>1. /\ UNCHANGED <<vars, queue, gamestateMessageNum, handed, filed, disorder>>
        /\ lastClientCommand' = lastClientCommand + 1
    BY <1>4 DEF SV_ClientCommand
  <2>2. SvTypes'
    BY <2>1 DEF SvInv, SvTypes
  <2>3. ChannelInv'
    BY <2>1, ChannelStep DEF SvInv
  <2> QED BY <2>1, <2>2, <2>3
          DEF SvInv, QueueOK, FiledOK, FiledAndKeyed, Counted, Copies, Waiting,
              vars, senderVars
<1>5. CASE Receive /\ UNCHANGED svVars
  <2>1. PICK i \in DOMAIN net : Netchan_Process(net[i])
    BY <1>5 DEF Receive
  <2>2. ChannelInv'
    BY <2>1, ReceiveChannel DEF SvInv
  <2>3. UNCHANGED <<outgoingSequence, unsentFragments, sent>>
    BY <2>1 DEF Netchan_Process, DiscardOld, KeepWaiting, AppendFragment,
                CompleteMessage, AcceptWhole, vars, senderVars
  <2> QED BY <1>5, <2>2, <2>3
          DEF SvInv, SvTypes, QueueOK, FiledOK, FiledAndKeyed, Counted, Copies,
              Waiting, svVars
<1>6. CASE UNCHANGED <<vars, svVars>>
  <2>1. ChannelInv'
    BY <1>6, ChannelStep DEF SvInv
  <2> QED BY <1>6, <2>1
          DEF SvInv, SvTypes, QueueOK, FiledOK, FiledAndKeyed, Counted, Copies,
              Waiting, vars, senderVars, svVars
<1>7. CASE SV_SendClientMessages
  BY <1>1, <1>2, <1>7 DEF SV_SendClientMessages
<1> QED BY <1>3, <1>4, <1>5, <1>6, <1>7 DEF SvNext

(* SvInv is an invariant of the server's side.                             *)
THEOREM SvInvariance == SvSpec => []SvInv
  BY SvInitInv, SvStep, PTL DEF SvSpec


(* The list loses and repeats no message, and keeps their order as long as *)
(* none is stacked on the last fragment of another and none that fits a    *)
(* packet leaves the list before others.                                   *)
THEOREM Ordered == SvSpec => []OrderKept
<1>1. SvInv => OrderKept
  <2> SUFFICES ASSUME SvInv, disorder = "stranded", NEW m \in Messages
               PROVE  Copies(handed, m) = Copies(sent \o Waiting, m)
    BY DEF OrderKept, SvInv
  <2>1. sent \in Seq(Seq(Byte)) /\ Waiting \in Seq(Seq(Byte))
    BY SenderNumbers, WaitingIs DEF SvInv, SvTypes
  <2>2. Copies(sent \o Waiting, m) = Copies(sent, m) + Copies(Waiting, m)
    BY <2>1, CopiesConcat
  <2>3. Copies(handed, m) = Copies(sent, m) + Copies(Waiting, m)
    BY DEF SvInv, Counted
  <2> QED BY <2>2, <2>3
<1> QED BY <1>1, SvInvariance, PTL

(* No message gets a lower number than it was filed under, and one that    *)
(* gets that number is scrambled with the command it acknowledges.         *)
THEOREM Keyed == SvSpec => []FiledAndKeyed
<1>1. SvInv => FiledAndKeyed
  BY DEF SvInv, FiledOK
<1> QED BY <1>1, SvInvariance, PTL

(* A client that acknowledges a message above the number the gamestate is  *)
(* filed under had been sent the gamestate, unless two messages wait: a    *)
(* gamestate goes out under its number or the next, and while one waits    *)
(* its number is that of the message being fragmented, which no client has *)
(* been able to acknowledge.                                               *)
THEOREM Dropped == SvSpec => []DroppedIfMissed
<1>1. SvInv => DroppedIfMissed
  <2> SUFFICES ASSUME SvInv, disorder = "none", NEW i \in DOMAIN delivered,
                      delivered[i].sequence > gamestateMessageNum
               PROVE  GamestateSentBy(delivered[i].sequence)
    BY DEF DroppedIfMissed
  <2>1. /\ delivered[i].sequence \in DOMAIN sent
        /\ delivered[i].sequence < outgoingSequence
    BY DEF SvInv, ChannelInv, DeliveredGenuine
  <2>2. /\ outgoingSequence \in Nat /\ Len(sent) \in Nat
        /\ DOMAIN sent = 1 .. Len(sent)
    BY SenderNumbers, LenProperties DEF SvInv
  <2>3. PICK s \in Nat : s = delivered[i].sequence
    BY <2>1, <2>2
  <2>4. gamestateMessageNum \in Int
    BY DEF SvInv, SvTypes
  <2>5. gamestateMessageNum # outgoingSequence /\ gamestateMessageNum + 1 <= s
    BY <2>1, <2>2, <2>3, <2>4
  <2>6. queue = <<>>
    BY <2>5 DEF SvInv, QueueOK
  <2>7. ASSUME NEW n \in DOMAIN filed, filed[n].gamestate PROVE n <= s
    <3>1. n <= gamestateMessageNum + 1
      BY <2>7 DEF SvInv, FiledOK
    <3>2. n \in Nat
      BY LenProperties DEF SvInv, SvTypes
    <3> QED BY <2>3, <2>4, <2>5, <3>1, <3>2
  <2> QED BY <2>3, <2>6, <2>7 DEF GamestateSentBy
<1> QED BY <1>1, SvInvariance, PTL

(* Every step of the server's side is one of the message channel, or none. *)
LEMMA SvStepRefines ==
  SvInv /\ [SvNext]_<<vars, svVars>> => [Channel!Next]_Channel!vars
<1> SUFFICES ASSUME SvInv, [SvNext]_<<vars, svVars>>
             PROVE  [Channel!Next]_Channel!vars
  OBVIOUS
<1>1. ASSUME NEW m \in Messages, Netchan_Transmit(m) PROVE Channel!Next
  <2>1. Channel!Send(m)
    BY <1>1 DEF Netchan_Transmit, Netchan_TransmitWhole,
                Netchan_TransmitFragmented, Channel!Send
  <2> QED BY <2>1 DEF Channel!Next
<1>2. ASSUME Netchan_TransmitNextFragment PROVE UNCHANGED Channel!vars
  BY <1>2 DEF Netchan_TransmitNextFragment, Channel!vars
<1>3. ASSUME PopQueue PROVE Channel!Next
  <2>1. queue # <<>> /\ sent' = Append(sent, Head(queue).msg) /\ UNCHANGED delivered
    BY <1>3 DEF PopQueue
  <2>2. Head(queue).msg \in Messages
    <3>1. Head(queue) \in StackedMessages
      BY <2>1, WaitingIs DEF SvInv, SvTypes
    <3> QED BY <3>1 DEF StackedMessages
  <2>3. Channel!Send(Head(queue).msg)
    BY <2>1 DEF Channel!Send
  <2> QED BY <2>2, <2>3 DEF Channel!Next
<1>4. ASSUME NEW m \in Messages, NEW g, SV_Netchan_Transmit(m, g)
      PROVE  [Channel!Next]_Channel!vars
  BY <1>1, <1>2, <1>4
     DEF SV_Netchan_Transmit, SV_Netchan_TransmitNow, SV_Netchan_Stack
<1>5. CASE SV_SendClientMessages
  BY <1>2, <1>3, <1>4, <1>5
     DEF SV_SendClientMessages, SV_Netchan_TransmitNextFragment, ContinueFragments
<1>6. CASE SV_SendClientGameState
  BY <1>4, <1>6 DEF SV_SendClientGameState
<1>7. CASE Receive
  BY <1>7, ReceiveRefines DEF Receive, SvInv
<1>8. CASE SV_ClientCommand \/ UNCHANGED <<vars, svVars>>
  BY <1>8 DEF SV_ClientCommand, vars, Channel!vars
<1> QED BY <1>5, <1>6, <1>7, <1>8 DEF SvNext

(* The server's side implements the message channel too, although messages *)
(* wait in its list: one is sent when it is given to the netchan.          *)
THEOREM SvRefinement == SvSpec => ImplementsChannel
<1>1. SvInit => Channel!Init
  BY DEF SvInit, Init, Channel!Init
<1> QED
  BY <1>1, SvStepRefines, SvInvariance, PTL
     DEF SvSpec, Channel!Spec, ImplementsChannel
=============================================================================
