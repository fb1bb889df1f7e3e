------------------------------ MODULE NetChan ------------------------------
(***************************************************************************)
(* One direction of a netchan (code/qcommon/net_chan.cpp): the outgoing    *)
(* half of the sender's netchan_t, the incoming half of the receiver's,    *)
(* and a network that may lose, duplicate and reorder packets.             *)
(*                                                                         *)
(* unsentLength and fragmentLength are the lengths of unsentBuffer and     *)
(* fragmentBuffer.  The qport, the addresses and the packet traces are     *)
(* left out: a packet here has already been matched to its channel.        *)
(***************************************************************************)
EXTENDS Naturals, Sequences

CONSTANTS
    Byte,            \* the contents messages are made of
    Messages,        \* the messages the layer above can send
    FRAGMENT_SIZE,   \* payload bytes of a full fragment
    MAX_MSGLEN,      \* longest message, and the size of fragmentBuffer
    MaxSends         \* bound: number of messages sent on the channel

ASSUME FragmentSizeAssumption == FRAGMENT_SIZE \in Nat \ {0}
ASSUME MsgLenAssumption == MAX_MSGLEN \in Nat
ASSUME MessagesAssumption ==
    \A m \in Messages : m \in Seq(Byte) /\ Len(m) <= MAX_MSGLEN

VARIABLES
    outgoingSequence,      \* sender: number of the next message
    unsentFragments,       \* sender: a fragmented message is half sent
    unsentFragmentStart,   \* sender: bytes of it sent so far
    unsentBuffer,          \* sender: the message being fragmented
    incomingSequence,      \* receiver: number of the last message accepted
    fragmentSequence,      \* receiver: message being put together
    fragmentBuffer,        \* receiver: its bytes so far
    net,                   \* every packet sent, in the order of sending
    sent,                  \* history: messages given to Netchan_Transmit
    delivered              \* history: messages Netchan_Process returned

senderVars == <<outgoingSequence, unsentFragments, unsentFragmentStart,
                unsentBuffer>>
receiverVars == <<incomingSequence, fragmentSequence, fragmentBuffer>>
vars == <<senderVars, receiverVars, net, sent, delivered>>

Packet == [sequence : Nat, fragmented : BOOLEAN, start : Nat,
           data : Seq(Byte)]

(* Netchan_Setup, at both ends of the connection.                          *)
Netchan_Setup ==
    /\ outgoingSequence = 1
    /\ unsentFragments = FALSE
    /\ unsentFragmentStart = 0
    /\ unsentBuffer = <<>>
    /\ incomingSequence = 0
    /\ fragmentSequence = 0
    /\ fragmentBuffer = <<>>

Init == Netchan_Setup /\ net = <<>> /\ sent = <<>> /\ delivered = <<>>

-----------------------------------------------------------------------------
(* The sender.                                                             *)

FragmentEnd(msg, start) ==
    IF start + FRAGMENT_SIZE > Len(msg) THEN Len(msg)
                                        ELSE start + FRAGMENT_SIZE

(* A fragment is the last one when it ends the message and is not full: a  *)
(* message of k * FRAGMENT_SIZE bytes ends with an empty fragment.         *)
IsLastFragment(msg, start) ==
    /\ FragmentEnd(msg, start) = Len(msg)
    /\ FragmentEnd(msg, start) - start # FRAGMENT_SIZE

(* Mutants of Fragment: an offset off by one, a slice from the beginning.   *)
FragmentStartsBefore(sequence, msg, start) ==
    [sequence |-> sequence, fragmented |-> TRUE, start |-> start - 1,
     data |-> SubSeq(msg, start + 1, FragmentEnd(msg, start))]
FragmentFromBeginning(sequence, msg, start) ==
    [sequence |-> sequence, fragmented |-> TRUE, start |-> start,
     data |-> SubSeq(msg, 1, FragmentEnd(msg, start))]

Fragment(sequence, msg, start) ==
    [sequence |-> sequence, fragmented |-> TRUE, start |-> start,
     data |-> SubSeq(msg, start + 1, FragmentEnd(msg, start))]

Whole(sequence, msg) ==
    [sequence |-> sequence, fragmented |-> FALSE, start |-> 0, data |-> msg]

SendFragment(msg, start) ==
    /\ net' = Append(net, Fragment(outgoingSequence, msg, start))
    /\ unsentFragmentStart' = FragmentEnd(msg, start)
    /\ IF IsLastFragment(msg, start)
         THEN /\ outgoingSequence' = outgoingSequence + 1
              /\ unsentFragments' = FALSE
         ELSE /\ unsentFragments' = TRUE
              /\ UNCHANGED outgoingSequence

(* Every caller goes on with the pending message first.                    *)
Netchan_TransmitNextFragment ==
    /\ unsentFragments
    /\ SendFragment(unsentBuffer, unsentFragmentStart)
    /\ UNCHANGED <<unsentBuffer, receiverVars, sent, delivered>>

Netchan_TransmitWhole(msg) ==
    /\ Len(msg) < FRAGMENT_SIZE
    /\ net' = Append(net, Whole(outgoingSequence, msg))
    /\ outgoingSequence' = outgoingSequence + 1
    /\ unsentFragmentStart' = 0
    /\ sent' = Append(sent, msg)
    /\ UNCHANGED <<unsentFragments, unsentBuffer, receiverVars, delivered>>

Netchan_TransmitFragmented(msg) ==
    /\ Len(msg) >= FRAGMENT_SIZE
    /\ unsentBuffer' = msg
    /\ SendFragment(msg, 0)
    /\ sent' = Append(sent, msg)
    /\ UNCHANGED <<receiverVars, delivered>>

Netchan_Transmit(msg) ==
    \/ Netchan_TransmitWhole(msg)
    \/ Netchan_TransmitFragmented(msg)

-----------------------------------------------------------------------------
(* The receiver: Netchan_Process on one packet, a disjunct for each way    *)
(* through it.                                                             *)

DiscardOld(p) ==
    /\ p.sequence <= incomingSequence
    /\ UNCHANGED vars

CollectedBefore(p) == fragmentBuffer   \* mutant: no reset for a new message

Collected(p) == IF p.sequence = fragmentSequence THEN fragmentBuffer ELSE <<>>

FragmentFitsAnywhere(p) ==             \* mutant: no check of the offset
    Len(Collected(p)) + Len(p.data) <= MAX_MSGLEN

FragmentFits(p) ==
    /\ p.start = Len(Collected(p))
    /\ Len(Collected(p)) + Len(p.data) <= MAX_MSGLEN

KeepWaiting(p) ==
    /\ p.fragmented /\ p.sequence > incomingSequence
    /\ ~FragmentFits(p)
    /\ fragmentSequence' = p.sequence
    /\ fragmentBuffer' = Collected(p)
    /\ UNCHANGED <<senderVars, incomingSequence, net, sent, delivered>>

AppendFragment(p) ==
    /\ p.fragmented /\ p.sequence > incomingSequence
    /\ FragmentFits(p)
    /\ Len(p.data) = FRAGMENT_SIZE
    /\ fragmentSequence' = p.sequence
    /\ fragmentBuffer' = Collected(p) \o p.data
    /\ UNCHANGED <<senderVars, incomingSequence, net, sent, delivered>>

HandUpAgain(sequence, data) ==         \* mutant: the number is not kept
    /\ UNCHANGED incomingSequence
    /\ delivered' = Append(delivered, [sequence |-> sequence, data |-> data])

HandUp(sequence, data) ==
    /\ incomingSequence' = sequence
    /\ delivered' = Append(delivered, [sequence |-> sequence, data |-> data])

CompleteMessage(p) ==
    /\ p.fragmented /\ p.sequence > incomingSequence
    /\ FragmentFits(p)
    /\ Len(p.data) # FRAGMENT_SIZE
    /\ fragmentSequence' = p.sequence
    /\ fragmentBuffer' = <<>>
    /\ HandUp(p.sequence, Collected(p) \o p.data)
    /\ UNCHANGED <<senderVars, net, sent>>

AcceptWhole(p) ==
    /\ ~p.fragmented /\ p.sequence > incomingSequence
    /\ HandUp(p.sequence, p.data)
    /\ UNCHANGED <<senderVars, fragmentSequence, fragmentBuffer, net, sent>>

Netchan_Process(p) ==
    \/ DiscardOld(p)
    \/ KeepWaiting(p)
    \/ AppendFragment(p)
    \/ CompleteMessage(p)
    \/ AcceptWhole(p)

-----------------------------------------------------------------------------
Send == /\ ~unsentFragments
        /\ Len(sent) < MaxSends
        /\ \E m \in Messages : Netchan_Transmit(m)

(* Any packet ever sent may arrive now, again, or never.                   *)
Receive == \E i \in DOMAIN net : Netchan_Process(net[i])

Next == Send \/ Netchan_TransmitNextFragment \/ Receive

Spec == Init /\ [][Next]_vars

-----------------------------------------------------------------------------
(* The types of the channel's state.                                       *)
TypeOK ==
    /\ outgoingSequence \in Nat
    /\ unsentFragments \in BOOLEAN
    /\ unsentFragmentStart \in Nat
    /\ unsentBuffer \in Seq(Byte)
    /\ incomingSequence \in Nat
    /\ fragmentSequence \in Nat
    /\ fragmentBuffer \in Seq(Byte)
    /\ net \in Seq(Packet)
    /\ sent \in Seq(Seq(Byte))
    /\ delivered \in Seq([sequence : Nat, data : Seq(Byte)])

(* A message handed up is, byte for byte, the one sent under its number:   *)
(* no loss, repetition or mixture of fragments ever forges one.            *)
DeliveredIntact ==
    \A i \in DOMAIN delivered :
        /\ delivered[i].sequence \in DOMAIN sent
        /\ delivered[i].data = sent[delivered[i].sequence]

(* Messages are handed up in the order they were sent and never twice.     *)
DeliveredInOrder ==
    \A i, j \in DOMAIN delivered :
        i < j => delivered[i].sequence < delivered[j].sequence

(* A message is handed up only once its sender has sent all of it: the     *)
(* message the sender is still fragmenting is never complete at the other  *)
(* end, not even when its bytes have all left.                             *)
NeverAheadOfSender ==
    \A i \in DOMAIN delivered : delivered[i].sequence < outgoingSequence

(* The bytes collected for an unfinished message are a prefix of it, in    *)
(* whole fragments.                                                        *)
CollectedIsPrefix ==
    fragmentBuffer # <<>> =>
        /\ fragmentSequence \in DOMAIN sent
        /\ Len(fragmentBuffer) <= Len(sent[fragmentSequence])
        /\ fragmentBuffer =
             SubSeq(sent[fragmentSequence], 1, Len(fragmentBuffer))

(* Every packet of the network carries bytes sent under its number: a      *)
(* whole message, or the slice its offset says, and only the end of a      *)
(* message may be shorter than a full fragment.                            *)
Genuine(p) ==
    /\ p.sequence \in DOMAIN sent
    /\ LET msg == sent[p.sequence] IN
       IF p.fragmented
         THEN /\ p.start + Len(p.data) <= Len(msg)
              /\ p.data = SubSeq(msg, p.start + 1, p.start + Len(p.data))
              /\ Len(p.data) # FRAGMENT_SIZE =>
                    /\ p.start + Len(p.data) = Len(msg)
                    /\ p.sequence < outgoingSequence
         ELSE p.data = msg /\ p.sequence < outgoingSequence

PacketsGenuine == \A i \in DOMAIN net : Genuine(net[i])

(* The sender numbers messages in the order it was given them, and works   *)
(* on the last of them only.                                               *)
SenderPosition ==
    IF unsentFragments
      THEN /\ outgoingSequence = Len(sent)
           /\ Len(sent) > 0
           /\ unsentBuffer = sent[Len(sent)]
           /\ unsentFragmentStart <= Len(unsentBuffer)
      ELSE outgoingSequence = Len(sent) + 1

(* The bounds check of Netchan_Process never rejects a fragment this       *)
(* sender produced.                                                        *)
NeverOverflows ==
    \A i \in DOMAIN net :
        LET p == net[i] IN
        (p.fragmented /\ p.sequence > incomingSequence
                      /\ p.start = Len(Collected(p)))
            => Len(Collected(p)) + Len(p.data) <= MAX_MSGLEN

(* The netchan implements the channel its users rely on.                   *)
Channel == INSTANCE MessageChannel
ImplementsChannel == Channel!Spec
=============================================================================
