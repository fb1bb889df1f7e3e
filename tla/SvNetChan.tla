----------------------------- MODULE SvNetChan -----------------------------
(***************************************************************************)
(* The server's side of the channel to one client                          *)
(* (code/server/sv_net_chan.cpp): messages that cannot be sent because an  *)
(* earlier one is still being fragmented wait in a list, and every message *)
(* is scrambled with the last client command when it is sent.              *)
(*                                                                         *)
(* The client's commands are all different, so a key is the number of the  *)
(* command it is made of.  Before a message is transmitted the server      *)
(* files its frame, and the number of a gamestate, under outgoingSequence, *)
(* which is not the number of a message that has to wait.  filed[n] holds  *)
(* of message n the number it was filed under, whether it is a gamestate,  *)
(* the command it acknowledges, which is what the client unscrambles it    *)
(* with, and the command it was scrambled with.                            *)
(***************************************************************************)
EXTENDS NetChan, Integers, FiniteSets

CONSTANT MaxCommands    \* bound: number of client commands executed

VARIABLES
    queue,               \* netchan_start_queue: the messages that wait
    lastClientCommand,   \* number of the last client command executed
    gamestateMessageNum, \* the number the last gamestate is filed under
    handed,              \* history: messages given to SV_Netchan_Transmit
    filed,               \* history: how each message sent was filed
    disorder             \* history: what became of the queue, see below

svVars == <<queue, lastClientCommand, gamestateMessageNum, handed, filed,
            disorder>>

SvInit == /\ Init
          /\ queue = <<>> /\ lastClientCommand = 0
          /\ gamestateMessageNum = -1
          /\ handed = <<>> /\ filed = <<>> /\ disorder = "none"

NumberToCome == outgoingSequence + 1   \* mutant: as if this one had been sent

RecordedNumber == outgoingSequence

Stacked(msg, gamestate) ==
    [msg |-> msg, gamestate |-> gamestate,
     acknowledges |-> lastClientCommand, number |-> RecordedNumber]

(* SV_Netchan_Encode, of a message about to be sent.                       *)
SV_Netchan_Encode(m) ==
    filed' = Append(filed,
        [number |-> m.number, gamestate |-> m.gamestate,
         acknowledges |-> m.acknowledges, scrambled |-> lastClientCommand])

-----------------------------------------------------------------------------
SV_Netchan_TransmitNow(msg, gamestate) ==
    /\ ~unsentFragments
    /\ SV_Netchan_Encode(Stacked(msg, gamestate))
    /\ Netchan_Transmit(msg)
    /\ UNCHANGED <<queue, disorder>>

DropInsteadOfStack(msg, gamestate) ==  \* mutant: the message is not stacked
    /\ unsentFragments
    /\ Netchan_TransmitNextFragment
    /\ UNCHANGED <<queue, filed, disorder>>

(* The pending message goes on, but not by SV_Netchan_TransmitNextFragment:*)
(* if that was its last fragment, the queue is stranded until another      *)
(* message is fragmented.                                                  *)
SV_Netchan_Stack(msg, gamestate) ==
    /\ unsentFragments
    /\ queue' = Append(queue, Stacked(msg, gamestate))
    /\ Netchan_TransmitNextFragment
    /\ disorder' = IF disorder = "stranded" \/ ~unsentFragments'
                     THEN "stranded"
                     ELSE IF queue # <<>> THEN "crowded" ELSE disorder
    /\ UNCHANGED filed

SV_Netchan_Transmit(msg, gamestate) ==
    /\ Len(handed) < MaxSends
    /\ handed' = Append(handed, msg)
    /\ \/ SV_Netchan_TransmitNow(msg, gamestate)
       \/ SV_Netchan_Stack(msg, gamestate)
    /\ UNCHANGED lastClientCommand

NeverLooksAtQueue ==        \* mutant: Netchan_TransmitNextFragment is called
    /\ Netchan_TransmitNextFragment
    /\ UNCHANGED <<queue, filed, disorder>>

ContinueFragments ==
    /\ Netchan_TransmitNextFragment
    /\ unsentFragments' \/ queue = <<>>
    /\ UNCHANGED <<queue, filed, disorder>>

(* The last fragment, and then the first packet of the message that has    *)
(* waited longest.  If that is all of the message, what waits behind it is *)
(* stranded likewise.                                                      *)
PopQueue ==
    /\ unsentFragments /\ IsLastFragment(unsentBuffer, unsentFragmentStart)
    /\ queue # <<>>
    /\ LET last == Fragment(outgoingSequence, unsentBuffer,
                            unsentFragmentStart)
           next == Head(queue).msg
           number == outgoingSequence + 1
           fits == Len(next) < FRAGMENT_SIZE
       IN /\ net' = net \o
               <<last, IF fits THEN Whole(number, next)
                               ELSE Fragment(number, next, 0)>>
          /\ sent' = Append(sent, next)
          /\ unsentFragments' = ~fits
          /\ outgoingSequence' = IF fits THEN number + 1 ELSE number
          /\ unsentFragmentStart' = IF fits THEN 0 ELSE FragmentEnd(next, 0)
          /\ unsentBuffer' = IF fits THEN unsentBuffer ELSE next
          /\ disorder' = IF fits /\ Tail(queue) # <<>> THEN "stranded"
                                                       ELSE disorder
    /\ SV_Netchan_Encode(Head(queue))
    /\ queue' = Tail(queue)
    /\ UNCHANGED <<receiverVars, delivered>>

SV_Netchan_TransmitNextFragment ==
    /\ ContinueFragments \/ PopQueue
    /\ UNCHANGED <<lastClientCommand, gamestateMessageNum, handed>>

-----------------------------------------------------------------------------
(* The callers.  SV_SendClientMessages goes on with the message being      *)
(* fragmented, or sends a snapshot; a client message can make the server   *)
(* send a gamestate at any time.                                           *)
SV_SendClientMessages ==
    \/ SV_Netchan_TransmitNextFragment
    \/ /\ ~unsentFragments
       /\ \E m \in Messages : SV_Netchan_Transmit(m, FALSE)
       /\ UNCHANGED gamestateMessageNum

SV_SendClientGameState ==
    /\ gamestateMessageNum' = RecordedNumber
    /\ \E m \in Messages : SV_Netchan_Transmit(m, TRUE)

SV_ClientCommand ==
    /\ lastClientCommand < MaxCommands
    /\ lastClientCommand' = lastClientCommand + 1
    /\ UNCHANGED <<vars, queue, gamestateMessageNum, handed, filed, disorder>>

SvNext ==
    \/ SV_SendClientMessages
    \/ SV_SendClientGameState
    \/ SV_ClientCommand
    \/ Receive /\ UNCHANGED svVars

SvSpec == SvInit /\ [][SvNext]_<<vars, svVars>>

-----------------------------------------------------------------------------
Waiting == [i \in DOMAIN queue |-> queue[i].msg]
Copies(seq, m) == Cardinality({i \in DOMAIN seq : seq[i] = m})

(* The list neither loses nor repeats a message: every message handed to   *)
(* SV_Netchan_Transmit has been given to the netchan or waits, once, and   *)
(* they are sent in the order they were handed over (sv_net_chan.cpp:171,  *)
(* "make sure they get sent in correct order"), until some are stranded:   *)
(* one is stacked on the last fragment of another, or one that fits a      *)
(* packet leaves the list before others.  Then later messages overtake     *)
(* what waits.                                                             *)
OrderKept ==
    IF disorder = "stranded"
      THEN \A m \in Messages : Copies(handed, m) = Copies(sent \o Waiting, m)
      ELSE sent \o Waiting = handed

(* No message gets a lower number than it was filed under, and one that    *)
(* gets that very number is scrambled with the command it acknowledges,    *)
(* which is what the client unscrambles it with.  A message that waited    *)
(* may be scrambled with a later one.                                      *)
FiledAndKeyed ==
    \A n \in DOMAIN filed :
        /\ filed[n].number <= n
        /\ filed[n].number = n => filed[n].acknowledges = filed[n].scrambled

GamestateSentBy(n) ==
    /\ \A i \in DOMAIN queue : ~queue[i].gamestate
    /\ \A i \in DOMAIN filed : filed[i].gamestate => i <= n

(* When a client acknowledges a message above gamestateMessageNum, and the *)
(* server concludes that it has dropped the gamestate                      *)
(* (sv_client.cpp:1396), the gamestate had been sent before that message.  *)
(* This holds although the gamestate was filed under the number of the     *)
(* message it waited for, as long as no two messages wait.                 *)
DroppedIfMissed ==
    (disorder = "none" /\ gamestateMessageNum # -1) =>
        \A i \in DOMAIN delivered :
            delivered[i].sequence > gamestateMessageNum
                => GamestateSentBy(delivered[i].sequence)
=============================================================================
