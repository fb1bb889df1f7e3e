--------------------------- MODULE ClientCommands ---------------------------
(***************************************************************************)
(* Reliable commands from the client to the server.  The client keeps the  *)
(* unacknowledged ones in a ring and repeats all of them in every packet   *)
(* (CL_AddReliableCommand, CL_WritePacket); the server executes each once, *)
(* in order (SV_ClientCommand), before the usercmds of the packet, and     *)
(* acknowledges the last one in every message.                             *)
(*                                                                         *)
(* The two channels are netchans: they may lose messages, but keep order   *)
(* (see MessageChannel).  A command's text is the number it was added      *)
(* under, so a ring slot tells which command it holds.                     *)
(***************************************************************************)
EXTENDS Naturals, Sequences, FiniteSets, SequencesExt

CONSTANTS
    MAX_RELIABLE_COMMANDS,   \* slots of the ring
    GameCommands,            \* commands meant for the game module
    FloodProtect,            \* sv_floodProtect, on a dedicated server
    MaxCommands,             \* bound: number of commands added
    MaxInFlight              \* bound: messages in flight in a direction

ASSUME RingAssumption == MAX_RELIABLE_COMMANDS \in Nat \ {0}
ASSUME GameAssumption == GameCommands \subseteq Nat
ASSUME FloodAssumption == FloodProtect \in BOOLEAN

VARIABLES
    reliableSequence,     \* client: number of the last command added
    reliableAcknowledge,  \* client: last one the server is known to have
    reliableCommands,     \* client: the ring
    clientState,          \* client: connected, disconnected, or aborted
    lastClientCommand,    \* server: number of the last command executed
    dropped,              \* server: why the client was dropped, if it was
    toServer,             \* packets on their way to the server
    toClient,             \* acknowledgements on their way to the client
    executed,             \* history: texts, in the order SV_ClientCommand
                          \* took them, and whether they were carried out
    moved,                \* history: commands added before the newest usercmd
                          \* the server has run
    overran,              \* history: a slot was overwritten too early
    quitCommand           \* history: number of the disconnect command, or 0

clientVars == <<reliableSequence, reliableAcknowledge, reliableCommands,
                clientState>>
serverVars == <<lastClientCommand, dropped>>
history == <<executed, moved, overran, quitCommand>>
vars == <<clientVars, serverVars, toServer, toClient, history>>

Slot(n) == n % MAX_RELIABLE_COMMANDS

Init ==
    /\ reliableSequence = 0 /\ reliableAcknowledge = 0
    /\ reliableCommands = [i \in 0 .. MAX_RELIABLE_COMMANDS - 1 |-> 0]
    /\ clientState = "connected"
    /\ lastClientCommand = 0 /\ dropped = "no"
    /\ toServer = <<>> /\ toClient = <<>>
    /\ executed = <<>> /\ moved = 0 /\ overran = FALSE /\ quitCommand = 0

-----------------------------------------------------------------------------
(* The client.                                                             *)

RingOverflows == reliableSequence > reliableAcknowledge + MAX_RELIABLE_COMMANDS

AddInLastSlot ==            \* mutant: the slot of the command before
    /\ ~RingOverflows
    /\ reliableSequence' = reliableSequence + 1
    /\ reliableCommands' =
         [reliableCommands EXCEPT ![Slot(reliableSequence)] = reliableSequence']
    /\ UNCHANGED <<overran, reliableAcknowledge>>

AddReliableCommand ==
    /\ ~RingOverflows
    /\ reliableSequence' = reliableSequence + 1
    /\ reliableCommands' =
         [reliableCommands EXCEPT ![Slot(reliableSequence')] =
             reliableSequence']
    /\ overran' = \/ overran
                  \/ reliableSequence' >
                       reliableAcknowledge + MAX_RELIABLE_COMMANDS
    /\ UNCHANGED reliableAcknowledge

CL_AddReliableCommand ==
    /\ clientState = "connected" /\ reliableSequence < MaxCommands
    /\ AddReliableCommand
    /\ UNCHANGED <<clientState, serverVars, toServer, toClient, executed,
                   moved, quitCommand>>

(* Mutant of PacketOf: the usercmds are those of the packet before.         *)
PacketOfOldUsercmds(acknowledge, sequence, ring) ==
    [commands |-> [i \in 1 .. sequence - acknowledge |->
                     [number |-> acknowledge + i,
                      text |-> ring[Slot(acknowledge + i)]]],
     usercmd |-> sequence - 1]

(* The packet that repeats the commands after acknowledge, up to the last  *)
(* in the ring; its usercmds were generated after all of them.             *)
PacketOf(acknowledge, sequence, ring) ==
    [commands |-> [i \in 1 .. sequence - acknowledge |->
                     [number |-> acknowledge + i,
                      text |-> ring[Slot(acknowledge + i)]]],
     usercmd |-> sequence]

CL_WritePacket ==
    /\ clientState = "connected" /\ Len(toServer) < MaxInFlight
    /\ toServer' = Append(toServer,
         PacketOf(reliableAcknowledge, reliableSequence, reliableCommands))
    /\ UNCHANGED <<clientVars, serverVars, toClient, history>>

(* Leaving: one more command, in three packets.                            *)
CL_Disconnect ==
    /\ clientState = "connected"
    /\ AddReliableCommand
    /\ LET p == PacketOf(reliableAcknowledge, reliableSequence',
                         reliableCommands')
       IN toServer' = toServer \o <<p, p, p>>
    /\ clientState' = "disconnected"
    /\ quitCommand' = reliableSequence'
    /\ UNCHANGED <<serverVars, toClient, executed, moved>>

(* CL_AddReliableCommand with a full ring, on its own or in CL_Disconnect, *)
(* calls Com_Error( ERR_DROP ); that calls CL_Disconnect, which adds a     *)
(* command to the same full ring: Com_Error is entered a second time and   *)
(* ends the program.                                                       *)
CommandOverflow ==
    /\ clientState = "connected" /\ RingOverflows
    /\ clientState' = "aborted"
    /\ UNCHANGED <<reliableSequence, reliableAcknowledge, reliableCommands,
                   serverVars, toServer, toClient, history>>

(* CL_ParseServerMessage: an acknowledgement that has fallen out of the    *)
(* ring is taken for an acknowledgement of everything.                     *)
CL_ParseServerMessage ==
    /\ clientState = "connected" /\ toClient # <<>>
    /\ reliableAcknowledge' =
         IF Head(toClient) + MAX_RELIABLE_COMMANDS < reliableSequence
           THEN reliableSequence
           ELSE Head(toClient)
    /\ toClient' = Tail(toClient)
    /\ UNCHANGED <<reliableSequence, reliableCommands, clientState,
                   serverVars, toServer, history>>

-----------------------------------------------------------------------------
(* The server.                                                             *)

FreshOrNot(p) == p.commands \* mutant: repeated commands are executed again

(* How many of the commands of packet p, which come in the order of their  *)
(* numbers, have been executed already.                                    *)
Repeated(p) ==
    CHOOSE k \in 0 .. Len(p.commands) :
        \A i \in DOMAIN p.commands :
            p.commands[i].number <= lastClientCommand <=> i <= k

(* The commands of packet p that have not been executed yet.               *)
Fresh(p) == SubSeq(p.commands, Repeated(p) + 1, Len(p.commands))

HasGapOrNext(p) ==          \* mutant: off by one
    Fresh(p) # <<>> /\ Head(Fresh(p)).number >= lastClientCommand + 1

HasGap(p) ==
    Fresh(p) # <<>> /\ Head(Fresh(p)).number > lastClientCommand + 1

(* Mutant of CarriedOut: flood protection whatever sv_floodProtect says.    *)
CarriedOutIfQuiet(text, i, quiet) ==
    text \notin GameCommands \/ (quiet /\ i = 1)

(* SV_ClientCommand, of the i-th fresh command, for a client in the world: *)
(* a game command is only passed on if no command has moved                *)
(* nextReliableTime in the last second; a packet is read in one go, so     *)
(* only its first command can find that.                                   *)
CarriedOut(text, i, quiet) ==
    \/ text \notin GameCommands
    \/ ~FloodProtect
    \/ quiet /\ i = 1

(* The commands of the oldest packet and then its usercmds; quiet says     *)
(* that nextReliableTime has passed.                                       *)
ExecuteClientMessage(quiet) ==
    LET p == Head(toServer)
        fresh == Fresh(p)
    IN
    /\ ~HasGap(p)
    /\ lastClientCommand' = lastClientCommand + Len(fresh)
    /\ executed' = executed \o
         [i \in DOMAIN fresh |->
            [text |-> fresh[i].text,
             done |-> CarriedOut(fresh[i].text, i, quiet)]]
    /\ IF \E i \in DOMAIN fresh : fresh[i].number = quitCommand
         THEN dropped' = "disconnected" /\ UNCHANGED moved
         ELSE moved' = p.usercmd /\ UNCHANGED dropped
    /\ UNCHANGED <<overran, quitCommand>>

(* The server's answer to a gap: "Lost reliable commands".                 *)
LostReliableCommands ==
    /\ HasGap(Head(toServer))
    /\ dropped' = "lost commands"
    /\ UNCHANGED <<lastClientCommand, history>>

(* A packet that SV_ExecuteClientMessage ignores for its serverId is, for  *)
(* the commands in it, a lost packet.                                      *)
SV_ExecuteClientMessage ==
    /\ dropped = "no" /\ toServer # <<>>
    /\ \/ \E quiet \in BOOLEAN : ExecuteClientMessage(quiet)
       \/ LostReliableCommands
    /\ toServer' = Tail(toServer)
    /\ UNCHANGED <<clientVars, toClient>>

(* Every message to the client starts with lastClientCommand.              *)
SV_SendMessageToClient ==
    /\ Len(toClient) < MaxInFlight
    /\ toClient' = Append(toClient, lastClientCommand)
    /\ UNCHANGED <<clientVars, serverVars, toServer, history>>

-----------------------------------------------------------------------------
Lose ==
    \/ /\ \E i \in DOMAIN toServer : toServer' = RemoveAt(toServer, i)
       /\ UNCHANGED toClient
    \/ /\ \E i \in DOMAIN toClient : toClient' = RemoveAt(toClient, i)
       /\ UNCHANGED toServer

Next ==
    \/ CL_AddReliableCommand
    \/ CL_Disconnect
    \/ CommandOverflow
    \/ CL_WritePacket
    \/ CL_ParseServerMessage
    \/ SV_ExecuteClientMessage
    \/ SV_SendMessageToClient
    \/ Lose /\ UNCHANGED <<clientVars, serverVars, history>>

Spec == Init /\ [][Next]_vars

(* Both programs run their frames for ever, and a channel that is used for *)
(* ever does not lose everything.                                          *)
Fairness ==
    /\ WF_vars(CL_WritePacket) /\ WF_vars(SV_SendMessageToClient)
    /\ SF_vars(SV_ExecuteClientMessage) /\ SF_vars(CL_ParseServerMessage)

FairSpec == Spec /\ Fairness

-----------------------------------------------------------------------------
Packets == [commands : Seq([number : Nat, text : Nat]), usercmd : Nat]

(* The types of the state of both ends and of the packets between them.    *)
TypeOK ==
    /\ reliableSequence \in Nat /\ reliableAcknowledge \in Nat
    /\ reliableCommands \in [0 .. MAX_RELIABLE_COMMANDS - 1 -> Nat]
    /\ clientState \in {"connected", "disconnected", "aborted"}
    /\ lastClientCommand \in Nat
    /\ dropped \in {"no", "disconnected", "lost commands"}
    /\ toServer \in Seq(Packets) /\ toClient \in Seq(Nat)
    /\ executed \in Seq([text : Nat, done : BOOLEAN])
    /\ moved \in Nat /\ overran \in BOOLEAN /\ quitCommand \in Nat

(* The two ends agree on what is outstanding: the server is never behind   *)
(* what the client believes it has, nor ahead of what the client added.    *)
(* In particular the server never finds that commands were lost.           *)
AcknowledgesAgree ==
    ~overran => /\ reliableAcknowledge <= lastClientCommand
                /\ lastClientCommand <= reliableSequence
                /\ dropped # "lost commands"

(* No usercmd runs before the commands that were added before it           *)
(* (cl_main.cpp:86, "guaranteed to not have future usercmd_t executed      *)
(* before it is executed").                                                *)
CommandsBeforeUsercmds ==
    ~overran => \A n \in 1 .. moved :
                    \E i \in DOMAIN executed :
                        executed[i].text = n /\ executed[i].done

(* The server scrambles a message with the command it acknowledges, and    *)
(* the client unscrambles it with what it finds in that command's slot.    *)
UnscrambledAsScrambled ==
    reliableCommands[Slot(Head(toClient))] = Head(toClient)

(* While the client has fewer unacknowledged commands than slots, the next *)
(* message of the server unscrambles: the slot of the last acknowledged    *)
(* command has not been reused.                                            *)
UnscramblesBelowLimit ==
    (/\ ~overran /\ toClient # <<>>
     /\ reliableSequence < reliableAcknowledge + MAX_RELIABLE_COMMANDS)
        => UnscrambledAsScrambled

(* Every command added is executed in the end, or the connection ends.     *)
EventuallyExecuted ==
    \A n \in 1 .. MaxCommands :
        reliableSequence >= n ~>
            lastClientCommand >= n \/ clientState # "connected" \/ overran

(* The ring, the repeated packets and the acknowledgements implement a     *)
(* stream of reliable commands: what the server takes is what the client   *)
(* added, step by step, until the ring has been overrun.                   *)
Reliable == INSTANCE ReliableCommands
                WITH added <- reliableSequence,
                     taken <- [i \in DOMAIN executed |-> executed[i].text],
                     kept <- ~overran

ImplementsReliableCommands == Reliable!Spec
=============================================================================
