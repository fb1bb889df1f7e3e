--------------------------- MODULE ServerCommands ---------------------------
(***************************************************************************)
(* Reliable commands from the server to one client, and the gamestates and *)
(* snapshots that travel with them.  The server keeps the unacknowledged   *)
(* commands in a ring and repeats them in every message                    *)
(* (SV_AddServerCommand, SV_UpdateServerCommandsToClient); the client      *)
(* keeps the received ones in a ring until the cgame, which runs all the   *)
(* commands a snapshot follows before the snapshot, asks for them.         *)
(*                                                                         *)
(* One configstring stands for all of them.  Its values are numbered, and  *)
(* long ones are sent in chunks, a command each.  The commands that set it *)
(* carry the number of the value and of the chunk ("cs" the only one,      *)
(* "bcs0" the first, "bcs2" the last, "bcs1" any other), and other         *)
(* commands carry 0; "number" is the number a command was added under.     *)
(* The channels are netchans: they lose messages, and keep order.          *)
(***************************************************************************)
EXTENDS Naturals, Sequences, SequencesExt

CONSTANTS
    MAX_RELIABLE_COMMANDS,   \* slots of the ring, at both ends
    LongValues,              \* values of the configstring sent in chunks
    MaxChunks,               \* how many chunks a long value has
    MaxCommands,             \* bound: number of commands added
    MaxValues,               \* bound: number of configstring values
    MaxMaps,                 \* bound: number of maps loaded
    MaxToClient,             \* bound: messages in flight to the client
    MaxToServer              \* bound: messages in flight to the server

ASSUME RingAssumption == MAX_RELIABLE_COMMANDS \in Nat \ {0}
ASSUME ChunksAssumption == LongValues \subseteq Nat /\ MaxChunks \in Nat \ {0, 1}

VARIABLES
    state,                 \* server: client_t.state
    reliableSequence,      \* server: number of the last command added
    reliableAcknowledge,   \* server: last one the client is known to have
    reliableCommands,      \* server: the ring
    configstring,          \* server: sv.configstrings
    serverId,              \* server: the map being played
    toClient,              \* messages on their way to the client
    toServer,              \* messages on their way to the server
    clc,                   \* client: clientConnection_t
    cl,                    \* client: clientActive_t, wiped by a gamestate
    cgame,                 \* client: what the cgame has run
    bigConfigString,       \* client: the chunks put together so far
    clientError            \* client: Com_Error( ERR_DROP ) has been called

serverVars == <<state, reliableSequence, reliableAcknowledge,
                reliableCommands, configstring, serverId>>
clientVars == <<clc, cl, cgame, bigConfigString, clientError>>
vars == <<serverVars, toClient, toServer, clientVars>>

Slots == 0 .. MAX_RELIABLE_COMMANDS - 1
Slot(n) == n % MAX_RELIABLE_COMMANDS

(* What a command is about, and the command with its number.               *)
Other == [configstring |-> 0, chunk |-> 0]
Command(n, text) == [number |-> n, configstring |-> text.configstring,
                     chunk |-> text.chunk]
NoCommand == Command(0, Other)
NoSnapshot == [valid |-> FALSE, serverCommandNum |-> 0, after |-> 0,
               configstring |-> 0, active |-> FALSE]

(* What Com_Memset leaves of clientActive_t.                               *)
CL_ClearState == [serverId |-> 0, configstring |-> 0, snap |-> NoSnapshot]

Init ==
    /\ state = "CONNECTED"
    /\ reliableSequence = 0 /\ reliableAcknowledge = 0
    /\ reliableCommands = [i \in Slots |-> NoCommand]
    /\ configstring = 1 /\ serverId = 1
    /\ toClient = <<>> /\ toServer = <<>>
    /\ clc = [serverCommandSequence |-> 0,
              serverCommands |-> [i \in Slots |-> NoCommand],
              serverCommandsBad |-> [i \in Slots |-> FALSE],
              lastExecutedServerCommand |-> 0]
    /\ cl = CL_ClearState
    /\ cgame = [running |-> FALSE, serverCommandSequence |-> 0,
                snap |-> NoSnapshot]
    /\ bigConfigString = Other
    /\ clientError = FALSE

-----------------------------------------------------------------------------
(* The server.                                                             *)

(* The ring when texts have been added to it after command number last; a  *)
(* slot keeps the last of the commands that came to it.                    *)
Put(ring, last, texts) ==
    [s \in Slots |->
       LET here == {i \in DOMAIN texts : Slot(last + i) = s}
       IN IF here = {} THEN ring[s]
          ELSE Command(last + Max(here), texts[Max(here)])]

(* SV_DropClient tells everybody, this client included if it has a         *)
(* gamestate, and then adds the disconnect command.                        *)
SV_DropClient == IF state = "CONNECTED" THEN <<Other>> ELSE <<Other, Other>>

Room == reliableAcknowledge + MAX_RELIABLE_COMMANDS - reliableSequence

(* SV_AddServerCommand, for one command after the other.  The one that     *)
(* finds the ring full keeps its number but no slot, and the client is     *)
(* dropped before those that follow it are added.                          *)
SV_AddServerCommand(texts) ==
    IF Len(texts) <= Room
      THEN /\ reliableSequence' = reliableSequence + Len(texts)
           /\ reliableCommands' = Put(reliableCommands, reliableSequence, texts)
           /\ UNCHANGED state
      ELSE LET full  == reliableSequence + Room
               fit   == SubSeq(texts, 1, Room)
               after == SV_DropClient \o SubSeq(texts, Room + 2, Len(texts))
           IN /\ reliableSequence' = full + 1 + Len(after)
              /\ reliableCommands' =
                    Put(Put(reliableCommands, reliableSequence, fit), full + 1, after)
              /\ state' = "ZOMBIE"

SV_SendServerCommand ==
    /\ state # "ZOMBIE" /\ reliableSequence < MaxCommands
    /\ SV_AddServerCommand(<<Other>>)
    /\ UNCHANGED <<reliableAcknowledge, configstring, serverId, toClient,
                   toServer, clientVars>>

(* The commands that set the configstring to value.                        *)
Chunks(value) ==
    [i \in 1 .. (IF value \in LongValues THEN MaxChunks ELSE 1) |->
       [configstring |-> value, chunk |-> i]]

ToldOfChanges == state \in {"PRIMED", "ACTIVE"}

SV_SetConfigstring ==
    /\ reliableSequence < MaxCommands /\ configstring < MaxValues
    /\ state # "ZOMBIE"
    /\ configstring' = configstring + 1
    /\ IF ToldOfChanges
         THEN SV_AddServerCommand(Chunks(configstring'))
         ELSE UNCHANGED <<state, reliableSequence, reliableCommands>>
    /\ UNCHANGED <<reliableAcknowledge, serverId, toClient, toServer,
                   clientVars>>

(* A new map: new configstrings, of which no client is told.               *)
SV_SpawnServer ==
    /\ serverId < MaxMaps /\ configstring < MaxValues
    /\ state # "ZOMBIE"
    /\ serverId' = serverId + 1
    /\ configstring' = configstring + 1
    /\ state' = "CONNECTED"
    /\ UNCHANGED <<reliableSequence, reliableAcknowledge, reliableCommands,
                   toClient, toServer, clientVars>>

(* Mutant of Pending: the last command is left out.                        *)
PendingButLast(acknowledge) ==
    [i \in 1 .. reliableSequence - acknowledge - 1 |->
       [number |-> acknowledge + i,
        text |-> reliableCommands[Slot(acknowledge + i)]]]

(* SV_UpdateServerCommandsToClient.                                        *)
Pending(acknowledge) ==
    [i \in 1 .. reliableSequence - acknowledge |->
       [number |-> acknowledge + i,
        text |-> reliableCommands[Slot(acknowledge + i)]]]

SV_SendClientGameState(acknowledge) ==
    /\ Len(toClient) < MaxToClient
    /\ toClient' = Append(toClient,
         [commands |-> Pending(acknowledge), kind |-> "gamestate",
          sequence |-> reliableSequence, configstring |-> configstring,
          serverId |-> serverId])
    /\ state' = "PRIMED"

(* "after", "configstring" and "active" are what the snapshot supposes the *)
(* client to know; the last is the negation of SNAPFLAG_NOT_ACTIVE.        *)
SV_SendClientSnapshot ==
    /\ Len(toClient) < MaxToClient
    /\ toClient' = Append(toClient,
         [commands |-> Pending(reliableAcknowledge), kind |-> "snapshot",
          after |-> reliableSequence, configstring |-> configstring,
          active |-> state = "ACTIVE"])
    /\ UNCHANGED <<serverVars, toServer, clientVars>>

(* What a message whose acknowledgement is in range can lead to, besides   *)
(* nothing.  The usercmds of a client that has this map's gamestate put it *)
(* in the world.  The gamestate is sent again when the client lacks it,    *)
(* when its usercmds come before its pak checksums, and after a download.  *)
EnterWorld(m) ==
    /\ m.serverId = serverId /\ state = "PRIMED"
    /\ state' = "ACTIVE"
    /\ UNCHANGED toClient

ExecuteInRange(m) ==
    /\ reliableAcknowledge' = m.reliableAcknowledge
    /\ \/ UNCHANGED <<state, toClient>>
       \/ EnterWorld(m)
       \/ SV_SendClientGameState(m.reliableAcknowledge)

AcknowledgeAtLimit(m) ==    \* mutant: off by one
    m.reliableAcknowledge + MAX_RELIABLE_COMMANDS <= reliableSequence

AcknowledgeOutOfRange(m) ==
    m.reliableAcknowledge + MAX_RELIABLE_COMMANDS < reliableSequence

SV_ExecuteClientMessage ==
    LET m == Head(toServer) IN
    /\ toServer # <<>> /\ state # "ZOMBIE"
    /\ IF AcknowledgeOutOfRange(m)
         THEN /\ reliableAcknowledge' = reliableSequence
              /\ UNCHANGED <<state, toClient>>
         ELSE ExecuteInRange(m)
    /\ toServer' = Tail(toServer)
    /\ UNCHANGED <<reliableSequence, reliableCommands, configstring, serverId,
                   clientVars>>

-----------------------------------------------------------------------------
(* The client.                                                             *)

(* The commands among those given that the client has not had yet.         *)
New(commands) ==
    {i \in DOMAIN commands : commands[i].number > clc.serverCommandSequence}

InLastSlot(commands, s) ==    \* mutant: the slot of the command before
    {i \in New(commands) : Slot(commands[i].number - 1) = s}

InSlot(commands, s) == {i \in New(commands) : Slot(commands[i].number) = s}

(* CL_ParseCommandString, for the commands of a message, whose numbers     *)
(* ascend: what they make of the connection.                               *)
CL_ParseCommandString(commands) ==
    [clc EXCEPT
       !.serverCommandSequence =
          IF New(commands) = {} THEN @ ELSE commands[Max(New(commands))].number,
       !.serverCommands =
          [s \in Slots |-> IF InSlot(commands, s) = {} THEN @[s]
                           ELSE commands[Max(InSlot(commands, s))].text],
       !.serverCommandsBad =
          [s \in Slots |-> @[s] /\ InSlot(commands, s) = {}]]

(* Mutant of BadAfterGamestate: chunks of long values are not marked.       *)
BadIfWhole(c) ==
    [i \in Slots |-> \/ c.serverCommands[i].configstring \notin LongValues \cup {0}
                     \/ c.serverCommandsBad[i]]

(* A gamestate is newer than every "cs" command received so far.           *)
BadAfterGamestate(c) ==
    [i \in Slots |-> c.serverCommands[i].configstring # 0 \/ c.serverCommandsBad[i]]

SequenceAnew(m) == 0        \* mutant: the numbers start anew with the map
SequenceOf(m) == m.sequence

(* The cgame starts again after the last command it was given.             *)
CL_ParseGamestate(m) ==
    LET c == CL_ParseCommandString(m.commands) IN
    /\ clc' = [c EXCEPT
                 !.serverCommandSequence = SequenceOf(m),
                 !.serverCommandsBad = BadAfterGamestate(c)]
    /\ cl' = [CL_ClearState EXCEPT !.serverId = m.serverId,
                                   !.configstring = m.configstring]
    /\ cgame' = [running |-> FALSE,
                 serverCommandSequence |-> clc.lastExecutedServerCommand,
                 snap |-> NoSnapshot]

(* A snapshot whose delta base is gone is not used, its commands are.      *)
CL_ParseSnapshot(m) ==
    /\ clc' = CL_ParseCommandString(m.commands)
    /\ \/ cl' = [cl EXCEPT !.snap =
                   [valid |-> TRUE, after |-> m.after, active |-> m.active,
                    serverCommandNum |-> clc'.serverCommandSequence,
                    configstring |-> m.configstring]]
       \/ UNCHANGED cl
    /\ UNCHANGED cgame

CL_ParseServerMessage ==
    LET m == Head(toClient) IN
    /\ toClient # <<>> /\ ~clientError
    /\ \/ m.kind = "gamestate" /\ CL_ParseGamestate(m)
       \/ m.kind = "snapshot" /\ CL_ParseSnapshot(m)
    /\ toClient' = Tail(toClient)
    /\ UNCHANGED <<serverVars, toServer, bigConfigString, clientError>>

(* "key" is the command the packet is scrambled with.                      *)
CL_WritePacket ==
    /\ Len(toServer) < MaxToServer /\ ~clientError
    /\ toServer' = Append(toServer,
         [serverId |-> cl.serverId,
          reliableAcknowledge |-> clc.serverCommandSequence,
          key |-> clc.serverCommands[Slot(clc.serverCommandSequence)]])
    /\ UNCHANGED <<serverVars, toClient, clientVars>>

(* CL_FirstSnapshot: the cgame is first run on a snapshot of a client that *)
(* is in the world.                                                        *)
SnapshotReady ==
    /\ ~clientError /\ cl.snap.valid
    /\ cgame.running \/ cl.snap.active

(* What bigConfigString holds after a chunk: the first one starts it anew, *)
(* any other is appended to what is there, whatever that is.               *)
Appended(text) ==
    IF \/ text.chunk = 1
       \/ /\ bigConfigString.configstring = text.configstring
          /\ bigConfigString.chunk = text.chunk - 1
      THEN [configstring |-> text.configstring, chunk |-> text.chunk]
      ELSE Other

(* The cgame is given a command that sets the configstring.  A value put   *)
(* together from the wrong chunks is none of the server's: it counts as 0. *)
ConfigstringCommand(text) ==
    IF text.configstring \in LongValues
      THEN /\ bigConfigString' = Appended(text)
           /\ cl' = IF text.chunk < MaxChunks THEN cl
                    ELSE [cl EXCEPT
                            !.configstring = bigConfigString'.configstring]
      ELSE /\ cl' = [cl EXCEPT !.configstring = text.configstring]
           /\ UNCHANGED bigConfigString

(* CL_GetServerCommand, asked for the next command the snapshot follows.   *)
CL_GetServerCommand ==
    LET n == cgame.serverCommandSequence + 1 IN
    /\ SnapshotReady /\ n <= cl.snap.serverCommandNum
    /\ cgame' = [cgame EXCEPT !.serverCommandSequence = n, !.running = TRUE]
    /\ \/ /\ n + MAX_RELIABLE_COMMANDS <= clc.serverCommandSequence
          /\ clientError' = TRUE
          /\ UNCHANGED <<clc, cl, bigConfigString>>
       \/ /\ n + MAX_RELIABLE_COMMANDS > clc.serverCommandSequence
          /\ clc.serverCommandsBad[Slot(n)]
          /\ UNCHANGED <<clc, cl, bigConfigString, clientError>>
       \/ /\ n + MAX_RELIABLE_COMMANDS > clc.serverCommandSequence
          /\ ~clc.serverCommandsBad[Slot(n)]
          /\ clc' = [clc EXCEPT !.lastExecutedServerCommand = n]
          /\ IF clc.serverCommands[Slot(n)].configstring = 0
               THEN UNCHANGED <<cl, bigConfigString>>
               ELSE ConfigstringCommand(clc.serverCommands[Slot(n)])
          /\ UNCHANGED clientError
    /\ UNCHANGED <<serverVars, toClient, toServer>>

RunSnapshotAtOnce ==        \* mutant: whatever commands come before it
    /\ SnapshotReady /\ cgame.snap # cl.snap
    /\ cgame' = [cgame EXCEPT !.snap = cl.snap, !.running = TRUE]
    /\ UNCHANGED <<serverVars, toClient, toServer, clc, cl, bigConfigString, clientError>>

(* The cgame runs the snapshot when it has run the commands before it.     *)
RunSnapshot ==
    /\ SnapshotReady /\ cgame.snap # cl.snap
    /\ cgame.serverCommandSequence >= cl.snap.serverCommandNum
    /\ cgame' = [cgame EXCEPT !.snap = cl.snap, !.running = TRUE]
    /\ UNCHANGED <<serverVars, toClient, toServer, clc, cl, bigConfigString, clientError>>

-----------------------------------------------------------------------------
Lose ==
    \/ /\ \E i \in DOMAIN toServer : toServer' = RemoveAt(toServer, i)
       /\ UNCHANGED toClient
    \/ /\ \E i \in DOMAIN toClient : toClient' = RemoveAt(toClient, i)
       /\ UNCHANGED toServer

Next ==
    \/ SV_SendServerCommand
    \/ SV_SetConfigstring
    \/ SV_SpawnServer
    \/ SV_SendClientSnapshot
    \/ SV_ExecuteClientMessage
    \/ CL_ParseServerMessage
    \/ CL_WritePacket
    \/ CL_GetServerCommand
    \/ RunSnapshot
    \/ Lose /\ UNCHANGED <<serverVars, clientVars>>

Spec == Init /\ [][Next]_vars

(* Both programs run their frames for ever, and a channel that is used for *)
(* ever does not lose everything.                                          *)
FairSpec ==
    /\ Spec
    /\ WF_vars(SV_SendClientSnapshot) /\ WF_vars(CL_WritePacket)
    /\ SF_vars(SV_ExecuteClientMessage) /\ SF_vars(CL_ParseServerMessage)

-----------------------------------------------------------------------------
(* The types of the state; a client is never freed while it is served.     *)
TypeOK ==
    LET Text == [number : Nat, configstring : Nat, chunk : Nat]
        Snap == [valid : BOOLEAN, serverCommandNum : Nat, after : Nat,
                 configstring : Nat, active : BOOLEAN]
    IN
    /\ state \in {"CONNECTED", "PRIMED", "ACTIVE", "ZOMBIE"}
    /\ reliableSequence \in Nat /\ reliableAcknowledge \in Nat
    /\ reliableCommands \in [Slots -> Text]
    /\ configstring \in Nat /\ serverId \in Nat
    /\ clc \in [serverCommandSequence : Nat, serverCommands : [Slots -> Text],
                serverCommandsBad : [Slots -> BOOLEAN],
                lastExecutedServerCommand : Nat]
    /\ cl \in [serverId : Nat, configstring : Nat, snap : Snap]
    /\ cgame \in [running : BOOLEAN, serverCommandSequence : Nat, snap : Snap]
    /\ bigConfigString \in [configstring : Nat, chunk : Nat]
    /\ clientError \in BOOLEAN

(* The two ends agree on what is outstanding, so no acknowledgement is     *)
(* ever out of range.                                                      *)
AcknowledgesAgree ==
    state # "ZOMBIE" =>
        /\ reliableAcknowledge <= clc.serverCommandSequence
        /\ clc.serverCommandSequence <= reliableSequence
        /\ \A i \in DOMAIN toServer :
              toServer[i].reliableAcknowledge + MAX_RELIABLE_COMMANDS
                  >= reliableSequence

(* The cgame runs no snapshot before a command that was added before it    *)
(* (sv_main.cpp:126, "guaranteed to not have future snapshot_t executed    *)
(* before it is executed").                                                *)
CommandsBeforeSnapshot ==
    (state # "ZOMBIE" /\ cgame.snap.valid) =>
        cgame.serverCommandSequence >= cgame.snap.after

(* In the world, the client runs a snapshot with configstrings at least as *)
(* new as the server had when it made the snapshot: whatever gamestates,   *)
(* commands and map changes were lost or crossed on the way.               *)
ConfigstringCurrent ==
    (state # "ZOMBIE" /\ cgame.snap.valid /\ cgame.snap.active) =>
        cl.configstring >= cgame.snap.configstring

(* The client scrambles a packet with the command it acknowledges, and     *)
(* the server unscrambles it with what it finds in that command's slot.    *)
UnscrambledAsScrambled ==
    LET m == Head(toServer) IN reliableCommands[Slot(m.reliableAcknowledge)] = m.key

(* While the server has fewer unacknowledged commands than slots, it       *)
(* unscrambles the next packet with the command it was scrambled with.     *)
UnscramblesBelowLimit ==
    (/\ state # "ZOMBIE" /\ toServer # <<>>
     /\ reliableSequence < reliableAcknowledge + MAX_RELIABLE_COMMANDS)
        => UnscrambledAsScrambled

(* Every command reaches the client in the end, unless one end gives up.   *)
EventuallyReceived ==
    \A n \in 1 .. MaxCommands :
        reliableSequence >= n ~>
            \/ clc.serverCommandSequence >= n
            \/ state = "ZOMBIE" \/ clientError

(* The client takes the commands of the server, or a gamestate in their    *)
(* place, as a stream of reliable commands: no message, gamestates         *)
(* included, takes it back or ahead of what was added, until the client is *)
(* dropped.  What the client's ring holds counts as taken by the number it *)
(* was added under, so every slot holds what the server added there: no    *)
(* unacknowledged command has lost its slot in the server's ring           *)
(* (sv_main.cpp:139, "if we would be losing an old command that hasn't     *)
(* been acknowledged, we must drop the connection").                       *)
Reliable == INSTANCE ReliableCommands
    WITH added <- reliableSequence,
         taken <- [n \in 1 .. clc.serverCommandSequence |->
                     IF n + MAX_RELIABLE_COMMANDS > clc.serverCommandSequence
                       THEN clc.serverCommands[Slot(n)].number
                       ELSE n],
         kept <- state # "ZOMBIE"

ImplementsReliableCommands == Reliable!Spec
=============================================================================
