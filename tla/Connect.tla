------------------------------ MODULE Connect ------------------------------
(***************************************************************************)
(* How a connection begins and ends: the challenge, the connect packet and *)
(* the slot (code/server/sv_client.cpp, sv_main.cpp), and the client's     *)
(* state from disconnected to loading the game (code/client/cl_main.cpp).  *)
(*                                                                         *)
(* One client, one slot (sv_maxclients is 1), and other addresses that     *)
(* only ask for challenges.  Packets may be lost, connectionless ones also *)
(* come more than once and out of order; the messages of a connection keep *)
(* their order, which is NetChan's doing.  Inside a connection a message   *)
(* shows only the challenge it is scrambled with and what it does to the   *)
(* connection; the rest of its life is in GameState.                       *)
(*                                                                         *)
(* Time: a flag says that something happened recently, and time passing    *)
(* clears it, at any moment.  Challenge numbers are issued in increasing   *)
(* order, so the oldest challenge is the one with the smallest number.     *)
(***************************************************************************)
EXTENDS Naturals, Sequences, SequencesExt

CONSTANTS
    MAX_CHALLENGES,    \* records of svs.challenges
    LanClient,         \* Sys_IsLANAddress of the client's address
    MaxAttempts,       \* bound: times the user connects
    MaxDisturbances,   \* bound: crashes, kicks, refusals, repeats and such
    MaxInFlight        \* bound: packets in flight in a direction

ASSUME ChallengesAssumption == MAX_CHALLENGES \in Nat \ {0}
ASSUME LanAssumption == LanClient \in BOOLEAN
ASSUME BoundsAssumption == MaxAttempts \in Nat /\ MaxDisturbances \in Nat

VARIABLES
    clsState,          \* client: cls.state
    clcChallenge,      \* client: clc.challenge
    clHeard,           \* client: clc.lastPacketTime is recent
    challenges,        \* server: svs.challenges
    issued,            \* server: number of the last challenge made
    slot,              \* server: the client_t
    asked,             \* authorize server: challenges it is asked about
    toServer,          \* packets on their way to the server
    toClient,          \* packets on their way to the client
    attempts,          \* history: times the user has connected
    disturbances,      \* history: disturbances so far
    told,              \* history: the server has refused this attempt
    overlapped,        \* history: attempts, or packets, crossed each other
    garbled            \* history: an end read a message with the wrong key

clientVars == <<clsState, clcChallenge, clHeard>>
serverVars == <<challenges, issued, slot, asked>>
net == <<toServer, toClient>>
history == <<attempts, disturbances, told, overlapped, garbled>>
vars == <<clientVars, serverVars, net, history>>

Records == 1 .. MAX_CHALLENGES
NoRecord == [adr |-> "none", challenge |-> 0, connected |-> FALSE]

(* recent: lastConnectTime is less than sv_reconnectlimit ago; heard:      *)
(* lastPacketTime is recent; spoke: a message of the client has been read  *)
(* since the slot was set up.                                              *)
FreeSlot == [state |-> "free", challenge |-> 0, recent |-> FALSE,
             heard |-> FALSE, spoke |-> FALSE]

InConnection == clsState \in {"connected", "primed"}
Trying == clsState \in {"connecting", "challenging"}

Init ==
    /\ clsState = "disconnected" /\ clcChallenge = 0 /\ clHeard = FALSE
    /\ challenges = [i \in Records |-> NoRecord] /\ issued = 0
    /\ slot = FreeSlot /\ asked = {}
    /\ toServer = <<>> /\ toClient = <<>>
    /\ attempts = 0 /\ disturbances = 0
    /\ told = FALSE /\ overlapped = FALSE /\ garbled = FALSE

Disturb == /\ disturbances < MaxDisturbances
           /\ disturbances' = disturbances + 1

-----------------------------------------------------------------------------
(* The server: challenges.                                                 *)

Response(n) == [type |-> "challengeResponse", challenge |-> n]
Refusal == [type |-> "print"]
Message(n, content) == [type |-> "message", challenge |-> n,
                        content |-> content]

ToClient(packet) == toClient' = Append(toClient, packet)

FirstRecord(records) == CHOOSE i \in records : \A j \in records : i <= j

UnusedBy(adr) ==
    {i \in Records : ~challenges[i].connected /\ challenges[i].adr = adr}

Oldest == FirstRecord({i \in Records : \A j \in Records :
                          challenges[i].challenge <= challenges[j].challenge})

GiveRecordUncounted(adr) ==   \* mutant: the record keeps no new number
    IF UnusedBy(adr) # {}
      THEN UNCHANGED <<challenges, issued>>
      ELSE /\ challenges' = [challenges EXCEPT ![Oldest] =
                [adr |-> adr, challenge |-> issued + 1, connected |-> FALSE]]
           /\ UNCHANGED issued

(* The record SV_GetChallenge answers adr with, after making it if need be.*)
GiveRecord(adr) ==
    IF UnusedBy(adr) # {}
      THEN UNCHANGED <<challenges, issued>>
      ELSE /\ issued' = issued + 1
           /\ challenges' = [challenges EXCEPT ![Oldest] =
                [adr |-> adr, challenge |-> issued + 1, connected |-> FALSE]]

NumberFor(adr) ==
    IF UnusedBy(adr) # {}
      THEN challenges[FirstRecord(UnusedBy(adr))].challenge
      ELSE issued + 1

(* A LAN address is answered at once, and so is one the authorize server   *)
(* has not said anything about for AUTHORIZE_TIMEOUT.                      *)
SV_GetChallenge ==
    /\ Head(toServer).type = "getchallenge"
    /\ GiveRecord("client")
    /\ LET n == NumberFor("client") IN
       \/ /\ LanClient \/ n \in asked
          /\ ToClient(Response(n))
          /\ UNCHANGED asked
       \/ /\ ~LanClient
          /\ asked' = asked \union {n}
          /\ UNCHANGED toClient
    /\ UNCHANGED <<slot, garbled>>

OtherGetsChallenge ==
    /\ Disturb
    /\ GiveRecord("other")
    /\ UNCHANGED <<clientVars, slot, asked, net, attempts, told,
                   overlapped, garbled>>

HoldersOf(n) == {i \in Records : challenges[i].challenge = n}

(* SV_AuthorizeIpPacket: the authorize server accepts the client, or not;  *)
(* a challenge that has been recycled in the meantime is not found.        *)
SV_AuthorizeIpPacket(n, accept) ==
    /\ n \in asked /\ asked' = asked \ {n}
    /\ \/ /\ HoldersOf(n) = {}
          /\ UNCHANGED <<challenges, toClient, disturbances>>
       \/ /\ HoldersOf(n) # {} /\ accept
          /\ ToClient(Response(n))
          /\ UNCHANGED <<challenges, disturbances>>
       \/ /\ HoldersOf(n) # {} /\ ~accept
          /\ Disturb
          /\ ToClient(Refusal)
          /\ challenges' = [i \in Records |-> IF i \in HoldersOf(n)
                                                THEN NoRecord
                                                ELSE challenges[i]]
    /\ UNCHANGED <<clientVars, issued, slot, toServer, attempts, told,
                   overlapped, garbled>>

-----------------------------------------------------------------------------
(* The server: the slot.                                                   *)

HoldersOfClient(n) ==
    {i \in HoldersOf(n) : challenges[i].adr = "client"}

TooSoon == slot.state # "free" /\ slot.recent

BadChallenge(n) == HoldersOfClient(n) = {}

RejectSilently(n) ==       \* mutant: a bad challenge is not answered
    /\ TooSoon \/ BadChallenge(n)
    /\ UNCHANGED <<challenges, slot, toClient, disturbances>>

RejectConnect(n) ==
    /\ \/ TooSoon /\ UNCHANGED toClient
       \/ ~TooSoon /\ BadChallenge(n) /\ ToClient(Refusal)
    /\ UNCHANGED <<challenges, slot, disturbances>>

NewSlotReused(n) ==        \* mutant: a slot that is reused keeps its challenge
    [state |-> "connected", recent |-> TRUE, heard |-> TRUE, spoke |-> FALSE,
     challenge |-> IF slot.state = "free" THEN n ELSE slot.challenge]

NewSlot(n) == [state |-> "connected", challenge |-> n, recent |-> TRUE,
               heard |-> TRUE, spoke |-> FALSE]

(* Whatever is in the slot is overwritten: if it is not free it belongs to *)
(* this address.  The game may refuse, when the slot has been wiped        *)
(* already; the limits on pings may refuse before that, and sv_minPing     *)
(* clears the port of the record, which is nobody's then.                  *)
AcceptConnect(n) ==
    /\ ~TooSoon /\ ~BadChallenge(n)
    /\ LET i == FirstRecord(HoldersOfClient(n))
           used == [challenges EXCEPT ![i].connected = TRUE]
       IN
       \/ /\ slot' = NewSlot(n) /\ challenges' = used
          /\ ToClient([type |-> "connectResponse"])
          /\ UNCHANGED disturbances
       \/ /\ Disturb
          /\ slot' = FreeSlot /\ challenges' = used
          /\ ToClient(Refusal)
       \/ /\ ~LanClient /\ Disturb
          /\ \E adr \in {"client", "none"} :
               challenges' = [used EXCEPT ![i].adr = adr]
          /\ ToClient(Refusal)
          /\ UNCHANGED slot

SV_DirectConnect ==
    /\ Head(toServer).type = "connect"
    /\ LET n == Head(toServer).challenge IN
       RejectConnect(n) \/ AcceptConnect(n)
    /\ UNCHANGED <<issued, asked, garbled>>

(* SV_DropClient makes the slot a zombie, and lets the first record of the *)
(* address be used again; an administrator's kick renews lastPacketTime.   *)
ReleaseChallenge ==
    LET mine == {i \in Records : challenges[i].adr = "client"} IN
    challenges' = IF mine = {} THEN challenges
                  ELSE [challenges EXCEPT
                    ![FirstRecord(mine)].connected = FALSE]

SV_Kick_f ==
    /\ slot.state = "connected"
    /\ Disturb
    /\ slot' = [slot EXCEPT !.state = "zombie", !.heard = TRUE]
    /\ ReleaseChallenge
    /\ UNCHANGED <<clientVars, issued, asked, net, attempts, told,
                   overlapped, garbled>>

(* SV_PacketEvent of a message, for each state of the slot.  The first     *)
(* message of a connection, or one that tells that the gamestate was lost, *)
(* is answered with a gamestate.                                           *)
FromUnknown ==
    /\ slot.state = "free"
    /\ ToClient([type |-> "disconnect"])
    /\ UNCHANGED <<challenges, slot, garbled>>

ZombieIsHeard ==           \* mutant: a zombie's packets count as well
    /\ slot.state = "zombie"
    /\ slot' = [slot EXCEPT !.heard = TRUE]
    /\ UNCHANGED <<challenges, toClient, garbled>>

FromZombie ==
    /\ slot.state = "zombie"
    /\ UNCHANGED <<challenges, slot, toClient, garbled>>

FromClient(p) ==
    /\ slot.state = "connected"
    /\ LET spoken == [slot EXCEPT !.heard = TRUE, !.spoke = TRUE] IN
       \/ /\ p.challenge # slot.challenge
          /\ garbled' = TRUE
          /\ slot' = [slot EXCEPT !.heard = TRUE]
          /\ UNCHANGED <<challenges, toClient>>
       \/ /\ p.challenge = slot.challenge /\ p.content = "disconnect"
          /\ slot' = [spoken EXCEPT !.state = "zombie"]
          /\ ReleaseChallenge
          /\ UNCHANGED <<toClient, garbled>>
       \/ /\ p.challenge = slot.challenge /\ p.content = "moves"
          /\ slot' = spoken
          /\ \/ ToClient(Message(slot.challenge, "gamestate"))
             \/ slot.spoke /\ UNCHANGED toClient
          /\ UNCHANGED <<challenges, garbled>>

SequencedPacket ==
    /\ Head(toServer).type = "message"
    /\ FromUnknown \/ FromZombie \/ FromClient(Head(toServer))
    /\ UNCHANGED <<issued, asked, disturbances>>

SV_PacketEvent ==
    /\ toServer # <<>> /\ Len(toClient) < MaxInFlight
    /\ \/ SV_GetChallenge /\ UNCHANGED disturbances
       \/ SV_DirectConnect
       \/ SequencedPacket
    /\ toServer' = Tail(toServer)
    /\ UNCHANGED <<clientVars, attempts, told, overlapped>>

(* Messages go to zombies too: they carry the reliable "disconnect".       *)
SV_SendClientMessages ==
    /\ slot.state # "free" /\ Len(toClient) < MaxInFlight
    /\ ToClient(Message(slot.challenge, IF slot.state = "zombie"
                                            THEN "disconnect"
                                            ELSE "snapshot"))
    /\ UNCHANGED <<clientVars, serverVars, toServer, history>>

(* SV_CheckTimeouts: a zombie is freed after a while, and a client that    *)
(* has not been heard of is dropped and freed at once.                     *)
SV_CheckTimeouts ==
    /\ ~slot.heard
    /\ \/ slot.state = "zombie" /\ UNCHANGED challenges
       \/ slot.state = "connected" /\ ReleaseChallenge
    /\ slot' = [slot EXCEPT !.state = "free"]
    /\ UNCHANGED <<clientVars, issued, asked, net, history>>

ServerTimePasses ==
    /\ \/ slot.recent /\ slot' = [slot EXCEPT !.recent = FALSE]
       \/ slot.heard /\ slot' = [slot EXCEPT !.heard = FALSE]
    /\ UNCHANGED <<clientVars, challenges, issued, asked, net, history>>

(* The server ends in an error, which sends no final message to anyone     *)
(* (SV_Shutdown with com_errorEntered), and is started again.              *)
ServerRestarts ==
    /\ Disturb
    /\ challenges' = [i \in Records |-> NoRecord]
    /\ slot' = FreeSlot /\ asked' = {}
    /\ UNCHANGED <<clientVars, issued, net, attempts, told,
                   overlapped, garbled>>

-----------------------------------------------------------------------------
(* The client.                                                             *)

(* CL_Disconnect: in a connection, the server is told three times; then    *)
(* the clientConnection_t is wiped.                                        *)
Farewell ==
    IF InConnection
      THEN [i \in 1 .. 3 |-> Message(clcChallenge, "disconnect")]
      ELSE <<>>

CL_Disconnect ==
    /\ clsState' = "disconnected" /\ clcChallenge' = 0 /\ clHeard' = FALSE
    /\ toServer' = toServer \o Farewell

CL_Disconnect_f ==
    /\ clsState # "disconnected"
    /\ CL_Disconnect
    /\ UNCHANGED <<serverVars, toClient, history>>

(* Nothing of an earlier attempt is on its way that the connection of the  *)
(* next one could be mistaken for.                                         *)
Settled == /\ \A i \in DOMAIN toServer : toServer[i].type # "connect"
           /\ \A i \in DOMAIN toClient : toClient[i].type # "connectResponse"

CL_Connect_f ==
    /\ attempts < MaxAttempts /\ attempts' = attempts + 1
    /\ clsState' = "connecting" /\ clcChallenge' = 0 /\ clHeard' = FALSE
    /\ toServer' = toServer \o Farewell
    /\ told' = FALSE /\ overlapped' = (overlapped \/ ~Settled)
    /\ UNCHANGED <<serverVars, toClient, disturbances, garbled>>

ClientCrashes ==
    /\ clsState # "disconnected"
    /\ Disturb
    /\ clsState' = "disconnected" /\ clcChallenge' = 0 /\ clHeard' = FALSE
    /\ UNCHANGED <<serverVars, net, attempts, told,
                   overlapped, garbled>>

CL_CheckForResend ==
    /\ Trying /\ Len(toServer) < MaxInFlight
    /\ toServer' = Append(toServer,
         IF clsState = "connecting"
           THEN [type |-> "getchallenge"]
           ELSE [type |-> "connect", challenge |-> clcChallenge])
    /\ UNCHANGED <<clientVars, serverVars, toClient, history>>

CL_WritePacket ==
    /\ InConnection /\ Len(toServer) < MaxInFlight
    /\ toServer' = Append(toServer, Message(clcChallenge, "moves"))
    /\ UNCHANGED <<clientVars, serverVars, toClient, history>>

(* CL_PacketEvent sets clc.lastPacketTime before it looks at the packet.   *)
HeardNow == TRUE

Ignored == clHeard' = HeardNow /\ UNCHANGED <<clsState, clcChallenge, toServer>>

ChallengeResponse(p) ==
    /\ p.type = "challengeResponse"
    /\ IF clsState = "connecting"
         THEN /\ clsState' = "challenging" /\ clcChallenge' = p.challenge
              /\ clHeard' = HeardNow /\ UNCHANGED toServer
         ELSE Ignored
    /\ UNCHANGED <<told, garbled>>

ConnectResponse(p) ==
    /\ p.type = "connectResponse"
    /\ IF clsState = "challenging"
         THEN /\ clsState' = "connected" /\ clHeard' = HeardNow
              /\ UNCHANGED <<clcChallenge, toServer>>
         ELSE Ignored
    /\ UNCHANGED <<told, garbled>>

(* CL_DisconnectPacket is ignored when a packet has arrived within three   *)
(* seconds.                                                                *)
DisconnectPacket(p) ==
    /\ p.type = "disconnect"
    /\ IF ~InConnection \/ HeardNow
         THEN Ignored
         ELSE CL_Disconnect
    /\ UNCHANGED <<told, garbled>>

PrintedPacket(p) ==
    /\ p.type = "print"
    /\ told' = TRUE
    /\ UNCHANGED garbled /\ Ignored

(* A "disconnect" command is obeyed from the time the game is loading.     *)
ServerMessage(p) ==
    /\ p.type = "message"
    /\ garbled' = (garbled \/ (InConnection /\ p.challenge # clcChallenge))
    /\ IF ~InConnection \/ p.challenge # clcChallenge
         THEN Ignored
         ELSE CASE p.content = "gamestate" ->
                     /\ clsState' = "primed" /\ clHeard' = HeardNow
                     /\ UNCHANGED <<clcChallenge, toServer>>
                [] p.content = "disconnect" /\ clsState = "primed" ->
                     CL_Disconnect
                [] OTHER -> Ignored
    /\ UNCHANGED told

CL_PacketEvent ==
    /\ toClient # <<>>
    /\ LET p == Head(toClient) IN
       \/ ChallengeResponse(p) \/ ConnectResponse(p) \/ DisconnectPacket(p)
       \/ PrintedPacket(p) \/ ServerMessage(p)
    /\ toClient' = Tail(toClient)
    /\ UNCHANGED <<serverVars, attempts, disturbances, overlapped>>

CL_CheckTimeout ==
    /\ InConnection /\ ~clHeard
    /\ CL_Disconnect
    /\ UNCHANGED <<serverVars, toClient, history>>

ClientTimePasses ==
    /\ clHeard /\ clHeard' = FALSE
    /\ UNCHANGED <<clsState, clcChallenge, serverVars, net, history>>

-----------------------------------------------------------------------------
(* The network.                                                            *)

Lose ==
    /\ \/ toServer # <<>> /\ toServer' = Tail(toServer) /\ UNCHANGED toClient
       \/ toClient # <<>> /\ toClient' = Tail(toClient) /\ UNCHANGED toServer
    /\ UNCHANGED <<clientVars, serverVars, history>>

(* A connectionless packet comes once more, sooner or later than what is   *)
(* around it; if the first one is then lost, it has changed places.        *)
Repeat(s, i, j) == InsertAt(s, j, s[i])

Overtakes(s, i, j) == \E k \in j .. i : s[k].type = "message"

RepeatIn(s, t) ==
    /\ Len(s) <= MaxInFlight
    /\ \E i \in DOMAIN s, j \in 1 .. Len(s) + 1 :
         /\ s[i].type # "message"
         /\ t = Repeat(s, i, j)
         /\ overlapped' = (overlapped \/ Overtakes(s, i, j))

RepeatPacket ==
    /\ Disturb
    /\ \/ RepeatIn(toServer, toServer') /\ UNCHANGED toClient
       \/ RepeatIn(toClient, toClient') /\ UNCHANGED toServer
    /\ UNCHANGED <<clientVars, serverVars, attempts, told, garbled>>

ClientStep ==
    \/ CL_Connect_f \/ CL_Disconnect_f \/ ClientCrashes
    \/ CL_CheckForResend \/ CL_WritePacket
    \/ CL_PacketEvent \/ CL_CheckTimeout \/ ClientTimePasses

ServerStep ==
    \/ SV_PacketEvent \/ SV_SendClientMessages
    \/ SV_CheckTimeouts \/ ServerTimePasses
    \/ SV_Kick_f \/ ServerRestarts

Next ==
    \/ ClientStep \/ ServerStep \/ Lose \/ RepeatPacket
    \/ OtherGetsChallenge
    \/ \E n \in asked, accept \in BOOLEAN : SV_AuthorizeIpPacket(n, accept)

Spec == Init /\ [][Next]_vars

(* Both programs keep running, time passes, and what is sent again and     *)
(* again gets through again and again; AUTHORIZE_TIMEOUT makes the server  *)
(* answer in the end whatever the authorize server does.                   *)
Fairness ==
    /\ WF_vars(CL_CheckForResend) /\ WF_vars(CL_WritePacket)
    /\ WF_vars(CL_CheckTimeout) /\ WF_vars(ClientTimePasses)
    /\ WF_vars(SV_SendClientMessages) /\ WF_vars(SV_CheckTimeouts)
    /\ WF_vars(ServerTimePasses)
    /\ SF_vars(SV_PacketEvent)
    /\ SF_vars(SV_PacketEvent /\ Head(toServer).type = "getchallenge"
                              /\ toClient' # toClient)
    /\ SF_vars(CL_PacketEvent /\ Head(toClient).type = "message")
    /\ SF_vars(CL_PacketEvent /\ Head(toClient).type # "message")

LiveSpec == Spec /\ Fairness

-----------------------------------------------------------------------------
Numbers == 0 .. issued

PacketsToServer ==
    [type : {"getchallenge"}]
    \union [type : {"connect"}, challenge : Numbers]
    \union [type : {"message"}, challenge : Numbers,
            content : {"moves", "disconnect"}]

PacketsToClient ==
    [type : {"print", "connectResponse", "disconnect"}]
    \union [type : {"challengeResponse"}, challenge : Numbers]
    \union [type : {"message"}, challenge : Numbers,
            content : {"gamestate", "snapshot", "disconnect"}]

TypeOK ==
    /\ clsState \in {"disconnected", "connecting", "challenging",
                     "connected", "primed"}
    /\ clcChallenge \in Numbers /\ clHeard \in BOOLEAN
    /\ issued \in Nat
    /\ challenges \in [Records -> [adr : {"none", "client", "other"},
                                   challenge : Numbers,
                                   connected : BOOLEAN]]
    /\ slot \in [state : {"free", "connected", "zombie"},
                 challenge : Numbers, recent : BOOLEAN, heard : BOOLEAN,
                 spoke : BOOLEAN]
    /\ asked \subseteq Numbers
    /\ toServer \in Seq(PacketsToServer) /\ toClient \in Seq(PacketsToClient)
    /\ attempts \in 0 .. MaxAttempts
    /\ disturbances \in 0 .. MaxDisturbances
    /\ told \in BOOLEAN /\ overlapped \in BOOLEAN /\ garbled \in BOOLEAN

(* Neither end ever unscrambles a message with a challenge it was not      *)
(* scrambled with, whatever connections came before this one, and whatever *)
(* connect packets come late and set up the slot of a playing client anew; *)
(* except after a connect packet or its answer has outlived its attempt,   *)
(* or overtaken a message.                                                 *)
ConnectionsAgree == garbled => overlapped

(* A client that goes on asking is let in, or is told why it is not.       *)
EventuallyAnswered == Trying ~> (told \/ ~Trying)

(* The slot of a client that left for good becomes free, whether or not    *)
(* its farewell or any repeated connect packet arrived; and a zombie does  *)
(* not stay one, even if its client goes on sending.                       *)
SlotFreed ==
    /\ <>[](clsState = "disconnected") => <>[](slot.state = "free")
    /\ (slot.state = "zombie") ~> (slot.state # "zombie")

(* The comment on CL_DisconnectPacket: a client that has lost the          *)
(* "disconnect" command of its server learns that it was dropped from the  *)
(* out of band packets its own packets are answered with.                  *)
DroppedClientLearns ==
    (InConnection /\ slot.state = "free")
        ~> (~InConnection \/ slot.state # "free")
=============================================================================
