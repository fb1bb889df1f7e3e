----------------------------- MODULE GameState -----------------------------
(***************************************************************************)
(* How a client that is connected gets into the world and stays there:     *)
(* gamestates, the pure check, map changes, map restarts and the reload    *)
(* after a download (code/server/sv_client.cpp, sv_init.cpp, sv_ccmds.cpp; *)
(* code/client/cl_parse.cpp, cl_main.cpp).                                 *)
(*                                                                         *)
(* The channel keeps messages in order and loses them (NetChan); client    *)
(* commands are repeated until they are acknowledged (ClientCommands), so  *)
(* a packet has all that were issued; server commands likewise             *)
(* (ServerCommands), so a snapshot tells the last serverId sent that way.  *)
(*                                                                         *)
(* All that matters of a server message number is how it compares to       *)
(* gamestateMessageNum: messages and acknowledgements are "before", at the *)
(* "gamestate" or "after", and a new gamestate puts all others before it.  *)
(* A map is named by the serverId it was started with, which also tells    *)
(* its checksumFeed; restartedServerId and checksumFeedServerId are equal. *)
(***************************************************************************)
EXTENDS Naturals, Sequences

CONSTANTS
    Pure,              \* sv_pure, which cannot change
    Downloads,         \* ways to download: subset of {"none", "id", "http"}
    MaxMaps,           \* bound: maps
    MaxRestarts,       \* bound: map restarts
    MaxVidRestarts,    \* bound: restarts of the client's video
    MaxInFlight        \* bound: messages in flight in a direction

ASSUME PureAssumption == Pure \in BOOLEAN
ASSUME DownloadsAssumption == Downloads \subseteq {"none", "id", "http"}

VARIABLES
    clState,           \* client: cls.state, "primed" once the map is loaded
    clDownload,        \* client: how it downloads files, cl_allowDownload
    clServerId,        \* client: cl.serverId
    clMap,             \* client: the map of its gamestate, clc.checksumFeed
    clWaits,           \* client: what it waits for before it loads the map
    clFetches,         \* client: a file comes from the server
    clAck,             \* client: clc.serverMessageSequence
    commands,          \* client: all reliable commands so far
    serverId,          \* server: sv.serverId
    restartedServerId, \* server: sv.restartedServerId
    systeminfo,        \* server: sv_serverid in configstring CS_SYSTEMINFO
    client,            \* server: the client_t
    toServer,          \* messages on their way to the server
    toClient,          \* messages on their way to the client
    maps,              \* history: maps started
    vidRestarts,       \* history: restarts of the client's video
    misled             \* history: it proved its files while misled, see below

clientVars == <<clState, clDownload, clServerId, clMap, clWaits, clFetches,
                clAck, commands, vidRestarts, misled>>
serverVars == <<serverId, restartedServerId, systeminfo, client, maps>>
vars == <<clientVars, serverVars, toServer, toClient>>

(* told: the last serverId sent in a "cs" command; executed:               *)
(* lastClientCommand; stray, a history: moves of another map were run;     *)
(* sends: a gamestate has to be sent at the end of this step.              *)
NewClient == [state |-> "connected", pureReceived |-> FALSE,
              pureAuthentic |-> FALSE, downloadName |-> FALSE,
              told |-> 0, executed |-> 0, stray |-> FALSE, sends |-> FALSE]

Init ==
    /\ clState = "connected" /\ clServerId = 0 /\ clMap = 0
    /\ clDownload \in Downloads /\ clWaits = "none" /\ clFetches = FALSE
    /\ clAck = "after" /\ commands = <<>>
    /\ serverId = 1 /\ restartedServerId = 1 /\ systeminfo = 1
    /\ client = NewClient
    /\ toServer = <<>> /\ toClient = <<>>
    /\ maps = 1 /\ vidRestarts = 0 /\ misled = FALSE

-----------------------------------------------------------------------------
(* The server: messages.                                                   *)

Before(messages, field) ==
    [i \in DOMAIN messages |-> [messages[i] EXCEPT ![field] = "before"]]

Gamestate == [type |-> "gamestate", number |-> "gamestate",
              serverId |-> systeminfo, map |-> restartedServerId]

KeepPureFlags(c) ==            \* mutant: the pure check is not made again
    [c EXCEPT !.state = "primed", !.sends = TRUE]

SV_SendClientGameState(c) ==
    [c EXCEPT !.state = "primed", !.pureReceived = FALSE,
              !.pureAuthentic = FALSE, !.sends = TRUE]

(* The client_t becomes c, and the gamestate c may owe is sent.            *)
Become(c) ==
    /\ client' = [c EXCEPT !.sends = FALSE]
    /\ IF c.sends
         THEN /\ toClient' = Append(Before(toClient, "number"), Gamestate)
              /\ toServer' = Before(Tail(toServer), "ack")
              /\ clAck' = "before"
         ELSE /\ toServer' = Tail(toServer)
              /\ UNCHANGED <<toClient, clAck>>

-----------------------------------------------------------------------------
(* The server: client commands, in the order they were issued.             *)

CountsAlways(cmd) == TRUE      \* mutant: an outdated cp is not ignored
CountsAsReceived(cmd) == cmd.serverId >= restartedServerId

(* The checksums of an honest client are right if they were made with the  *)
(* checksumFeed of this map.                                               *)
SV_VerifyPaks_f(c, cmd) ==
    IF ~Pure \/ ~CountsAsReceived(cmd)
      THEN c
      ELSE IF cmd.map = restartedServerId
             THEN [c EXCEPT !.pureReceived = TRUE, !.pureAuthentic = TRUE]
             ELSE [c EXCEPT !.state = "zombie"]

SV_ResetPureClient_f(c) ==
    [c EXCEPT !.pureReceived = FALSE, !.pureAuthentic = FALSE]

SV_ClientCommand(c, number) ==
    LET cmd == commands[number]
        d == [c EXCEPT !.executed = number]
    IN IF c.state = "zombie"
         THEN c
         ELSE CASE cmd.name = "cp" -> SV_VerifyPaks_f(d, cmd)
                [] cmd.name = "vdr" -> SV_ResetPureClient_f(d)
                [] cmd.name = "download" -> [d EXCEPT !.downloadName = TRUE]
                [] cmd.name = "nextdl" -> [d EXCEPT !.downloadName = FALSE]
                [] cmd.name = "donedl" -> SV_SendClientGameState(d)

SV_ClientCommands(c, upto) ==
    LET after[n \in c.executed .. upto] ==
            IF n = c.executed THEN c ELSE SV_ClientCommand(after[n - 1], n)
    IN IF upto > c.executed THEN after[upto] ELSE c

-----------------------------------------------------------------------------
(* The server: usercmds.                                                   *)

SV_ClientThink(c, map) ==
    [c EXCEPT !.stray = @ \/ map # restartedServerId]

AwaitsPaks(c) == Pure /\ ~c.pureReceived

SV_UserMove(c, map) ==
    CASE c.state = "zombie" \/ map = 0 -> c
      [] OTHER ->
           IF AwaitsPaks(c)
             THEN IF c.state = "active" THEN SV_SendClientGameState(c) ELSE c
             ELSE IF Pure /\ ~c.pureAuthentic
               THEN [c EXCEPT !.state = "zombie"]
               ELSE IF c.state = "connected"
                 THEN c
                 ELSE SV_ClientThink([c EXCEPT !.state = "active"], map)

(* A client that downloads may stay at the gamestate it has.               *)
StaysWhereItIs(c) ==
    \/ c.downloadName
    \/ c.executed > 0 /\ commands[c.executed].name = "nextdl"

BeforeRestart(id) == id >= restartedServerId /\ id < serverId

Outdated(p) == p.serverId # serverId /\ ~StaysWhereItIs(client)

MissedFirst(p) ==              \* mutant: a gamestate is sent only once
    p.ack = "after" /\ client.state = "connected"
MissedGamestate(p) == p.ack = "after"

SV_ExecuteClientMessage ==
    /\ toServer # <<>>
    /\ client.state # "zombie"
    /\ LET p == Head(toServer) IN
       CASE ~Outdated(p) ->
              Become(SV_UserMove(SV_ClientCommands(client, p.upto), p.map))
         [] Outdated(p) /\ ~BeforeRestart(p.serverId) /\ MissedGamestate(p) ->
              Become(SV_SendClientGameState(client))
         [] OTHER ->
              Become(client)
    /\ UNCHANGED <<clState, clDownload, clServerId, clMap, clWaits, clFetches,
                   commands, vidRestarts, misled, serverId,
                   restartedServerId, systeminfo, maps>>

-----------------------------------------------------------------------------
(* The server: everything else.                                            *)

SV_SendClientSnapshot ==
    /\ client.state # "zombie" /\ Len(toClient) < MaxInFlight
    /\ toClient' = Append(toClient,
         [type |-> "snapshot", number |-> "after",
          active |-> client.state = "active", told |-> client.told])
    /\ UNCHANGED <<clientVars, serverVars, toServer>>

SpawnWithOldSysteminfo ==      \* mutant: the configstring is left for SV_Frame
    /\ client.state # "zombie"
    /\ maps < MaxMaps /\ maps' = maps + 1
    /\ serverId' = serverId + 1
    /\ restartedServerId' = serverId'
    /\ client' = [client EXCEPT !.state = "connected"]
    /\ UNCHANGED <<clientVars, systeminfo, toServer, toClient>>

SV_SpawnServer ==
    /\ client.state # "zombie"
    /\ maps < MaxMaps /\ maps' = maps + 1
    /\ serverId' = serverId + 1
    /\ restartedServerId' = serverId'
    /\ systeminfo' = serverId'
    /\ client' = [client EXCEPT !.state = "connected"]
    /\ UNCHANGED <<clientVars, toServer, toClient>>

Restarts == serverId - maps

SV_MapRestart_f ==
    /\ client.state # "zombie"
    /\ Restarts < MaxRestarts
    /\ serverId' = serverId + 1
    /\ UNCHANGED <<clientVars, restartedServerId, systeminfo, client, maps,
                   toServer, toClient>>

(* SV_Frame updates the configstring after a map restart, and tells the    *)
(* clients that have been sent a gamestate.                                *)
SV_Frame ==
    /\ client.state # "zombie"
    /\ systeminfo # serverId
    /\ systeminfo' = serverId
    /\ client' = [client EXCEPT !.told = IF client.state = "connected"
                                           THEN @ ELSE serverId]
    /\ UNCHANGED <<clientVars, serverId, restartedServerId, maps, toServer,
                   toClient>>

-----------------------------------------------------------------------------
(* The client.                                                             *)

Command(name) == [name |-> name, serverId |-> 0, map |-> 0]
Paks(id, map) == [name |-> "cp", serverId |-> id, map |-> map]

(* The serverId says that it is of the map that is running, and its        *)
(* gamestate was lost: a restart of the map told it in a "cs" command.     *)
Unsound(id, map) == id >= restartedServerId /\ map # restartedServerId
Misled == Unsound(clServerId, clMap)

(* Com_Error(ERR_DROP) and CL_Disconnect; what the server makes of it is   *)
(* the business of module Connect.                                         *)
Leave == /\ clState' = "disconnected" /\ clWaits' = "none"
         /\ clFetches' = FALSE
         /\ UNCHANGED <<commands, misled>>

(* The map is loaded, which cancels a map download (CL_FlushMemory).       *)
Load(id, map, new) ==
    /\ clState' = "primed" /\ clWaits' = "none"
    /\ commands' = commands \o new \o <<Paks(id, map)>>
    /\ misled' = (misled \/ Unsound(id, map))

(* After a download from the server it asks for the gamestate again.       *)
CL_DownloadsComplete(id, map, new) ==
    IF clWaits = "id"
      THEN /\ clWaits' = "reload"
           /\ commands' = commands \o new \o <<Command("donedl")>>
           /\ UNCHANGED <<clState, misled>>
      ELSE Load(id, map, new)

(* The files of a map that it lacks, it lacks until they are downloaded.   *)
Lacking == clWaits \in {"id", "http", "cancelled"}

MayLack(m) == IF m.map = clMap THEN {Lacking}
                               ELSE {FALSE, clDownload # "none"}

(* CL_StartDownloads.  A map download may fail to start, and does while    *)
(* one is going on: the map is then loaded without its file.               *)
CL_BeginDownload ==
    /\ clDownload = "id"
    /\ clState' = "connected" /\ clWaits' = "id" /\ clFetches' = TRUE
    /\ commands' = Append(commands, Command("download"))
    /\ UNCHANGED misled

CL_MapDownload_Start ==
    /\ clDownload = "http" /\ clWaits # "http"
    /\ clState' = "connected" /\ clWaits' = "http"
    /\ UNCHANGED <<clFetches, commands, misled>>

LoadWithoutFile == clDownload = "http" /\ Leave

CL_ParseGamestate(m) ==
    /\ m.type = "gamestate"
    /\ clServerId' = m.serverId /\ clMap' = m.map
    /\ \E lacks \in MayLack(m) :
         IF lacks
           THEN CL_BeginDownload \/ CL_MapDownload_Start \/ LoadWithoutFile
           ELSE /\ CL_DownloadsComplete(m.serverId, m.map, <<>>)
                /\ UNCHANGED clFetches

(* The cgame runs the commands of a snapshot, and starts with the first    *)
(* snapshot of a client that is active on the server.                      *)
CL_ParseSnapshot(m) ==
    /\ m.type = "snapshot"
    /\ IF clState = "active" \/ (clState = "primed" /\ m.active)
         THEN /\ clState' = "active"
              /\ clServerId' = IF m.told > clServerId THEN m.told
                                                      ELSE clServerId
         ELSE UNCHANGED <<clState, clServerId>>
    /\ UNCHANGED <<clMap, clWaits, clFetches, commands, misled>>

CL_ParseServerMessage ==
    /\ toClient # <<>> /\ clState # "disconnected"
    /\ CL_ParseGamestate(Head(toClient)) \/ CL_ParseSnapshot(Head(toClient))
    /\ clAck' = Head(toClient).number
    /\ toClient' = Tail(toClient)
    /\ UNCHANGED <<clDownload, vidRestarts, serverVars, toServer>>

(* The last block of the last file has come.  If a gamestate came before   *)
(* and nothing was missing, nothing waits for the file any more, and the   *)
(* map is loaded, again if it was.                                         *)
DownloadEnds ==
    /\ clFetches /\ client.downloadName
    /\ clFetches' = FALSE
    /\ CL_DownloadsComplete(clServerId, clMap, <<Command("nextdl")>>)
    /\ UNCHANGED <<clDownload, clServerId, clMap, clAck, vidRestarts,
                   serverVars, toServer, toClient>>

CL_MapDownload_Continue ==
    /\ clWaits = "http"
    /\ Load(clServerId, clMap, <<>>)
    /\ UNCHANGED <<clDownload, clServerId, clMap, clFetches, clAck,
                   vidRestarts, serverVars, toServer, toClient>>

(* A download fails: the server refuses the file, or the map server does.  *)
DownloadFails ==
    /\ clWaits = "http" \/ (clFetches /\ client.downloadName)
    /\ Leave
    /\ UNCHANGED <<clDownload, clServerId, clMap, clAck, vidRestarts,
                   serverVars, toServer, toClient>>

(* The cgame starts anew, and waits for its first snapshot again.  A map   *)
(* download is cancelled (CL_ShutdownCGame), and nothing starts it again.  *)
CL_Vid_Restart_f ==
    /\ clState # "disconnected"
    /\ vidRestarts < MaxVidRestarts /\ vidRestarts' = vidRestarts + 1
    /\ IF clState = "connected"
         THEN /\ commands' = Append(commands, Command("vdr"))
              /\ clWaits' = IF clWaits = "http" THEN "cancelled" ELSE clWaits
              /\ UNCHANGED <<clState, misled>>
         ELSE Load(clServerId, clMap, <<Command("vdr")>>)
    /\ UNCHANGED <<clDownload, clServerId, clMap, clFetches, clAck,
                   serverVars, toServer, toClient>>

CL_WritePacket ==
    /\ Len(toServer) < MaxInFlight /\ clState # "disconnected"
    /\ toServer' = Append(toServer,
         [serverId |-> clServerId, ack |-> clAck, upto |-> Len(commands),
          map |-> IF clState = "connected" THEN 0 ELSE clMap])
    /\ UNCHANGED <<clientVars, serverVars, toClient>>

Lose ==
    /\ \/ toServer # <<>> /\ toServer' = Tail(toServer) /\ UNCHANGED toClient
       \/ toClient # <<>> /\ toClient' = Tail(toClient) /\ UNCHANGED toServer
    /\ UNCHANGED <<clientVars, serverVars>>

-----------------------------------------------------------------------------
Next ==
    \/ SV_ExecuteClientMessage \/ SV_SendClientSnapshot
    \/ SV_SpawnServer \/ SV_MapRestart_f \/ SV_Frame
    \/ CL_ParseServerMessage \/ DownloadEnds \/ CL_MapDownload_Continue
    \/ DownloadFails \/ CL_Vid_Restart_f \/ CL_WritePacket \/ Lose

Spec == Init /\ [][Next]_vars

(* Both programs keep running and downloads end; what is sent again and    *)
(* again gets through again and again.                                     *)
Fairness ==
    /\ WF_vars(CL_WritePacket) /\ WF_vars(SV_SendClientSnapshot)
    /\ WF_vars(SV_Frame) /\ WF_vars(DownloadEnds)
    /\ WF_vars(CL_MapDownload_Continue)
    /\ SF_vars(SV_ExecuteClientMessage)
    /\ SF_vars(CL_ParseServerMessage /\ Head(toClient).type = "gamestate")
    /\ SF_vars(CL_ParseServerMessage /\ Head(toClient).type = "snapshot")

LiveSpec == Spec /\ Fairness

-----------------------------------------------------------------------------
Numbers == {"before", "gamestate", "after"}
Ids == 0 .. serverId

TypeOK ==
    /\ clState \in {"connected", "primed", "active", "disconnected"}
    /\ clServerId \in Ids /\ clMap \in Ids
    /\ clWaits \in {"none", "id", "http", "reload", "cancelled"}
    /\ clFetches \in BOOLEAN /\ misled \in BOOLEAN
    /\ clAck \in Numbers
    /\ commands \in Seq([name : {"cp", "vdr", "download", "nextdl", "donedl"},
                         serverId : Ids, map : Ids])
    /\ systeminfo \in restartedServerId .. serverId
    /\ client \in [state : {"connected", "primed", "active", "zombie"},
                   pureReceived : BOOLEAN, pureAuthentic : BOOLEAN,
                   downloadName : BOOLEAN, told : Ids,
                   executed : 0 .. Len(commands), stray : BOOLEAN,
                   sends : {FALSE}]
    /\ toServer \in Seq([serverId : Ids, ack : Numbers, map : Ids,
                         upto : 0 .. Len(commands)])
    /\ toClient \in Seq([type : {"gamestate"}, number : Numbers,
                         serverId : Ids, map : Ids]
                        \union [type : {"snapshot"}, number : Numbers,
                                active : BOOLEAN, told : Ids])

(* On a pure server, usercmds reach the game only if they were made in the *)
(* map that is running, whatever was lost or crossed a map change.         *)
MovesOfThisMap == Pure => ~client.stray

(* A client that is active on a pure server has loaded the gamestate of    *)
(* the map that is running and has proved its files for that map: it is    *)
(* never taken out of the game because a "cp" has not come yet.            *)
ActiveHoldsGamestate ==
    (Pure /\ client.state = "active") =>
        client.pureReceived /\ client.pureAuthentic /\ clMap = restartedServerId

(* An honest client is never dropped as impure, whatever is lost, and even *)
(* if its video restarts across a map change, unless it proved its files   *)
(* while its serverId was of the map that is running and its gamestate was *)
(* of another; and that takes a map restart.                               *)
DroppedOnlyIfMisled ==
    /\ client.state = "zombie" => misled
    /\ misled => Restarts > 0

InWorld == /\ client.state = "active" /\ clState = "active"
           /\ clMap = restartedServerId /\ clServerId = serverId

(* The other two of three ways to wait for ever: the gamestate sent after  *)
(* "donedl" was lost, and the map was restarted while the client was       *)
(* loading it.                                                             *)
ReloadLost == /\ clWaits = "reload" /\ ~StaysWhereItIs(client)
              /\ clAck = "after"
LeftBehind == /\ BeforeRestart(clServerId) /\ client.state = "primed"
              /\ clWaits # "reload" /\ ~StaysWhereItIs(client)

(* Whatever is lost, a client gets into the world of the map that is       *)
(* running, and a client in the world catches every map restart, unless it *)
(* leaves over a download or cancels it; the three ways to wait for ever   *)
(* that are named above are the only others.                               *)
EventuallyInWorld ==
    ~InWorld ~> \/ InWorld \/ client.state = "zombie"
                \/ Misled \/ ReloadLost \/ LeftBehind
                \/ clState = "disconnected" \/ clWaits = "cancelled"

(* The comment in SV_ExecuteClientMessage, "they just haven't caught the   *)
(* map_restart yet": they catch it in the end.                             *)
RestartCaught ==
    BeforeRestart(clServerId)
        ~> (~BeforeRestart(clServerId) \/ client.state = "zombie")
=============================================================================
