------------------------------ MODULE Snapshot ------------------------------
(***************************************************************************)
(* Delta compressed snapshots from the server to one client.  The server   *)
(* writes a snapshot as the difference from an earlier one the client says *)
(* it has (SV_BuildClientSnapshot, SV_WriteSnapshotToClient); the client   *)
(* rebuilds it from its own copy of that one (CL_ParseSnapshot).  Both     *)
(* keep their snapshots in rings, and the entities of the snapshots in     *)
(* another ring, which at the server all the clients share.                *)
(*                                                                         *)
(* An entity is a number and one field.  The player state, which is        *)
(* written from the same frame, and the areas are left out.  "truth" is    *)
(* history: the entities the server meant a snapshot to have; so is        *)
(* "overtaken": the client wrote over what it still had to read.           *)
(* The channels are netchans: they lose messages, and keep order.          *)
(***************************************************************************)
EXTENDS Integers, Sequences, SequencesExt, FiniteSets

CONSTANTS
    Worlds,                 \* what the client can see: lists of entities,
                            \* by number
    Others,                 \* what the other clients can see
    PACKET_BACKUP,          \* snapshots kept, at both ends
    BACKUP_MARGIN,          \* 3: the server stops using a base this early
    numSnapshotEntities,    \* entities the server keeps, for all clients
    MAX_PARSE_ENTITIES,     \* entities the client keeps
    PARSE_MARGIN,           \* 128: the client stops using a base this early
    MaxMessages,            \* bound: number of messages to the client
    MaxMaps,                \* bound: number of maps loaded
    MaxInFlight             \* bound: messages in flight in a direction

GONE == 1023     \* MAX_GENTITIES - 1
LATER == 99999   \* "oldnum" past the end of a list
Entity(number, value) == [number |-> number, value |-> value]
Baseline == 0
NoEntity == Entity(0, Baseline)

ASSUME BackupAssumption ==
    PACKET_BACKUP \in Nat \ {0} /\ BACKUP_MARGIN \in 0 .. PACKET_BACKUP
ASSUME RingsAssumption ==
    /\ numSnapshotEntities \in Nat \ {0} /\ MAX_PARSE_ENTITIES \in Nat \ {0}
    /\ PARSE_MARGIN \in Nat \ {0}
ASSUME ViewsAssumption ==
    Worlds \cup Others \subseteq Seq([number : 0 .. GONE - 1, value : Nat])
ASSUME WorldAssumption ==
    \A o \in Others, w \in Worlds : Len(o) + Len(w) <= numSnapshotEntities
(* SV_BuildClientSnapshot sorts what the client sees by number.            *)
ASSUME OrderAssumption ==
    \A w \in Worlds : \A i, j \in DOMAIN w :
        i < j => w[i].number < w[j].number

VARIABLES
    state,                  \* server: client_t.state
    serverId,               \* server: the map being played
    gentity,                \* server: the client has an entity in this map
    outgoingSequence,       \* server: number of the next message
    gamestateMessageNum,    \* server: number of the last gamestate
    deltaMessage,           \* server: the client's base, or -1
    frames,                 \* server: the last snapshots sent
    nextSnapshotEntities,   \* server: entities built so far
    snapshotEntities,       \* server: the last of them
    toClient,               \* messages on their way to the client
    toServer,               \* usercmds on their way to the server
    clServerId,             \* client: the map of its gamestate
    serverMessageSequence,  \* client: last message received
    snap,                   \* client: the last snapshot it could use
    snapshots,              \* client: the last snapshots, and which are good
    parseEntitiesNum,       \* client: entities parsed so far
    parseEntities           \* client: the last of them

serverVars == <<state, serverId, gentity, outgoingSequence,
                gamestateMessageNum, deltaMessage, frames,
                nextSnapshotEntities, snapshotEntities>>
clientVars == <<clServerId, serverMessageSequence, snap, snapshots,
                parseEntitiesNum, parseEntities>>
vars == <<serverVars, toClient, toServer, clientVars>>

NoSnapshot == [valid |-> FALSE, messageNum |-> 0, first |-> 0, num |-> 0,
               truth |-> <<>>, overtaken |-> FALSE]

FrameSlot(n) == n % PACKET_BACKUP

(* What Com_Memset leaves of clientActive_t.                               *)
ClearedSnapshots == [i \in 0 .. PACKET_BACKUP - 1 |-> NoSnapshot]
ClearedEntities == [i \in 0 .. MAX_PARSE_ENTITIES - 1 |-> NoEntity]

(* A client that has just connected: it has an entity, and no gamestate.   *)
Init ==
    /\ state = "CONNECTED" /\ serverId = 1 /\ gentity = TRUE
    /\ outgoingSequence = 1 /\ gamestateMessageNum = -1 /\ deltaMessage = 0
    /\ frames = [i \in 0 .. PACKET_BACKUP - 1 |->
                   [first |-> 0, num |-> 0, truth |-> <<>>]]
    /\ nextSnapshotEntities = 0
    /\ snapshotEntities = [i \in 0 .. numSnapshotEntities - 1 |-> NoEntity]
    /\ toClient = <<>> /\ toServer = <<>>
    /\ clServerId = 0 /\ serverMessageSequence = 0
    /\ snap = NoSnapshot /\ snapshots = ClearedSnapshots
    /\ parseEntitiesNum = 0 /\ parseEntities = ClearedEntities

-----------------------------------------------------------------------------
(* The server.                                                             *)

(* The entities of list, copied out behind those of all snapshots so far.  *)
(* A list is at most as long as the ring.                                  *)
CopyOut(list) ==
    LET At(slot) == {i \in DOMAIN list :
                       (nextSnapshotEntities + i - 1) % numSnapshotEntities
                         = slot}
    IN /\ nextSnapshotEntities' = nextSnapshotEntities + Len(list)
       /\ snapshotEntities' =
            [slot \in DOMAIN snapshotEntities |->
               IF At(slot) # {} THEN list[CHOOSE i \in At(slot) : TRUE]
                                ELSE snapshotEntities[slot]]

(* The snapshots of other clients, then this client's.  A client without   *)
(* an entity gets an empty one, that keeps the position the slot had.      *)
SV_BuildClientSnapshot(others, world) ==
    LET slot == FrameSlot(outgoingSequence) IN
    IF gentity
      THEN /\ CopyOut(others \o world)
           /\ frames' = [frames EXCEPT ![slot] =
                [first |-> nextSnapshotEntities + Len(others),
                 num |-> Len(world), truth |-> world]]
      ELSE /\ CopyOut(others)
           /\ frames' = [frames EXCEPT ![slot].num = 0, ![slot].truth = <<>>]

(* SV_EmitPacketEntities: an entity of both lists is written if it has     *)
(* changed, a new one from its baseline, and one that is gone is removed.  *)
(* The changes are written by number: a function of the numbers.           *)
Numbers(list) == {list[i].number : i \in DOMAIN list}
ValueIn(list, n) ==
    LET i == CHOOSE i \in DOMAIN list : list[i].number = n IN list[i].value

Changed(old, new) ==
    {n \in Numbers(old) \cup Numbers(new) :
       n \in Numbers(old) \cap Numbers(new)
         => ValueIn(old, n) # ValueIn(new, n)}

Change(kind, value) == [kind |-> kind, value |-> value]

ChangeOf(old, new, n) ==
    IF n \notin Numbers(new) THEN Change("remove", 0)
    ELSE IF n \notin Numbers(old) /\ ValueIn(new, n) = Baseline
           THEN Change("same", 0)
    ELSE Change("set", ValueIn(new, n))

SV_EmitPacketEntities(old, new) ==
    [n \in Changed(old, new) |-> ChangeOf(old, new, n)]

FrameEntities(frame) ==
    [i \in 1 .. frame.num |->
       snapshotEntities'[(frame.first + i - 1) % numSnapshotEntities]]

(* The base SV_WriteSnapshotToClient uses for the frame just built, if any.*)
HasBase ==
    /\ deltaMessage > 0 /\ state = "ACTIVE"
    /\ outgoingSequence - deltaMessage < PACKET_BACKUP - BACKUP_MARGIN
    /\ frames'[FrameSlot(deltaMessage)].first >
         nextSnapshotEntities' - numSnapshotEntities

SnapshotMessage ==
    LET frame == frames'[FrameSlot(outgoingSequence)]
        base == IF HasBase THEN FrameEntities(frames'[FrameSlot(deltaMessage)])
                           ELSE <<>>
    IN [sequence |-> outgoingSequence, kind |-> "snapshot",
        lastframe |-> IF HasBase THEN outgoingSequence - deltaMessage ELSE 0,
        changes |-> SV_EmitPacketEntities(base, FrameEntities(frame)),
        truth |-> frame.truth]

SendMessage(m) ==
    /\ Len(toClient) < MaxInFlight /\ outgoingSequence < MaxMessages
    /\ toClient' = Append(toClient, m)
    /\ outgoingSequence' = outgoingSequence + 1

(* One round of SV_SendClientMessages.  A snapshot that does not fit a     *)
(* message leaves it empty.                                                *)
SV_SendClientMessages ==
    /\ \E others \in Others, world \in Worlds :
          SV_BuildClientSnapshot(others, world)
    /\ \/ SendMessage(SnapshotMessage)
       \/ SendMessage([sequence |-> outgoingSequence, kind |-> "empty"])
    /\ UNCHANGED <<state, serverId, gentity, gamestateMessageNum,
                   deltaMessage, toServer, clientVars>>

SV_SpawnServer ==
    /\ serverId < MaxMaps
    /\ serverId' = serverId + 1
    /\ state' = "CONNECTED" /\ gentity' = FALSE
    /\ nextSnapshotEntities' = 0
    /\ snapshotEntities' = [i \in DOMAIN snapshotEntities |-> NoEntity]
    /\ UNCHANGED <<outgoingSequence, gamestateMessageNum, deltaMessage, frames,
                   toClient, toServer, clientVars>>

(* Usercmds that were written for another map are ignored, and may show    *)
(* that the client has lost the last gamestate.                            *)
SV_SendClientGameState ==
    /\ SendMessage([sequence |-> outgoingSequence, kind |-> "gamestate",
                    serverId |-> serverId])
    /\ gamestateMessageNum' = outgoingSequence
    /\ state' = "PRIMED"

OutdatedUsercmds(m) ==
    /\ m.serverId # serverId
    /\ IF m.messageAcknowledge > gamestateMessageNum
         THEN SV_SendClientGameState
         ELSE UNCHANGED <<state, outgoingSequence, gamestateMessageNum,
                          toClient>>
    /\ UNCHANGED <<gentity, deltaMessage>>

(* SV_UserMove.                                                            *)
FirstUsercmds(m) ==
    /\ m.serverId = serverId /\ state = "PRIMED"
    /\ state' = "ACTIVE" /\ gentity' = TRUE /\ deltaMessage' = -1
    /\ UNCHANGED <<outgoingSequence, gamestateMessageNum, toClient>>

LaterUsercmds(m) ==
    /\ m.serverId = serverId /\ state = "ACTIVE"
    /\ deltaMessage' = IF m.delta THEN m.messageAcknowledge ELSE -1
    /\ UNCHANGED <<state, gentity, outgoingSequence, gamestateMessageNum,
                   toClient>>

SV_ExecuteClientMessage ==
    LET m == Head(toServer) IN
    /\ toServer # <<>>
    /\ OutdatedUsercmds(m) \/ FirstUsercmds(m) \/ LaterUsercmds(m)
    /\ toServer' = Tail(toServer)
    /\ UNCHANGED <<serverId, frames, nextSnapshotEntities, snapshotEntities,
                   clientVars>>

-----------------------------------------------------------------------------
(* The client.                                                             *)

(* CL_DeltaEntity: an entity that is removed is written, but not counted.  *)
Store(s, e) ==
    [s EXCEPT !.ring[s.next % MAX_PARSE_ENTITIES] = e,
              !.next = IF e.number = GONE THEN s.next ELSE s.next + 1]

Apply(change, n, from) ==
    CASE change.kind = "remove" -> Entity(GONE, 0)
      [] change.kind = "same"   -> Entity(n, from.value)
      [] change.kind = "set"    -> Entity(n, change.value)

OldEntity(s, old) == s.ring[(old.first + s.index) % MAX_PARSE_ENTITIES]

(* The next entity of the old list; its number is read now, the rest when  *)
(* it is used.                                                             *)
Look(s, old) ==
    [s EXCEPT !.oldnum = IF s.index >= old.num THEN LATER
                                               ELSE OldEntity(s, old).number]
NextOld(s, old) == Look([s EXCEPT !.index = s.index + 1], old)

(* The number of the next change, of those that have not been read.        *)
NextChange(s) ==
    IF s.left = {} THEN LATER
                   ELSE CHOOSE n \in s.left : \A m \in s.left : n <= m

(* CL_ParsePacketEntities: one entity, of the old list or of the changes.  *)
ParseEntity(s, changes, old) ==
    LET n == NextChange(s)
        Read(t) == [t EXCEPT !.left = t.left \ {n}]
        fromOld == Apply(changes[n], n, OldEntity(s, old))
        fromBaseline == Apply(changes[n], n, Entity(n, Baseline))
    IN IF s.oldnum < n THEN NextOld(Store(s, OldEntity(s, old)), old)
       ELSE IF n = LATER THEN s
       ELSE IF s.oldnum = n THEN Read(NextOld(Store(s, fromOld), old))
       ELSE Read(Store(s, fromBaseline))

(* All of them, from the ring and the position of the client on.           *)
CL_ParsePacketEntities(changes, old) ==
    LET start == [ring |-> parseEntities, next |-> parseEntitiesNum,
                  index |-> 0, oldnum |-> LATER, left |-> DOMAIN changes]
        entities == Cardinality(DOMAIN changes) + old.num
        parsed[n \in 0 .. entities] ==
          IF n = 0 THEN Look(start, old)
                   ELSE ParseEntity(parsed[n - 1], changes, old)
    IN parsed[entities]

Base(m) == snapshots[FrameSlot(m.sequence - m.lastframe)]

(* "delta from invalid frame" and "delta frame too old".                   *)
BaseKept(m) ==
    /\ Base(m).valid
    /\ Base(m).messageNum = m.sequence - m.lastframe

UsableIfKept(m) == m.lastframe > 0 => BaseKept(m)   \* mutant: no margin

Usable(m) ==
    m.lastframe > 0 =>
        /\ BaseKept(m)
        /\ parseEntitiesNum - Base(m).first
             <= MAX_PARSE_ENTITIES - PARSE_MARGIN

(* The parsing writes an entity of list into the slot of one of the old    *)
(* list that comes later, which it has not read yet.  PARSE_MARGIN is      *)
(* there to prevent this; that it is enough is not checked.                *)
Overtakes(old, list) ==
    \E i \in DOMAIN old.truth, j \in DOMAIN list :
        /\ list[j].number < old.truth[i].number
        /\ old.first + i - 1 + MAX_PARSE_ENTITIES
             \in parseEntitiesNum .. parseEntitiesNum + j - 1

(* The snapshots between the last one and message n, which never came, are *)
(* marked as not valid.                                                    *)
Between(n) ==
    LET from == IF n - (snap.messageNum + 1) >= PACKET_BACKUP
                  THEN n - (PACKET_BACKUP - 1) ELSE snap.messageNum + 1
    IN {FrameSlot(i) : i \in from .. n - 1}

CL_ParseSnapshot(m) ==
    LET old == IF m.lastframe > 0 THEN Base(m) ELSE NoSnapshot
        parsed == CL_ParsePacketEntities(m.changes, old)
    IN /\ parseEntities' = parsed.ring
       /\ parseEntitiesNum' = parsed.next
       /\ IF Usable(m)
            THEN /\ snap' = [valid |-> TRUE, messageNum |-> m.sequence,
                             first |-> parseEntitiesNum,
                             num |-> parsed.next - parseEntitiesNum,
                             truth |-> m.truth,
                             overtaken |-> \/ old.overtaken
                                           \/ Overtakes(old, m.truth)]
                 /\ snapshots' =
                      [i \in DOMAIN snapshots |->
                         IF i = FrameSlot(m.sequence) THEN snap'
                         ELSE IF i \in Between(m.sequence)
                           THEN [snapshots[i] EXCEPT !.valid = FALSE]
                           ELSE snapshots[i]]
            ELSE UNCHANGED <<snap, snapshots>>
       /\ UNCHANGED clServerId

CL_ParseGamestate(m) ==
    /\ clServerId' = m.serverId
    /\ snap' = NoSnapshot /\ snapshots' = ClearedSnapshots
    /\ parseEntitiesNum' = 0 /\ parseEntities' = ClearedEntities

CL_ParseServerMessage ==
    LET m == Head(toClient) IN
    /\ toClient # <<>>
    /\ \/ m.kind = "snapshot" /\ CL_ParseSnapshot(m)
       \/ m.kind = "gamestate" /\ CL_ParseGamestate(m)
       \/ /\ m.kind = "empty"
          /\ UNCHANGED <<clServerId, snap, snapshots, parseEntitiesNum,
                         parseEntities>>
    /\ serverMessageSequence' = m.sequence
    /\ toClient' = Tail(toClient)
    /\ UNCHANGED <<serverVars, toServer>>

AlwaysAsksForDelta == snap.valid   \* mutant: any last snapshot will do
AsksForDelta == snap.valid /\ snap.messageNum = serverMessageSequence

(* A packet with usercmds.  The client asks for a snapshot that needs no   *)
(* base when the last message was not a snapshot it could use.             *)
CL_WritePacket ==
    /\ Len(toServer) < MaxInFlight
    /\ toServer' = Append(toServer,
         [serverId |-> clServerId,
          messageAcknowledge |-> serverMessageSequence,
          delta |-> AsksForDelta])
    /\ UNCHANGED <<serverVars, toClient, clientVars>>

-----------------------------------------------------------------------------
Lose ==
    \/ /\ \E i \in DOMAIN toServer : toServer' = RemoveAt(toServer, i)
       /\ UNCHANGED toClient
    \/ /\ \E i \in DOMAIN toClient : toClient' = RemoveAt(toClient, i)
       /\ UNCHANGED toServer

Next ==
    \/ SV_SendClientMessages
    \/ SV_SpawnServer
    \/ SV_ExecuteClientMessage
    \/ CL_ParseServerMessage
    \/ CL_WritePacket
    \/ Lose /\ UNCHANGED <<serverVars, clientVars>>

Spec == Init /\ [][Next]_vars

-----------------------------------------------------------------------------
(* The types of the state of both ends.                                    *)
TypeOK ==
    LET Entities == [number : Nat, value : Nat]
        Views == Worlds \cup {<<>>}
        Frames == [first : Nat, num : Nat, truth : Views]
        Snapshots == [valid : BOOLEAN, messageNum : Nat, first : Nat,
                      num : Nat, truth : Views, overtaken : BOOLEAN]
    IN /\ state \in {"CONNECTED", "PRIMED", "ACTIVE"}
       /\ gentity \in BOOLEAN
       /\ serverId \in Nat /\ clServerId \in Nat
       /\ outgoingSequence \in Nat /\ serverMessageSequence \in Nat
       /\ deltaMessage \in Nat \cup {-1}
       /\ gamestateMessageNum \in Nat \cup {-1}
       /\ frames \in [0 .. PACKET_BACKUP - 1 -> Frames]
       /\ nextSnapshotEntities \in Nat /\ parseEntitiesNum \in Nat
       /\ snapshotEntities \in [0 .. numSnapshotEntities - 1 -> Entities]
       /\ parseEntities \in [0 .. MAX_PARSE_ENTITIES - 1 -> Entities]
       /\ snap \in Snapshots
       /\ snapshots \in [0 .. PACKET_BACKUP - 1 -> Snapshots]

(* A snapshot CL_GetSnapshot still gives to the cgame.                     *)
Available(s) ==
    /\ s.valid
    /\ snap.messageNum - s.messageNum < PACKET_BACKUP
    /\ parseEntitiesNum - s.first < MAX_PARSE_ENTITIES

(* A snapshot CL_GetSnapshot gives to the cgame has the entities the       *)
(* server gave it, whatever was lost, delayed or pushed out of a ring on   *)
(* the way (cl_parse.cpp:247, "valid delta parse"), unless the parsing of  *)
(* it, or of one it was made from, overtook the reading.                   *)
SnapshotsExact ==
    \A i \in DOMAIN snapshots :
        LET s == snapshots[i] IN
        Available(s) /\ ~s.overtaken =>
            s.truth = [j \in 1 .. s.num |->
                         parseEntities[(s.first + j - 1) % MAX_PARSE_ENTITIES]]

(* The client has the base of every delta compressed snapshot that reaches *)
(* it (cl_parse.cpp:238, "should never happen").                           *)
BasesKept ==
    (toClient # <<>> /\ Head(toClient).kind = "snapshot"
                     /\ Head(toClient).lastframe > 0) => BaseKept(Head(toClient))
=============================================================================
