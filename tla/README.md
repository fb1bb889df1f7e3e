# Formal models of the CNQ3 network protocol

CNQ3 is a Quake 3 engine: a server program and a client program (often the same
executable) that play a game over UDP. These modules model the protocol between
the two: how clients connect and leave, how messages are cut into packets, how
commands are made reliable, how snapshots of the game are compressed against
earlier ones, how maps change and restart, how files are downloaded, and the
frame in which one process does all of this. Paths below are relative to
`src/code/`.

## 1. Inventory

Everything that talks over the network runs in one thread per program, a frame
at a time (`Com_Frame`, which calls `SV_Frame` and `CL_Frame`). The concurrency is
between the two programs: each acts on what it has last heard, packets are lost,
repeated and reordered, and no call waits for an answer. Inside one program,
handlers of events may read more events, run the event loop again, or abandon
the frame.

| Component | Source | State | Operations |
|---|---|---|---|
| netchan | `qcommon/net_chan.cpp` | sequence numbers, the message being fragmented, the one being collected | `Netchan_Transmit`, `Netchan_TransmitNextFragment`, `Netchan_Process` |
| loopback, delay queue | same file | a ring of 16 packets in each direction, a list ordered by time | `NET_SendLoopPacket`, `NET_GetLoopPacket`, `NET_QueuePacket`, `NET_FlushPacketQueue` |
| server side of the channel | `server/sv_net_chan.cpp` | list of messages that wait | `SV_Netchan_Transmit`, `SV_Netchan_TransmitNextFragment`, `SV_Netchan_Encode`, `SV_Netchan_Decode` |
| client side of the channel | `client/cl_net_chan.cpp` | none | `CL_Netchan_Encode`, `CL_Netchan_Decode` |
| client commands | `client/cl_main.cpp`, `cl_input.cpp`, `server/sv_client.cpp` | ring of unacknowledged commands; last command executed | `CL_AddReliableCommand`, `CL_WritePacket`, `CL_Disconnect`, `SV_ClientCommand` |
| server commands, gamestate, configstrings | `server/sv_main.cpp`, `sv_init.cpp`, `sv_client.cpp`, `client/cl_parse.cpp`, `cl_cgame.cpp` | ring at each end, `serverCommandsBad`, configstrings at each end | `SV_AddServerCommand`, `SV_SetConfigstring`, `SV_SendClientGameState`, `CL_ParseCommandString`, `CL_ParseGamestate`, `CL_GetServerCommand` |
| snapshots | `server/sv_snapshot.cpp`, `qcommon/msg.cpp`, `client/cl_parse.cpp` | ring of snapshots and ring of entities at each end | `SV_BuildClientSnapshot`, `SV_WriteSnapshotToClient`, `CL_ParseSnapshot`, `CL_ParsePacketEntities` |
| downloads | `server/sv_client.cpp`, `client/cl_parse.cpp`, `cl_main.cpp` | window of blocks; file and block awaited | `SV_WriteDownloadToClient`, `download`, `nextdl`, `stopdl`, `donedl`, `CL_ParseDownload`, `CL_NextDownload` |
| client lifecycle | `server/sv_client.cpp`, `sv_main.cpp`, `client/cl_main.cpp` | challenges, `client_t.state`, `connstate_t` | `SV_GetChallenge`, `SV_DirectConnect`, `SV_DropClient`, `SV_CheckTimeouts`, `SV_VerifyPaks_f` |
| map load and restart | `server/sv_init.cpp`, `sv_ccmds.cpp` | `serverId`, `restartedServerId`, the array of clients | `SV_SpawnServer`, `SV_MapRestart_f`, `SV_ChangeMaxClients` |
| frame loop | `qcommon/common.cpp`, `linux/linux_shared.cpp` | event queue, ring of pushed events, the place in the frame | `Com_Frame`, `Com_EventLoop`, `Com_Milliseconds`, `Com_ErrorExt` |
| other common code | `qcommon/` | zone and hunk memory, command buffer, cvars, files, VM | `Cbuf_Execute`, ... |
| presentation, renderer, bots, platform, vendored | `client/snd_*`, `renderer/`, `botlib/`, `linux/`, `win32/`, ... | - | - |

How they interact. The layers above hand whole messages to the netchan and get
whole messages from it. A message from the server starts with the number of the
last client command executed, then repeats all unacknowledged server commands,
then carries a gamestate or a snapshot and perhaps download blocks. A message from
the client starts with `serverId`, the last message and the last server command
it has received, then repeats all unacknowledged client commands, then carries
usercmds. Both are scrambled with a command the other end has acknowledged, so
the command rings are also key rings. Acknowledgements are shared state in
effect: they free ring slots, choose the delta base of the next snapshot and
select the key.

What makes each part correct, and what is hard about it:

- *netchan*: never delivers anything but a message that was sent, in order, at
  most once; hard because fragments of one and of several messages mix.
- *list of waiting messages*: nothing lost, order kept, key right; hard because
  a message is encoded later than it is made.
- *commands*: exactly once, in order, before the usercmds or the snapshot that
  follow them; hard at the limit of the rings and across gamestates.
- *configstrings*: the client runs a snapshot with configstrings at least as new
  as those it was made with; hard because two paths (gamestate and command)
  set them and a map change cuts in.
- *snapshots*: rebuilt exactly; hard because a snapshot is a difference from one
  chosen by an acknowledgement that may be old, and three rings are reused.
- *connecting*: both ends agree on which connection they are in, every attempt is
  answered, slots become free; hard because
  addresses, ports, qports and challenges are matched by different rules, packets
  of an old connection linger, and a dropped client is a zombie for a while.
- *gamestates and pure checks*: moves count only on the map they were made on, an
  honest client is not dropped and gets into the world; hard because the server
  infers from `serverId` and an acknowledgement whether a gamestate was lost.
- *frame loop*: events in order, their data freed once, no packet for a server
  that is gone heard by the next; hard because loops nest and errors jump out.
- *downloads*: files intact, acknowledgements matched, all files in the end; hard
  because blocks are repeated and carry no file name.

`PROJECT.json` lists every component, modelled or not, and under "hazards" each
thing that is hard to test, at its line.

## 2. Modules

| Module | Models | Variables correspond to |
|---|---|---|
| `MessageChannel` | abstract: what a netchan promises | messages handed over and handed up |
| `NetChan` | one direction of a netchan over a bad network | `netchan_t`; `net` holds every packet ever sent, any of which may arrive any number of times |
| `NetChan_proofs` | theorems about `NetChan` and `SvNetChan` | |
| `SvNetChan` (extends `NetChan`) | list of waiting messages, the number each is filed under, scrambling | `netchan_start_queue`, `lastClientCommand`, `gamestateMessageNum`, `frames` |
| `ReliableCommands` | abstract: what either command ring promises | commands added, taken, and whether the connection is kept |
| `ClientCommands` | client to server commands | `clc.reliable*`, `cl->lastClientCommand` |
| `ClientCommands_proofs` | theorems about `ClientCommands` | |
| `ServerCommands` | server to client commands, gamestates, configstrings, map changes | `client_t.reliable*`, `clc.serverCommand*`, `cl`, and the part of the cgame the interface shows |
| `ServerCommands_proofs` | theorems about `ServerCommands` | |
| `Snapshot` | delta compressed snapshots | `frames`, `svs.snapshotEntities`, `cl.snapshots`, `cl.parseEntities` |
| `Snapshot_proofs` | theorems about `Snapshot` | |
| `Download` | downloads | `client_t.download*`, `clc.download*` |
| `Download_proofs` | theorems about `Download` | |
| `Connect` | challenge, connect, reconnect, drop, timeout, zombies; one slot, one client that crashes, another that asks for challenges, and a network that loses, repeats and reorders connectionless packets | `svs.challenges`, `client_t`, `cls.state`, `clc.*`, packets of both kinds in flight |
| `Connect_proofs` | theorems about `Connect` | |
| `GameState` | gamestate, pure check, map change and restart, video restart; downloads that go on, end, fail, are cancelled or met by another gamestate | `sv.serverId`, `restartedServerId`, `client_t`, `clc`, `cl.serverId` |
| `GameState_proofs` | theorems about `GameState` | |
| `FrameLoop` | frame, event loops, event queues, loopback rings, errors | `eventQue`, `com_pushedEvents`, `loopbacks`, `com_sv_running`; `loops` is the call stack of event loops |
| `FrameLoop_proofs` | theorems about `FrameLoop` | |

One action is one handler: `CL_ParseServerMessage`, say, is everything the client
does with one message. Where a handler has several ways through, each is a
definition with its guard (`DiscardOld`, `KeepWaiting`, `AppendFragment`,
`CompleteMessage`, `AcceptWhole` are the ways through `Netchan_Process`).

A loop of the code is written in the form that can be reasoned about. Where what
it leaves behind can be said at once, it is: the slots a run of commands takes
(`Put` in `ServerCommands`), the events a ring keeps and frees (`AddEvents` in
`FrameLoop`), the window after blocks have been read (`SendBlocks` in `Download`). Where
each round depends on the one before, it is a recursive function: the commands
of a packet in `GameState`, the parts of a message in `Download` (`after`), the
entities of a snapshot in `CL_ParsePacketEntities` (`parsed`). The loop that compares two
lists of entities (`SV_EmitPacketEntities`) is a function of the entity numbers, which is
the same since both lists are sorted (`OrderAssumption`). No module has a recursive operator.
Lemmas that several proof modules need, such as that numbers less than a ring apart have
different slots, are stated at the start of each.

`NetChan` models the network; `NetChan_proofs!Refinement` shows that what is on
top of it is a `MessageChannel`, that is, messages that may be lost but keep
their order. `ClientCommands`, `ServerCommands` and `Snapshot` use exactly that
abstraction for their channels: a sequence of messages in flight, a `Lose` action
that removes any of them, and a receive action that takes the first. `Download`
goes one layer higher: its commands to the server are reliable (`ClientCommands`
shows that) and only its messages to the client are lost. `GameState` does the same,
and its messages are numbered only relative to the last gamestate. `Connect` is
below the channel: any packet may be lost, a connectionless one may also come again or
at another place among the packets in flight (`RepeatPacket`), and sequenced packets,
whose order is the netchan's doing, carry the connection they belong to. `ClientCommands` and `ServerCommands`
both implement `ReliableCommands`: commands are taken in the order they were added, each
once, as long as the connection is kept. The loopback rings of `FrameLoop` implement
`MessageChannel`, as does the netchan: a local client loses packets when a ring is
overrun and in no other way.

Data abstractions. Bytes are model values. A command's text is the number it was added
under, so reading a wrong ring slot shows. One configstring with numbered values stands
for all, some of which are long and sent in chunks. An entity is a number and one field.
A file is a number of blocks. A key is the number of the command it is made of.
Printing, demos, rate estimation and the layout of bits are left out. Histories (`sent`,
`delivered`, `executed`, `overran`, `truth`, `overtaken`, `mistaken`, `misled` and the like) are marked as such; no guard
of the program's actions reads them, except that in `ClientCommands` `quitCommand` says
which command is the "disconnect" one.

## 3. Runs

Constants are small, but each bound lets the thing it bounds happen more than
once. Every run takes about three minutes or less with two workers.

| Run | Question | Bounds, and why they are enough |
|---|---|---|
| `MCNetChan` | does fragmentation deliver only what was sent, in order, once, and implement `MessageChannel`? | fragment size 2; messages of 0 to 4 bytes: empty, short, exactly one and two fragments, with remainder, and two different ones of one length; 4 messages in a row, so fragments of several messages mix |
| `MCSvNetChan` | does the list lose, repeat or misorder a message, and is what the server concludes from acknowledgements true of messages that waited? | 4 messages of 1, 2 and 7 bytes (one, two and four packets), so that two messages can wait, one can be stacked on a last fragment, and one that fits a packet can leave the list before another; a client command in between |
| `MCClientCommands` | exactly once, in order, before usercmds, and in the end? | a ring of 2, 4 commands (it wraps twice), 3 messages in flight each way |
| `MCServerCommands` | commands before snapshots, configstrings current, acknowledgements consistent, every command received in the end? | ring of 2, which an unacknowledged long value fills, so that it can also overflow between chunks; up to 3 commands before an overflow; 3 configstring values, one of them in two chunks; 2 maps; one message in flight each way, so that a gamestate, a snapshot and commands cross acknowledgements and all are repeated after losses (562,538 states); the theorems of section 4 cover more messages |
| `MCSnapshot` | are snapshots rebuilt exactly? | 5 messages over rings of 3 snapshots, 13 entities at the server and 7 at the client, so that each ring wraps onto a base that is still wanted, and dropping any of the three tests that guard against it (`server/sv_snapshot.cpp:121`, `:133`, `client/cl_parse.cpp:244`) breaks `SnapshotsExact`; two views, of 2 and of 4 entities, in which two appear, one from its baseline, one stays and one changes, which is more than `PARSE_MARGIN`, 1, allows for: the parsing does overtake its base (`overtaken`), and all other snapshots are exact; other clients that take none or three of the shared ring; 2 maps; one message in flight each way. `BACKUP_MARGIN` is 0, where the code has 3: the margin is not needed for exactness (3,564,021 states) |
| `MCDownload` | files intact, acknowledgements matched, all in the end? | window of 3, 2 blocks in a message, 4 messages in flight; four files (besides the empty last block): one of 3 blocks, longer than the window, one of 1, shorter than it, one of 4 that the server may refuse and the client cannot create, and another of 4 after it; first blocks are mistaken (`mistaken`), and but for those the properties hold |
| `MCConnectSafe` | do both ends agree on the connection? | one slot, 2 connects of the client, so that packets of the first arrive in the second; one disturbance, which may be a connectionless packet that is repeated or comes late, also one that comes when the client plays and wipes its slot; 2 records of challenges; 2 packets in flight each way, so that what is repeated is in flight with what follows it (5.8 million states) |
| `MCConnect` | does every attempt get an answer, does every slot become free? | 2 connects; one record of a challenge, so that another client's getchallenge recycles it; one disturbance (a crash, kick, refusal, repeated packet, restart of the server or such a getchallenge); one packet in flight of each kind, which the programs send again until they are answered (401,350 states) |
| `MCConnectGone` | does a client whose slot is gone learn of it? (no) | one connect, one disturbance |
| `MCGameState` | do only moves of the running map count, does an honest client get and stay in the world? | 2 maps, so one change; one map restart, one video restart; nothing to download, a download over HTTP or one from the server, which gamestates, the map change and the video restart may meet; a pure server; 2 messages in flight each way, any of which may be lost |
| `MCGameStateRestart` | does a client that is loading catch a map restart? (no) | one map, one restart, no downloads: the client is stuck without a message being lost |
| `MCFrameLoop` | are events in order and freed once, is loopback a channel without latency, does a new server hear nothing old? | event queue of 2, ring of 1 pushed event and 2 events, so that the ring overflows; loopback rings of 2 and 3 packets each way, so that they overflow; event loops nested twice; one error |

`CHECK_DEADLOCK FALSE` is set for `Download`, whose connection ends or whose
files are all received, for `Connect`, whose user may not want to connect again,
and for `GameState`, where nothing is left to do for a client in its last map.
In the other modules something can always be sent or lost.

The type invariants of `ServerCommands`, `Snapshot`, `Download` and `FrameLoop` document
the types and hold in the same instances, but are not among the properties of the runs.
Those of `ServerCommands`, `Snapshot` and `FrameLoop` are theorems; for `Download` the parts of
`DownloadInv` give the types, until a block has been mistaken.

What the safety properties say is in the comment before each. Several have a
condition that is part of the claim, not a convenience:

- In `ClientCommands` the properties are claimed as long as the ring has not been
  overrun (`overran`); the overflow test lets it be by one (section 6).
- The ring slots select keys correctly as long as there are fewer unacknowledged
  commands than slots (`UnscramblesBelowLimit`); at the limit they do not
  (section 6).
- `OrderKept` says that messages are sent in order until some are stranded: one is
  stacked on the last fragment of another, or a waiting one that fits a packet leaves the
  list before others. After that it says only that none is lost or repeated.
  `DroppedIfMissed` is claimed as long as no two messages wait.
- `SnapshotsExact` is claimed of snapshots in whose making, from the last one that was sent
  whole, the parsing has not written over an entity it had still to read (`overtaken`).
  The code has a margin against that, which is not enough (section 6).
- `FilesIntact` and `AcksMatch` are claimed until the client takes a first block for that
  of another file (`mistaken`). That no other block is ever mistaken is the claim.
- `EventuallyInWorld` names three ways in which a client waits for ever: it was misled
  (`Misled`), the gamestate after "donedl" was lost (`ReloadLost`), the map was restarted while it
  was loading (`LeftBehind`). Apart from these, and from a client that leaves over a
  download or cancels it (`clWaits = "cancelled"`), there is none.
- `DroppedOnlyIfMisled` says when an honest client may be dropped as impure: only if it has
  proved its files while its `serverId` was of the map that is running and its
  gamestate of another (`misled`), and it never has without a map restart. All of these
  are divergences of section 6.
- `ConnectionsAgree` is claimed while no attempt to connect has begun before what an
  earlier one left on its way had settled, and no connect packet or `connectResponse` has
  overtaken a message (`overlapped`): a `connectResponse` carries no challenge, so after that a
  client can be in a connection the server has not (section 6). A repeated connect packet
  that comes behind messages is not exempted: it sets the slot up anew, for the same connection.
- `DataFreedOnce` exempts the events whose handler was abandoned by an error:
  their data is never freed.
- Everything in `ServerCommands` is claimed until the client is dropped.
- `CommandsBeforeUsercmds` is checked without `sv_floodProtect` (see section 6).

Fairness. Both programs call their frame functions for ever, so handlers that send
are weakly fair. Handlers that receive are strongly fair: a channel that is used for
ever does not lose everything, which is the weakest assumption under which
repetition can work. Nothing is assumed about the order of the two programs.
In `Download`, where the second copy of a block may be the one that arrives,
strong fairness is on receiving the block that is awaited. `EventuallyFinished`
counts a connection that has ended as an end, and it makes an exception for files
the server may refuse, since the refusal is sent once (`server/sv_client.cpp:853`).

`Connect` assumes of the network no more than that a kind of packet that is sent
for ever gets through at times (strong fairness on receiving), of the programs that their
frames go on, and of the user nothing: whether to connect, quit or crash is
never fair. `GameState` adds that downloads end. `FrameLoop` has safety properties only.

Each property has a mutant: an operator of the module (marked `mutant`) that
replaces the named one and breaks the property, such as a missing reset of the
fragment buffer, an off-by-one in a ring, or a snapshot accepted without a margin.

## 4. Proofs

Every component is proved about, for every value of its constants that
the named assumptions in its module admit. Each section below gives the theorems, what
they assume, and the inductive invariant with the reason it is needed. Liveness is
not proved.

### The channel

`NetChan_proofs` proves, for every byte set, message set, fragment size, message
limit and number of messages, with `tlapm`:

| Theorem | Statement |
|---|---|
| `SenderCorrect`, `TypeCorrect` | the types, and the position of the sender inside its last message |
| `Integrity` | `DeliveredIntact` |
| `Order` | `DeliveredInOrder` |
| `Prefix` | `CollectedIsPrefix` |
| `NotAhead` | `NeverAheadOfSender` |
| `NoOverflow` | `NeverOverflows` |
| `Refinement` | `Spec => ImplementsChannel`, the refinement of `MessageChannel` |

Assumptions: the fragment size is a positive natural number, the maximal message
length is natural, and no message is longer (`Netchan_Transmit` raises a fatal
error for a longer one).

The argument. `DeliveredIntact` is not inductive: it says nothing about the bytes
being collected, nor about packets still in the network. `ChannelInv` adds that

1. the sender numbers messages in order and works on the last one, from a position
   inside it (`SenderPosition`);
2. every packet in the network is a slice of the message of its number, and one
   that is not full is the end of a message the sender is done with
   (`PacketsGenuine`);
3. what is collected is a prefix of one message (`CollectedIsPrefix`);
4. what was handed up is intact, complete at the sender and not newer than
   `incomingSequence`.

A fragment is appended only if it starts where the collected bytes end, so a prefix
stays a prefix (`FragmentExtends`), and a fragment that is not full completes it.
Nothing in this depends on the order, number or fate of packets, so losing,
repeating and reordering them is covered. Refinement then needs no more than
these: a delivery is a `Deliver` of the channel, everything else a stutter.
`Order` and `NotAhead` are theorems only: in the runs `ImplementsChannel` covers them.

### The client commands

`ClientCommands_proofs` proves, for every number of slots, of commands and of messages in
flight:

| Theorem | Statement |
|---|---|
| `TypeCorrect` | `TypeOK` |
| `CommandsCorrect` | the inductive invariant `CommandInv` |
| `Agreement` | `AcknowledgesAgree` |
| `UsercmdsAfterCommands` | `CommandsBeforeUsercmds`, assuming `~FloodProtect` |
| `Unscrambling` | `UnscramblesBelowLimit` |
| `Refinement` | `Spec => ImplementsReliableCommands`, the refinement of `ReliableCommands` |

Assumptions: the ring has at least one slot (`RingAssumption`), `FloodProtect` is a
Boolean, and, for `UsercmdsAfterCommands` alone, it is false; with flood protection that
property fails (section 6).

The argument. What the server does with a packet depends on what the client knew when it
wrote it, so `CommandInv` describes everything in flight. Besides the types and that the
commands of a packet have consecutive numbers (`PacketsNumbered`), as long as the ring
has not been overrun:

1. each of the last `MAX_RELIABLE_COMMANDS` commands is in its slot (`RingHolds`);
2. `reliableAcknowledge <= lastClientCommand <= reliableSequence`, and the first and last
   are at most a ring apart (`InRange`);
3. the acknowledgements in flight ascend, from what the client has read to what the
   server has executed (`AcksGenuine`);
4. every packet in flight carries, with their texts, all commands from one the server
   has executed or the one after it up to those its usercmds were made after
   (`PacketsGenuine`);
5. the server has executed commands 1 to `lastClientCommand`, in order, and no usercmd made
   after a later one (`ExecutedAll`).

Point 4 is why there is no gap: a packet starts after the command the client knew to be
acknowledged, and the server never forgets one. Point 1 is kept when a command is added
because two numbers less than a ring apart have different slots (`SlotsDiffer`); it is
the only step that needs `~overran`. Point 3 keeps `CL_ParseServerMessage` from taking an
acknowledgement for one that has left the ring. `Refinement` follows: a packet that is
executed is a `Take` or a stutter, an added command is an `Add`, overrunning the ring is
`GiveUp`.

### The list of waiting messages

`NetChan_proofs` goes on with `SvNetChan`, which sends through the netchan and has one
step the netchan does not: the last fragment of a message goes out and the longest
waiting message is begun in the same step.

| Theorem | Statement |
|---|---|
| `SvInvariance` | the inductive invariant `SvInv` |
| `Ordered` | `OrderKept` |
| `Keyed` | `FiledAndKeyed` |
| `Dropped` | `DroppedIfMissed` |
| `SvRefinement` | `SvSpec => ImplementsChannel` |

Assumptions: those of the channel. `SvInv` keeps the channel's invariant and adds that only
gamestates wait, and only behind an unfinished message unless they are stranded
(`QueueOK`); that a gamestate goes out under the number it is filed under or the next
(`FiledOK`); that of every message as many copies were handed over as were sent and
wait (`Counted`); and, until some are stranded, that what was sent and what waits, in
this order, is what was handed over. `DroppedIfMissed` needs the last clause of `QueueOK`:
while a gamestate waits its number is that of the message being fragmented, which no
client has been able to acknowledge.

### Server commands and configstrings

`ServerCommands_proofs`, for every ring, every set of long values, and any number of
commands, values, maps and messages in flight:

| Theorem | Statement |
|---|---|
| `TypeCorrect` | `TypeOK` |
| `Agreement` | `AcknowledgesAgree` |
| `CommandsFirst` | `CommandsBeforeSnapshot` |
| `Unscrambles` | `UnscramblesBelowLimit` |
| `Refinement` | `Spec => ImplementsReliableCommands` |
| `ConfigstringsCurrent` | `ConfigstringCurrent` |

Assumptions: a ring of at least one slot; a long value takes at least two chunks.

Until the client is dropped (`Story`): each end's ring holds its last commands, and where
they overlap they agree; every message in flight carries, with their texts, all commands from
one the server knows to be acknowledged to the one the message follows; the commands that
messages follow, and the acknowledgements in packets, ascend between what one end has
and what the other knows. That gives all but the last theorem.

`ConfigstringCurrent` is about two paths by which a value reaches the cgame, gamestates and
commands. Its invariant (`CurrentInv`) follows the commands that are due: those the client has
and has not marked bad, and those it has not had. Due commands bring values that only
rise, the chunks of one value being together (`Rising`, `Linked`); no message and no
gamestate cuts a value in two (`Whole`); what has been put together is what the next chunk
goes on from (`PutTogether`). Of every active snapshot, in flight or parsed, it says
that its value has come or is brought by a command due before it, or that the client never
gets there because a command it needs has left its ring (`SnapshotsToCome`); and to
make that hold for the next snapshot, that a client which has the gamestate of the map,
or is about to, is told of every change (`ToldOfThis`).

### Connecting

`Connect_proofs`, for any number of records, attempts, disturbances and packets in flight:

| Theorem | Statement |
|---|---|
| `TypeCorrect` | `TypeOK` |
| `ConnectionsKept` | `ConnectionsAgree` |

Assumptions: at least one record; whether the client is on the LAN is a Boolean; the
bounds on attempts and disturbances are natural.

The argument (`Agreement`, which holds until attempts or packets have crossed each other) is about
the order of what is in flight. A connect packet is of the attempt the client is in, since
nothing of an earlier one was left when it began (`ConnectsOfAttempt`); so whenever one
arrives, the first time or again, the slot becomes the client's own. What the server wrote
before that is in front of its answer (`ResponsesOfAttempt`), so that a client in a connection
hears only messages of it (`ClientInItsSlot`). At the server, a message is of the slot
there is (`MessagesOfSlot`), or of the one that a connect packet in front of it sets up
(`MessagesOfConnect`). A packet that is repeated at a later place disturbs none of these, and one that
overtakes a message sets `overlapped`.

### Gamestates and map changes

`GameState_proofs`, for every number of maps, restarts, video restarts and messages:

| Theorem | Statement |
|---|---|
| `Invariance` | the inductive invariant |
| `TypeCorrect` | `TypeOK` |
| `MovesAreOfThisMap` | `MovesOfThisMap` |
| `ActiveIsProved` | `ActiveHoldsGamestate` |
| `HonestStays` | `DroppedOnlyIfMisled` |

Assumptions: whether the server is pure is a Boolean; a client misses nothing, a file the
server sends, or one it gets over HTTP. `MovesOfThisMap` and `ActiveHoldsGamestate` are
about a pure server: on another, nothing ties a client's moves to a map, as the
code compares only `serverId`.

Gamestates arrive in the order of their maps (`MessageOK`), so a client that proves its files
for the map that is running, which is the last, keeps that gamestate. Its commands come
in the order of their maps, and its moves are of the map of the commands before
them or of a later one (`CommandsOK`, `PacketOK`). A video restart takes the proof
back, but in the same packets as the next proof (`Whole`). The server therefore has an
authentic proof of this map only from a client that has its gamestate. A client that
waits for a download has been told its `serverId` by a gamestate alone, so both are of one map
(`Sound`); so are they when it proves its files, unless it is misled, and a proof whose
`serverId` is too old for the server counts for nothing.

### Frame loop and loopback

`FrameLoop_proofs`, for rings of every size and event loops nested to every depth:

| Theorem | Statement |
|---|---|
| `TypeCorrect` | `TypeOK` |
| `InOrder` | `EventsInOrder` |
| `FreedOnce` | `DataFreedOnce` |
| `SameFrame` | `SentThisFrameHeard` |
| `NoOldPackets` | `NewServerHearsNoOld` |
| `LoopbackRefinement` | `Spec => LoopbackIsChannel` |

Assumptions: rings have at least one slot, and bounds are natural.

Events: those handled come before all that were pushed back, and these before all in
the system's queue (`OrderOK`), because whatever reads ahead empties both rings, pushes
everything back in order and loses the oldest if there are too many; every event is in exactly
one place (`PlacesOK`). Loopback: the slots of the last packets hold the packets of
their numbers, since numbers less than a ring apart have different slots
(`SlotsOfNeighbours`). Frame: an event loop returns only when both rings have been found
empty, in that order, and a packet that was read or overwritten stays so.

### Downloads

`Download_proofs`, for every list of files, window, rate, width of a block number and
number of messages in flight:

| Theorem | Statement |
|---|---|
| `DownloadInvariance` | the inductive invariant `DownloadInv` |
| `FilesArriveIntact` | `FilesIntact` |
| `AcknowledgementsMatch` | `AcksMatch` |

Assumptions: the client misses at least one file and the list names none twice, as the
server lists each pak once (`WantedAssumption`); a file has at least one block; window and rate
are positive; the window is at most half the range of a block number (`ShortAssumption`; in the
code 8 blocks, and 16 bits). Files may be shorter than the window, and any of them may be
refused or impossible to create.

Parts carry a number but no file name, so the invariant (`GoodInv`, which holds until one is
`mistaken`) has to say which file each part in flight is of, and when the client can take one
for another:

1. the client has asked for its file and the server has not been told, or the server serves
   that file (`Asked`, `Served`); then its block is as far ahead of the server's as there are
   acknowledgements on their way;
2. these come first, without a gap, each a block the server has in its window (`AcksOK`);
   so each is the one the server waits for when it arrives;
3. the window holds the blocks of its file, in the slots of their numbers (`WindowOK`);
4. nothing in flight is of a file still to be asked for, and parts of earlier files come before
   those of the file awaited (`FlightOK`, `OrderOK`); so once the client has the first block of
   its file, nothing of another is left in flight, and what it takes by its number is what the
   number says (`PartOK`). A first block can be mistaken, no other can;
5. a block number that no longer fits comes out negative, and is not awaited.

### Snapshots

`Snapshot_proofs`, for every set of views, rings of every size, every margin and any number
of messages, losses and maps:

| Theorem | Statement |
|---|---|
| `SnapshotInvariance` | the inductive invariant `DeltaInv` |
| `TypeCorrect` | `TypeOK` |
| `BasesAreKept` | `BasesKept` |
| `EntitiesInvariance` | `EntitiesOK`, what is left in the client's ring of a good snapshot that was not overtaken |
| `SnapshotsAreExact` | `SnapshotsExact` |

Assumptions: rings have at least one slot; views are lists sorted by number
(`SV_BuildClientSnapshot` sorts them); what this client and the others see in one frame
fits the server's ring (`WorldAssumption`). Views may be as wide as one likes: where the margin
of the client is too small for them, `overtaken` says so.

`BasesKept` is about messages that are on their way, after which much can
happen to both rings. `DeltaInv` therefore says:

1. messages are in order; only the last gamestate can be in flight, and a client that has
   it writes no usercmds for another map (`OrderOK`, `GamestatesOK`);
2. in the client's ring, nothing good is newer than the last snapshot it could use (`RingOK`);
3. a base the client asks for in a packet in flight, or that the server has been told of, is
   in the client's ring or too old for the server to use (`AskedKept`);
4. the base of a snapshot in flight is in the client's ring, no gamestate that would clear it
   comes first, and the changes are those from what this base was meant to be (`DeltasOK`);
5. the frames of the server for snapshots the client has, or will have, in this map are the
   ones it was sent, and hold their entities as long as the shared ring has not gone
   round since (`FramesOK`).

`SnapshotsExact` needs more: what the client makes of these changes. Its loop reads the base
from the same ring that it writes to. The invariant of the loop is that what it has written
is the new view up to the numbers it has passed, and that the rest of the base has not
been written over (`Right`, `Room`): the latter is what a snapshot that is not `overtaken` has.
Each round keeps it and gets one entity further (`ParseMoves`), so that after
as many rounds as there are entities everything has been written (`ParseRight`). Writing a
snapshot leaves those of the ring that `CL_GetSnapshot` still gives out as they were.

### Only model-checked

- All liveness: `EventuallyExecuted`, `EventuallyReceived`, `EventuallyFinished`, `EventuallyAnswered`,
  `SlotFreed`, `EventuallyInWorld` rest on fairness, which is out of the prover's reach.

## 5. What is left out

- *Bits*: Huffman coding, delta field encoding and XOR scrambling are pure functions.
- *Time*: timeouts, pings, rates and the one second between repeated download
  windows are a choice between acting and not acting, with the conditions on who
  has heard whom that the code's times express. In `Connect` a flag says that something
  happened recently, and time passing clears it at any moment, whatever is in flight.
- *More than one slot* in `Connect`, and snapshots sent outside
  `SV_SendClientMessages` (by an impure drop and the final message) in `SvNetChan`.
- *Downloads in `GameState`*: how a client may download (`cl_allowDownload`) does not change while
  it is connected, a download that ends has brought what was missing, and the user starts none
  (`/dlmap`). What a client lacks is found anew at each gamestate of another map.
- *The command buffer*: `FrameLoop` lets any command run where it is executed.
- *Sequence wrap*: sequence numbers are 32 bits wide; a session does not reach that.
- *Cgame and game modules*: not in the repository; `ServerCommands` has the order
  in which the cgame asks for commands and snapshots, marked external.
- Components marked `not_modelled` in `PROJECT.json`, each with its reason.

## 6. Known divergences

Where a comment promises something the code does not do. Two have a run that shows
them and are findings in `PROJECT.json`:

- `client/cl_main.cpp:1401`: every packet, the "disconnect" of a server that does
  not know the client included, renews `clc.lastPacketTime` before
  `CL_DisconnectPacket` asks whether the server has been silent for three seconds. The client
  obeys none of them and does not time out (`MCConnectGone`).
- `server/sv_ccmds.cpp:299`: `SV_MapRestart_f` enters the clients that are active;
  one that is loading keeps its old `serverId`, is ignored and gets only snapshots
  that are not active, for ever (`MCGameStateRestart`).

The models show more, without a standing run. Each line says which formula fails,
or which definition has the case.

Channel:

- `server/sv_net_chan.cpp:148`: a message that waited is scrambled with a later
  command than the one it acknowledges, though the comment at 65 says with the acknowledged one
  (`filed[n].acknowledges = filed[n].scrambled` fails for messages that waited).
- `server/sv_net_chan.cpp:189`: when the last fragment is sent from
  `SV_Netchan_Transmit`, the queue is not looked at: what waits is stranded until
  another message is fragmented, and later messages overtake it, against the
  comment at 171 (`OrderKept` without its condition). A stranded gamestate can
  arrive after newer messages.
- `server/sv_net_chan.cpp:137`: one message is popped, and one that fits a packet is sent
  whole, which leaves the rest of the list stranded likewise (a gamestate of less than 1300
  bytes, which no test in `SV_SendClientGameState` excludes).
- `server/sv_client.cpp:445`: the slot of a client is overwritten with its list of
  waiting messages, which are never freed (found by reading).

Commands and snapshots:

- `client/cl_main.cpp:95`: the overflow test is off by one (`ImplementsReliableCommands`
  without `kept`).
- `server/sv_net_chan.cpp:110`: a full ring reuses the slot of the key;
  `client/cl_net_chan.cpp:108` is the same at the client (`UnscramblesBelowLimit`
  without its condition).
- `client/cl_main.cpp:744`: disconnecting with a full ring raises an error inside
  an error (`clientState # "aborted"` fails).
- `server/sv_client.cpp:1189`: a stalled command is dropped and counted, and the
  usercmds after it run; the comment at 1182 says they are not
  (`CommandsBeforeUsercmds` with `FloodProtect = TRUE`).
- `client/cl_parse.cpp:244`: the margin of 128 is smaller than a snapshot, of up to 256
  entities, so the parsing can write over entities of its base that it has not read
  (`SnapshotsExact` without `overtaken`).
- `client/cl_parse.cpp:75`: a rejected snapshot is parsed into the ring, though the
  comment at 185 says nothing changes.

Downloads:

- `client/cl_parse.cpp:543`: a first block carries no file name. That of a file shorter than
  the window is sent again with its last, and written to the next file; its
  acknowledgement can make the server end the connection with "broken download"
  (`server/sv_client.cpp:741`) (`FilesIntact` and `AcksMatch` without `mistaken`).
- `client/cl_parse.cpp:553`: after a file that cannot be created the client asks for the
  next while the first block of the former is being repeated, with the same two outcomes.
- `server/sv_client.cpp:927`: at a rate whose blocks exceed a message, the message is
  sent empty for ever (`EventuallyFinished` with `blockspersnap = 3`).
- `client/cl_parse.cpp:511`: a block that comes after the last file makes the rest
  of the message illegible (`connection # "illegible"` fails in `Download`).
- `server/sv_client.cpp:957`: block numbers wrap at 16 bits, so files of 64 MB and
  more stall (`Short(downloadXmitBlock) = downloadXmitBlock` fails).
- `server/sv_client.cpp:853`: the refusal of a download is sent once.

Connecting and gamestates:

- `client/cl_main.cpp`: a `connectResponse` carries no challenge, so a late one of an
  earlier attempt is taken for the answer to the present one, and the two ends scramble
  with different challenges (`~garbled`, that is, `ConnectionsAgree` without `overlapped`).
- `server/sv_client.cpp:364`: a connect packet that comes late, when `sv_reconnectlimit` is over
  and its challenge still known, sets up the slot of a client that plays anew. The challenge is
  the same, so both ends still understand each other (`ConnectionsAgree`), but the server
  counts its messages from 1 again, which a client that has gone on discards until it times out
  (`AcceptConnect` with a connected slot).
- `client/cl_main.cpp:1222`: a gamestate that comes while a map is downloaded over HTTP finds
  that no second download can start and is loaded at once; without its map the client drops
  (`LoadWithoutFile`). If it lacks nothing, the loading cancels the download.
- `client/cl_cgame.cpp:312`: a video restart while the client waits for a map download cancels it,
  and nothing starts it again or goes on without it (`clWaits = "cancelled"`).
- `client/cl_parse.cpp:591`: when a download from the server ends after a gamestate has been loaded
  without it, the map is loaded once more and a second "cp" sent (`DownloadEnds` with
  `clWaits = "none"`).
- `server/sv_client.cpp:712`: the gamestate that answers "donedl" is lost when the
  client has acknowledged later messages; it has the right `serverId`, so nothing
  is sent again, though the comment at 570 says it will be (`ReloadLost`).
- `server/sv_client.cpp:1396`: a lost gamestate, then a map restart that tells the
  client the new `serverId` in a command: the server takes it to have the gamestate
  (`Misled`), and if it then proves its files, after a video restart or a download, the
  honest client is dropped as impure.

Frame:

- `qcommon/cmd.cpp:40`: "wait" should delay commands until the next frame, but a client's
  frame executes the buffer twice, so "wait" lasts half of one (found by reading).
- `qcommon/common.cpp:1913`: the data of an event is not freed when its handler
  calls `Com_Error` (`DataFreedOnce` without `leaked`).

## 7. Plan

Done: the channel and the list of waiting messages, both command rings
and what they implement, snapshots, downloads, connecting, gamestates and map
restarts, the frame loop with the loopback rings; proofs about all of these. Every
invariant that a run checks is a theorem, with no more hypotheses than the named assumptions of
its module (and `~FloodProtect` for `CommandsBeforeUsercmds`).

To model next, most important first:

1. `SV_ChangeMaxClients` and the pointer into a client it moves
   (`server/sv_init.cpp:261`).
2. `Connect` with two slots and two clients behind one address.
