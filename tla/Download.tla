------------------------------ MODULE Download ------------------------------
(***************************************************************************)
(* Downloads of paks from the server.  The server reads a file into a      *)
(* window of blocks and puts the next block, or after a second the first   *)
(* unacknowledged one again, into every snapshot message                   *)
(* (SV_WriteDownloadToClient); the client acknowledges each block with a   *)
(* reliable command and asks for the next file after the last block        *)
(* (CL_ParseDownload, CL_NextDownload).                                    *)
(*                                                                         *)
(* A file is a number of blocks; an empty block follows the last one.  A   *)
(* block does not say of which file it is; the field "file" of its data is *)
(* what the properties tell it by, and "mistaken" is history: the client   *)
(* took the first block of one file for that of another.                   *)
(* Messages to the client may be lost, and keep their order (see           *)
(* MessageChannel); commands to the server may only be late (see           *)
(* ClientCommands).                                                        *)
(***************************************************************************)
EXTENDS Integers, Sequences

CONSTANTS
    Files,                 \* what can be asked for
    Wanted,                \* the list of files the client misses, in order
    Blocks,                \* how many blocks each file has
    Refusable,             \* files the server may refuse to send
    Unwritable,            \* files the client cannot create
    None,                  \* no file
    MAX_DOWNLOAD_WINDOW,   \* blocks the server keeps
    blockspersnap,         \* blocks the client's rate allows in a message
    MAX_MSG_BLOCKS,        \* blocks that fit a message
    SHORT_BITS,            \* 16: the width of a block number in a message
    MaxInFlight            \* bound: messages in flight to the client

(* The server lists a pak once.                                            *)
ASSUME WantedAssumption ==
    /\ Wanted \in Seq(Files) /\ Wanted # <<>> /\ None \notin Files
    /\ \A i, j \in DOMAIN Wanted : Wanted[i] = Wanted[j] => i = j
ASSUME BlocksAssumption == Blocks \in [Files -> Nat \ {0}]
ASSUME SizesAssumption ==
    /\ MAX_DOWNLOAD_WINDOW \in Nat \ {0} /\ blockspersnap \in Nat \ {0}
    /\ MAX_MSG_BLOCKS \in Nat

VARIABLES
    downloadName,          \* server: the file being sent
    download,              \* server: it has been opened
    downloadClientBlock,   \* server: the block awaiting acknowledgement
    downloadCurrentBlock,  \* server: the next block to read
    downloadXmitBlock,     \* server: the next block to send
    downloadBlocks,        \* server: the window
    toClient,              \* messages on their way to the client
    toServer,              \* commands on their way to the server
    downloadTempName,      \* client: the file being received
    downloadBlock,         \* client: the block it waits for
    downloadList,          \* client: the files still to ask for
    downloadRestart,       \* client: a file has been asked for
    received,              \* client: the blocks written to the file
    installed,             \* client: the contents of the finished files
    connection,            \* "up", or why it has ended
    mistaken               \* history: see above

serverVars == <<downloadName, download, downloadClientBlock,
                downloadCurrentBlock, downloadXmitBlock, downloadBlocks>>
clientVars == <<downloadTempName, downloadBlock, downloadList,
                downloadRestart, received, installed>>
vars == <<serverVars, toClient, toServer, clientVars, connection,
          mistaken>>

Block(f, n) == [file |-> f, number |-> n, eof |-> n = Blocks[f]]
NoBlock == [file |-> None, number |-> 0, eof |-> TRUE]
Slot(n) == n % MAX_DOWNLOAD_WINDOW

(* What MSG_ReadShort makes of a number written by MSG_WriteShort.         *)
Half == 2 ^ (SHORT_BITS - 1)
Short(n) == ((n + Half) % (2 * Half)) - Half

(* The numbers of a window, of 8 blocks, are not cut.                      *)
ASSUME ShortAssumption == Half \in Nat \ {0} /\ MAX_DOWNLOAD_WINDOW <= Half

(* The client has been given a gamestate and has just found out what it    *)
(* misses: CL_NextDownload asks for the first of Wanted.                   *)
Init ==
    /\ downloadName = None /\ download = FALSE
    /\ downloadClientBlock = 0 /\ downloadCurrentBlock = 0
    /\ downloadXmitBlock = 0
    /\ downloadBlocks = [i \in 0 .. MAX_DOWNLOAD_WINDOW - 1 |-> NoBlock]
    /\ toClient = <<>>
    /\ toServer = <<[command |-> "download", file |-> Head(Wanted)]>>
    /\ downloadTempName = Head(Wanted) /\ downloadBlock = 0
    /\ downloadList = Tail(Wanted) /\ downloadRestart = TRUE
    /\ received = <<>> /\ installed = [f \in {} |-> <<>>]
    /\ connection = "up" /\ mistaken = FALSE

-----------------------------------------------------------------------------
(* The server.                                                             *)

(* SV_CloseDownload; the block counters stay.                              *)
SV_CloseDownload ==
    /\ download' = FALSE
    /\ downloadBlocks' =
         [i \in DOMAIN downloadBlocks |->
            [downloadBlocks[i] EXCEPT !.file = None]]

SV_StopDownload ==
    /\ Head(toServer).command = "stopdl"
    /\ SV_CloseDownload
    /\ downloadName' = None
    /\ UNCHANGED <<downloadClientBlock, connection>>

SV_BeginDownload ==
    /\ Head(toServer).command = "download"
    /\ SV_CloseDownload
    /\ downloadName' = Head(toServer).file
    /\ UNCHANGED <<downloadClientBlock, connection>>

(* Acknowledging the empty block ends the download; acknowledging any but  *)
(* the block the server waits for ends the connection, with SV_DropClient. *)
SV_NextDownload ==
    LET block == Head(toServer).block
        matches == block = downloadClientBlock
    IN
    /\ Head(toServer).command = "nextdl"
    /\ IF matches /\ ~downloadBlocks[Slot(block)].eof
         THEN /\ downloadClientBlock' = block + 1
              /\ UNCHANGED <<downloadName, download, downloadBlocks>>
         ELSE /\ SV_CloseDownload
              /\ downloadName' = None
              /\ UNCHANGED downloadClientBlock
    /\ connection' = IF matches THEN connection ELSE "broken download"

SV_DoneDownload ==
    /\ Head(toServer).command = "donedl"
    /\ UNCHANGED <<downloadName, download, downloadClientBlock,
                   downloadBlocks, connection>>

SV_ExecuteClientCommand ==
    /\ connection = "up" /\ toServer # <<>>
    /\ \/ SV_StopDownload
       \/ SV_BeginDownload
       \/ SV_NextDownload
       \/ SV_DoneDownload
    /\ toServer' = Tail(toServer)
    /\ UNCHANGED <<downloadCurrentBlock, downloadXmitBlock, toClient,
                   clientVars, mistaken>>

(* A file that cannot be opened, or may not be sent (sv_allowDownload can   *)
(* change at any time): an error instead of block 0, sent once.            *)
RefuseDownload ==
    /\ ~download /\ downloadName \in Refusable
    /\ toClient' = Append(toClient, <<[block |-> 0, refused |-> TRUE]>>)
    /\ downloadName' = None
    /\ UNCHANGED <<download, downloadClientBlock, downloadCurrentBlock,
                   downloadXmitBlock, downloadBlocks>>

NeverAgain(client, read, xmit) == xmit   \* mutant: nothing is sent again
FirstToSend(client, read, xmit) == IF xmit = read THEN client ELSE xmit

(* Opens the file if necessary, fills the window, and sends blocks; all of *)
(* the window having been sent, nothing is sent for a second, and then it  *)
(* is sent again from its start.  A message that overflows is sent empty.  *)
SendBlocks ==
    LET client == IF download THEN downloadClientBlock ELSE 0
        current == IF download THEN downloadCurrentBlock ELSE 0
        last == Blocks[downloadName]
        read == IF client + MAX_DOWNLOAD_WINDOW <= last
                  THEN client + MAX_DOWNLOAD_WINDOW ELSE last + 1
        xmit == IF download THEN downloadXmitBlock ELSE 0
        from == FirstToSend(client, read, xmit)
        count == IF read - from < blockspersnap THEN read - from
                                                ELSE blockspersnap
        window == [s \in DOMAIN downloadBlocks |->
                     IF \E n \in current .. read - 1 : Slot(n) = s
                       THEN Block(downloadName,
                                  CHOOSE n \in current .. read - 1 : Slot(n) = s)
                       ELSE downloadBlocks[s]]
    IN
    /\ client < read
    /\ download' = TRUE
    /\ downloadClientBlock' = client
    /\ downloadCurrentBlock' = read
    /\ downloadBlocks' = window
    /\ downloadXmitBlock' = from + count
    /\ toClient' = Append(toClient,
         IF count > MAX_MSG_BLOCKS THEN <<>>
         ELSE [i \in 1 .. count |->
                 [block |-> Short(from + i - 1), refused |-> FALSE,
                  data |-> window[Slot(from + i - 1)]]])
    /\ UNCHANGED downloadName

SV_WriteDownloadToClient ==
    /\ connection = "up" /\ Len(toClient) < MaxInFlight
    /\ downloadName # None
    /\ RefuseDownload \/ SendBlocks
    /\ UNCHANGED <<toServer, clientVars, connection, mistaken>>

-----------------------------------------------------------------------------
(* The client, part by part of a message: c holds its variables.           *)

Command(c, command) == [c EXCEPT !.commands = Append(@, command)]

(* No file is left: "donedl" asks for a gamestate; without a file asked    *)
(* for since the last "donedl" the client loads the map instead.           *)
CL_DownloadsComplete(c) ==
    IF c.restart
      THEN Command([c EXCEPT !.restart = FALSE], [command |-> "donedl"])
      ELSE [c EXCEPT !.connection = "loading"]

CL_NextDownload(c) ==
    IF c.list = <<>>
      THEN CL_DownloadsComplete(c)
      ELSE Command([c EXCEPT !.temp = Head(c.list), !.list = Tail(c.list),
                             !.block = 0, !.restart = TRUE, !.file = <<>>],
                   [command |-> "download", file |-> Head(c.list)])

(* The rest of the message, the block itself, is read as commands, and     *)
(* that is an error unless the first byte of its number means "end of      *)
(* message".                                                               *)
StrayBlock(c) ==
    [Command(c, [command |-> "stopdl"]) EXCEPT !.connection = "illegible"]

AcknowledgeNext(c) ==          \* mutant: the block is counted first
    Command([c EXCEPT !.block = c.block + 1],
            [command |-> "nextdl", block |-> c.block + 1])
AcknowledgeBlock(c) ==
    Command([c EXCEPT !.block = c.block + 1],
            [command |-> "nextdl", block |-> c.block])

WriteBlock(c, data) ==
    LET acked == AcknowledgeBlock(c)
    IN IF data.eof
         THEN CL_NextDownload(
                [acked EXCEPT !.temp = None, !.installed =
                   [f \in DOMAIN c.installed \cup {c.temp} |->
                      IF f = c.temp THEN c.file ELSE c.installed[f]]])
         ELSE [acked EXCEPT !.file = Append(c.file, data)]

AwaitedOrLater(c, m) == c.block <= m.block   \* mutant
Awaited(c, m) == c.block = m.block

(* The client takes block m for the first one of another file.             *)
Mistakes(c, m) ==
    /\ c.connection = "up" /\ c.temp # None
    /\ ~m.refused /\ Awaited(c, m) /\ c.block = 0
    /\ m.data.file # c.temp

CL_ParseDownload(c, m) ==
    IF c.connection # "up" THEN c
    ELSE IF c.temp = None THEN StrayBlock(c)
    ELSE IF m.refused THEN [c EXCEPT !.connection = "refused"]
    ELSE IF ~Awaited(c, m) THEN c
    ELSE IF c.block = 0 /\ c.temp \in Unwritable
      THEN CL_NextDownload(Command(c, [command |-> "stopdl"]))
    ELSE WriteBlock(c, m.data)

Client == [temp |-> downloadTempName, block |-> downloadBlock,
           list |-> downloadList, restart |-> downloadRestart,
           file |-> received, installed |-> installed,
           commands |-> toServer, connection |-> connection]

CL_ParseServerMessage ==
    LET after[n \in 0 .. Len(Head(toClient))] ==
            IF n = 0 THEN Client
                     ELSE CL_ParseDownload(after[n - 1], Head(toClient)[n])
        c == after[Len(Head(toClient))]
    IN
    /\ connection = "up" /\ toClient # <<>>
    /\ downloadTempName' = c.temp /\ downloadBlock' = c.block
    /\ downloadList' = c.list /\ downloadRestart' = c.restart
    /\ received' = c.file
    /\ installed' = c.installed /\ toServer' = c.commands
    /\ connection' = c.connection
    /\ toClient' = Tail(toClient)
    /\ mistaken' = (\/ mistaken
                    \/ \E n \in DOMAIN Head(toClient) :
                         Mistakes(after[n - 1], Head(toClient)[n]))
    /\ UNCHANGED serverVars

-----------------------------------------------------------------------------
(* A message that does not arrive is lost when it is next to arrive.        *)
Lose ==
    /\ toClient # <<>>
    /\ toClient' = Tail(toClient)
    /\ UNCHANGED <<serverVars, toServer, clientVars, connection, mistaken>>

Next ==
    \/ SV_ExecuteClientCommand
    \/ SV_WriteDownloadToClient
    \/ CL_ParseServerMessage
    \/ Lose

Spec == Init /\ [][Next]_vars

AwaitedBlockArrives ==
    /\ toClient # <<>>
    /\ \E i \in DOMAIN Head(toClient) : Head(toClient)[i].block = downloadBlock
    /\ CL_ParseServerMessage

(* Both programs run their frames for ever, so a second passes in the end; *)
(* and of the messages with a block that is sent again and again one       *)
(* arrives.                                                                *)
FairSpec ==
    /\ Spec
    /\ WF_vars(SV_ExecuteClientCommand) /\ WF_vars(SV_WriteDownloadToClient)
    /\ WF_vars(CL_ParseServerMessage) /\ SF_vars(AwaitedBlockArrives)

-----------------------------------------------------------------------------
(* The client has asked for a new gamestate.                               *)
Finished == ~downloadRestart

(* The types of the state of both ends.                                    *)
TypeOK ==
    LET Data == [file : Files \cup {None}, number : Nat, eof : BOOLEAN] IN
    /\ downloadName \in Files \cup {None} /\ download \in BOOLEAN
    /\ downloadClientBlock \in Nat
    /\ downloadCurrentBlock \in Nat /\ downloadXmitBlock \in Nat
    /\ downloadBlocks \in [0 .. MAX_DOWNLOAD_WINDOW - 1 -> Data]
    /\ downloadTempName \in Files \cup {None} /\ downloadBlock \in Nat
    /\ downloadList \in Seq(Files) /\ downloadRestart \in BOOLEAN
    /\ received \in Seq(Data)
    /\ \A f \in DOMAIN installed : f \in Files /\ installed[f] \in Seq(Data)
    /\ connection \in {"up", "refused", "illegible", "loading",
                      "broken download"}
    /\ mistaken \in BOOLEAN

(* A file the client has finished has the blocks of that file, in order,   *)
(* whatever was lost or sent again and however short the files are, unless *)
(* the first block of a file was taken for that of another.                *)
FilesIntact ==
    \/ mistaken
    \/ \A f \in DOMAIN installed :
         installed[f] = [i \in 1 .. Blocks[f] |-> Block(f, i - 1)]

(* The block the client acknowledges is the one the server waits for       *)
(* (sv_client.cpp:717, "it should be the same as cl->downloadClientBlock"),*)
(* also for a file after one that the client could not create, unless the  *)
(* first block of a file was taken for that of another.                    *)
AcksMatch == mistaken \/ connection # "broken download"

(* All files arrive in the end, or the connection ends, whatever is lost   *)
(* on the way: SV_WriteDownloadToClient sends blocks again.  A refusal is  *)
(* the exception: it is sent once, and the client that misses it waits.    *)
EventuallyFinished ==
    <>(Finished \/ connection # "up" \/ downloadTempName \in Refusable)
=============================================================================
