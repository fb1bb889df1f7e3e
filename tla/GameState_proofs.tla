-------------------------- MODULE GameState_proofs --------------------------
(***************************************************************************)
(* Proofs about how a client gets into the world (module GameState): a     *)
(* client in the world of a pure server has the gamestate of the map that  *)
(* is running and has proved its files for it, its moves were made in that *)
(* map, and it is dropped as impure only if a map restart misled it.       *)
(*                                                                         *)
(* The argument is about the order in which things reach the other end.    *)
(* Gamestates arrive in the order of their maps, so a client that proves   *)
(* its files for the map that is running, which is the last, stays with    *)
(* its gamestate; what it wrote after its commands was made in their map   *)
(* or a later one; and a video restart takes the proof back only in front  *)
(* of a new one, in the same packets.                                      *)
(***************************************************************************)
EXTENDS GameState, SequencesExt, SequenceTheorems, WellFoundedInduction,
        TLAPS

-----------------------------------------------------------------------------
(* Sets of numbers and sequences.                                          *)

(* A set of numbers has a least element.                                   *)
LEMMA LeastNumber ==
  ASSUME NEW S, S \subseteq Nat, S # {}
  PROVE  \E x \in S : \A y \in S : x <= y
<1>1. PICK x \in S : \A y \in S : ~ (<<y, x>> \in OpToRel(<, Nat))
  BY WFMin, NatLessThanWellFounded
<1>2. ASSUME NEW y \in S PROVE x <= y
  <2>1. x \in Nat /\ y \in Nat
    OBVIOUS
  <2>2. ~(y < x)
    BY <1>1, <2>1 DEF OpToRel
  <2> QED BY <2>1, <2>2
<1> QED BY <1>2

(* A function on 1 .. k is a sequence of length k.                         *)
LEMMA FunctionIsSeq ==
  ASSUME NEW S, NEW k \in Nat, NEW f \in [1 .. k -> S]
  PROVE  f \in Seq(S) /\ Len(f) = k
<1>1. f \in Seq(S)
  BY SeqDef
<1>2. DOMAIN f = 1 .. k /\ DOMAIN f = 1 .. Len(f) /\ Len(f) \in Nat
  BY <1>1, LenProperties
<1> QED BY <1>1, <1>2

-----------------------------------------------------------------------------
(* The inductive invariant.                                                *)

CommandNames == {"cp", "vdr", "download", "nextdl", "donedl"}
CommandRecords == [name : CommandNames, serverId : Nat, map : Nat]
ClientRecords ==
    [state : {"connected", "primed", "active", "zombie"},
     pureReceived : BOOLEAN, pureAuthentic : BOOLEAN, downloadName : BOOLEAN,
     told : Nat, executed : Nat, stray : BOOLEAN, sends : BOOLEAN]
Packets == [serverId : Nat, ack : Numbers, map : Nat, upto : Nat]
Gamestates == [type : {"gamestate"}, number : Numbers, serverId : Nat, map : Nat]
Snapshots == [type : {"snapshot"}, number : Numbers, active : BOOLEAN, told : Nat]

(* A serverId as high as that of the map comes with its gamestate.         *)
Sound(id, map) == id >= restartedServerId => map = restartedServerId

CountersOK ==
    /\ {serverId, restartedServerId, systeminfo, maps} \subseteq Nat
    /\ 1 <= restartedServerId /\ restartedServerId <= systeminfo
    /\ systeminfo <= serverId /\ maps <= serverId
    /\ Restarts = 0 => restartedServerId = serverId
    /\ misled \in BOOLEAN /\ (misled => Restarts > 0)

(* What the client has, and what it has when nothing told it a serverId.   *)
ClientOK ==
    /\ clState \in {"connected", "primed", "active", "disconnected"}
    /\ clServerId \in Nat /\ clMap \in Nat
    /\ clWaits \in {"none", "id", "http", "reload", "cancelled"}
    /\ clFetches \in BOOLEAN /\ clAck \in Numbers
    /\ clMap <= clServerId /\ clServerId <= serverId
    /\ clMap <= restartedServerId
    /\ clWaits # "none" => clState = "connected"
    /\ clState = "connected" \/ Restarts = 0 => Sound(clServerId, clMap)

(* The commands: those that prove the client's files come in the order of  *)
(* the maps and once the map is loaded, and a restart of the video after   *)
(* one for the map that is running is followed by another.                 *)
Proves(k) == commands[k].name = "cp"
ProvesNow(k) == Proves(k) /\ commands[k].map = restartedServerId

CommandsOK ==
    /\ commands \in Seq(CommandRecords)
    /\ \A k \in DOMAIN commands :
         /\ commands[k].map <= commands[k].serverId
         /\ commands[k].serverId <= serverId /\ commands[k].map <= clMap
         /\ Proves(k) => /\ commands[k].map = clMap => clState # "connected"
                         /\ \A j \in 1 .. k : commands[j].map <= commands[k].map
         /\ Proves(k) /\ ~misled
              => Sound(commands[k].serverId, commands[k].map)
         /\ commands[k].name = "vdr" /\ (\E j \in 1 .. k : ProvesNow(j))
              => k + 1 \in DOMAIN commands /\ Proves(k + 1)

(* A packet ends after a proof for the map, or before the first.           *)
Whole(n) ==
    n \in DOMAIN commands /\ commands[n].name = "vdr"
        => \A j \in 1 .. n : ~ProvesNow(j)

(* Packets to the server: the commands in one are no later than its moves. *)
PacketOK(p) ==
    /\ p.serverId <= serverId /\ p.map <= clMap
    /\ p.upto <= Len(commands) /\ Whole(p.upto)
    /\ p.map = 0 \/ \A k \in 1 .. p.upto : commands[k].map <= p.map

PacketsIn(packets, executed) ==
    /\ packets \in Seq(Packets)
    /\ \A i \in DOMAIN packets :
         PacketOK(packets[i]) /\ executed <= packets[i].upto
    /\ \A i, j \in DOMAIN packets :
         i < j => packets[i].upto <= packets[j].upto

PacketsOK == PacketsIn(toServer, client.executed)

(* Messages to the client: gamestates come in the order of their maps.     *)
MessageOK(m) ==
    /\ m.type = "gamestate" =>
         /\ m.map <= m.serverId /\ m.serverId <= serverId
         /\ m.map <= restartedServerId /\ clMap <= m.map
         /\ Sound(m.serverId, m.map)
    /\ m.type = "snapshot" => m.told <= serverId /\ (Restarts = 0 => m.told = 0)

MessagesIn(messages) ==
    /\ messages \in Seq(Gamestates \union Snapshots)
    /\ \A i \in DOMAIN messages : MessageOK(messages[i])
    /\ \A i, j \in DOMAIN messages :
         /\ messages[i].type = "gamestate" /\ messages[j].type = "gamestate"
         /\ i < j
         => messages[i].map <= messages[j].map

MessagesOK == MessagesIn(toClient)

(* The files are proved for this map by a command up to n.                 *)
Proved(n) == \E k \in 1 .. n : ProvesNow(k)

(* The server's client_t when it has run the commands up to n.             *)
RunUpTo(c, n) ==
    /\ c \in ClientRecords /\ c.executed <= n
    /\ c.state # "zombie" => c.executed = n
    /\ c.pureReceived = c.pureAuthentic
    /\ c.state \in {"primed", "active"} /\ c.pureReceived => Proved(n)
    /\ Pure /\ c.state = "active" => Proved(n)
    /\ Pure /\ c.state = "active" /\ ~c.pureReceived
         => n \in DOMAIN commands /\ commands[n].name = "vdr"
    /\ Pure => ~c.stray
    /\ c.state = "zombie" => misled
    /\ c.told <= serverId /\ (Restarts = 0 => c.told = 0)

ServerOK ==
    /\ RunUpTo(client, client.executed)
    /\ client.executed <= Len(commands)
    /\ client.state # "zombie" => Whole(client.executed)
    /\ client.sends = FALSE

GameInv == /\ CountersOK /\ ClientOK /\ CommandsOK /\ PacketsOK /\ MessagesOK
           /\ ServerOK

-----------------------------------------------------------------------------
(* Running client commands one after the other.                            *)

(* The states of a client_t between the commands from a to b.              *)
Between(f, c, a, b) ==
    f = [n \in a .. b |-> IF n = a THEN c ELSE SV_ClientCommand(f[n - 1], n)]

(* They exist: what is known up to a command tells the state after it.     *)
LEMMA BetweenExists ==
  ASSUME NEW c, NEW a \in Nat, NEW b \in Nat, a <= b
  PROVE  \E f : Between(f, c, a, b)
<1> DEFINE S == {e \in Nat : a <= e /\ ~ \E f : Between(f, c, a, e)}
<1>1. SUFFICES ASSUME S # {} PROVE FALSE
  OBVIOUS
<1>2. PICK e \in S : \A d \in S : e <= d
  <2> HIDE DEF S
  <2>1. S \subseteq Nat
    BY DEF S
  <2> QED BY <1>1, <2>1, LeastNumber
<1>3. e \in Nat /\ a <= e
  OBVIOUS
<1>4. CASE e = a
  <2> DEFINE f == [n \in a .. a |-> c]
  <2>1. f = [n \in a .. a |-> IF n = a THEN c ELSE SV_ClientCommand(f[n - 1], n)]
    <3>1. \A n \in a .. a : n = a
      OBVIOUS
    <3> QED BY <3>1
  <2>2. Between(f, c, a, e)
    BY <1>4, <2>1 DEF Between
  <2> QED BY <2>2
<1>5. CASE e # a
  <2>1. e - 1 \in Nat /\ a <= e - 1 /\ ~(e <= e - 1)
    BY <1>3, <1>5
  <2>2. PICK f : Between(f, c, a, e - 1)
    BY <1>2, <2>1
  <2> DEFINE g == [n \in a .. e |-> IF n <= e - 1 THEN f[n]
                                    ELSE SV_ClientCommand(f[e - 1], e)]
  <2>3. ASSUME NEW n \in a .. e
        PROVE  g[n] = IF n = a THEN c ELSE SV_ClientCommand(g[n - 1], n)
    <3>1. n \in Nat /\ n - 1 <= e - 1
      BY <1>3
    <3>2. CASE n <= e - 1
      <4>1. n \in a .. e - 1
        BY <1>3, <3>1, <3>2
      <4>2. f[n] = IF n = a THEN c ELSE SV_ClientCommand(f[n - 1], n)
        BY <2>2, <4>1 DEF Between
      <4>3. n # a => n - 1 \in a .. e /\ n - 1 <= e - 1
        BY <1>3, <3>1, <4>1
      <4>4. n # a => g[n - 1] = f[n - 1]
        BY <4>3
      <4>5. g[n] = f[n]
        BY <3>2
      <4> QED BY <4>2, <4>4, <4>5
    <3>3. CASE ~(n <= e - 1)
      <4>1. n = e
        BY <1>3, <3>1, <3>3
      <4>2. e - 1 \in a .. e /\ e - 1 <= e - 1
        BY <1>3, <2>1
      <4>3. g[e - 1] = f[e - 1]
        BY <4>2
      <4>4. g[n] = SV_ClientCommand(f[e - 1], e)
        BY <3>3
      <4> QED BY <1>5, <4>1, <4>3, <4>4
    <3> QED BY <3>2, <3>3
  <2>4. g = [n \in a .. e |-> g[n]]
    OBVIOUS
  <2> HIDE DEF g
  <2>5. Between(g, c, a, e)
    BY <2>3, <2>4 DEF Between
  <2> QED BY <2>5
<1> QED BY <1>4, <1>5

(* So the state after all of them is what is computed one by one.          *)
LEMMA CommandsOneByOne ==
  ASSUME NEW c, c.executed \in Nat, NEW u \in Nat, c.executed < u
  PROVE  \E f : /\ Between(f, c, c.executed, u)
                /\ SV_ClientCommands(c, u) = f[u]
<1> DEFINE f == CHOOSE f : f = [n \in c.executed .. u |->
                   IF n = c.executed THEN c ELSE SV_ClientCommand(f[n - 1], n)]
<1>1. \E g : Between(g, c, c.executed, u)
  BY BetweenExists
<1>2. Between(f, c, c.executed, u)
  BY <1>1 DEF Between
<1>3. SV_ClientCommands(c, u) = f[u]
  BY DEF SV_ClientCommands
<1> QED BY <1>2, <1>3

(* One command of the client.                                              *)
LEMMA OneCommand ==
  ASSUME CountersOK, CommandsOK, NEW n \in Nat, n + 1 \in DOMAIN commands,
         NEW c, RunUpTo(c, n)
  PROVE  RunUpTo(SV_ClientCommand(c, n + 1), n + 1)
<1> DEFINE cmd == commands[n + 1]
           d == [c EXCEPT !.executed = n + 1]
           e == SV_ClientCommand(c, n + 1)
<1> SUFFICES RunUpTo(e, n + 1)
  OBVIOUS
<1>1. /\ c \in ClientRecords /\ c.executed \in Nat /\ c.executed <= n
      /\ c.state # "zombie" => c.executed = n
      /\ c.pureReceived = c.pureAuthentic
      /\ c.state \in {"primed", "active"} /\ c.pureReceived => Proved(n)
      /\ Pure /\ c.state = "active" => Proved(n)
      /\ Pure /\ c.state = "active" /\ ~c.pureReceived
           => n \in DOMAIN commands /\ commands[n].name = "vdr"
      /\ Pure => ~c.stray
      /\ c.state = "zombie" => misled
      /\ c.told <= serverId /\ (Restarts = 0 => c.told = 0)
  BY DEF RunUpTo, ClientRecords
<1>2. /\ cmd \in CommandRecords
      /\ cmd.map <= cmd.serverId
      /\ Proves(n + 1) => \A j \in 1 .. n + 1 : commands[j].map <= cmd.map
      /\ Proves(n + 1) /\ ~misled => Sound(cmd.serverId, cmd.map)
  BY ElementOfSeq, LenProperties DEF CommandsOK
<1>3. cmd.name \in CommandNames /\ cmd.serverId \in Nat /\ cmd.map \in Nat
  BY <1>2 DEF CommandRecords
<1>4. n <= n + 1 /\ c.executed <= n + 1 /\ n + 1 <= n + 1
  BY <1>1
<1>5. Proved(n) => Proved(n + 1)
  <2>1. 1 .. n \subseteq 1 .. n + 1
    OBVIOUS
  <2> QED BY <2>1 DEF Proved
<1>6. /\ d \in ClientRecords /\ d.executed = n + 1 /\ d.state = c.state
      /\ d.pureReceived = c.pureReceived /\ d.pureAuthentic = c.pureAuthentic
      /\ d.stray = c.stray /\ d.told = c.told
  BY <1>1 DEF ClientRecords
<1>7. restartedServerId \in Nat
  BY DEF CountersOK
<1>8. Pure /\ c.state = "active" /\ ~c.pureReceived => Proves(n + 1)
  <2>1. SUFFICES ASSUME Pure, c.state = "active", ~c.pureReceived
                 PROVE  Proves(n + 1)
    OBVIOUS
  <2>2. n \in DOMAIN commands /\ commands[n].name = "vdr"
    BY <1>1, <2>1
  <2>3. \E j \in 1 .. n : ProvesNow(j)
    BY <1>1, <2>1 DEF Proved
  <2> QED BY <2>2, <2>3 DEF CommandsOK
<1> HIDE DEF cmd
<1>9. CASE c.state = "zombie"
  <2>1. e = c
    BY <1>9 DEF SV_ClientCommand
  <2> HIDE DEF e
  <2> QED BY <1>1, <1>4, <1>9, <2>1 DEF RunUpTo
<1>10. CASE c.state # "zombie" /\ cmd.name = "cp"
  <2>1. e = SV_VerifyPaks_f(d, cmd)
    BY <1>10 DEF SV_ClientCommand, cmd
  <2>2. Proves(n + 1)
    BY <1>10 DEF Proves, cmd
  <2> HIDE DEF d
  <2>3. CASE ~Pure \/ ~CountsAsReceived(cmd)
    <3>1. e = d
      BY <2>1, <2>3 DEF SV_VerifyPaks_f
    <3>2. ASSUME Pure, c.state = "active" PROVE FALSE
      <4>1. PICK k \in 1 .. n : commands[k].map = restartedServerId
        BY <1>1, <3>2 DEF Proved, ProvesNow
      <4>2. k \in 1 .. n + 1
        OBVIOUS
      <4>3. restartedServerId <= cmd.map
        BY <1>2, <2>2, <4>1, <4>2
      <4>4. cmd.serverId >= restartedServerId
        BY <1>2, <1>3, <1>7, <4>3
      <4> QED BY <2>3, <3>2, <4>4 DEF CountsAsReceived
    <3> HIDE DEF e
    <3> QED BY <1>1, <1>4, <1>5, <1>6, <1>10, <3>1, <3>2 DEF RunUpTo
  <2>4. CASE Pure /\ CountsAsReceived(cmd) /\ cmd.map = restartedServerId
    <3>1. e = [d EXCEPT !.pureReceived = TRUE, !.pureAuthentic = TRUE]
      BY <2>1, <2>4 DEF SV_VerifyPaks_f
    <3>2. /\ e \in ClientRecords /\ e.executed = n + 1 /\ e.state = c.state
          /\ e.pureReceived = TRUE /\ e.pureAuthentic = TRUE
          /\ e.stray = c.stray /\ e.told = c.told
      BY <1>6, <3>1 DEF ClientRecords
    <3>3. Proved(n + 1)
      <4>1. n + 1 \in 1 .. n + 1 /\ commands[n + 1].map = restartedServerId
        BY <2>4 DEF cmd
      <4> QED BY <2>2, <4>1 DEF Proved, ProvesNow
    <3> HIDE DEF e
    <3> QED BY <1>1, <1>4, <1>10, <3>2, <3>3 DEF RunUpTo
  <2>5. CASE Pure /\ CountsAsReceived(cmd) /\ cmd.map # restartedServerId
    <3>1. e = [d EXCEPT !.state = "zombie"]
      BY <2>1, <2>5 DEF SV_VerifyPaks_f
    <3>2. /\ e \in ClientRecords /\ e.executed = n + 1 /\ e.state = "zombie"
          /\ e.pureReceived = c.pureReceived /\ e.pureAuthentic = c.pureAuthentic
          /\ e.stray = c.stray /\ e.told = c.told
      BY <1>6, <3>1 DEF ClientRecords
    <3>3. misled
      <4>1. ~Sound(cmd.serverId, cmd.map)
        BY <2>5 DEF Sound, CountsAsReceived
      <4> QED BY <1>2, <2>2, <4>1
    <3> HIDE DEF e
    <3> QED BY <1>1, <1>4, <3>2, <3>3 DEF RunUpTo
  <2> QED BY <2>3, <2>4, <2>5
<1>11. CASE c.state # "zombie" /\ cmd.name = "vdr"
  <2>1. e = [d EXCEPT !.pureReceived = FALSE, !.pureAuthentic = FALSE]
    BY <1>11 DEF SV_ClientCommand, SV_ResetPureClient_f, cmd
  <2>2. /\ e \in ClientRecords /\ e.executed = n + 1 /\ e.state = c.state
        /\ e.pureReceived = FALSE /\ e.pureAuthentic = FALSE
        /\ e.stray = c.stray /\ e.told = c.told
    BY <1>6, <2>1 DEF ClientRecords
  <2>3. commands[n + 1].name = "vdr"
    BY <1>11 DEF cmd
  <2> HIDE DEF e
  <2> QED BY <1>1, <1>4, <1>5, <1>11, <2>2, <2>3 DEF RunUpTo
<1>12. CASE c.state # "zombie" /\ cmd.name \in {"download", "nextdl"}
  <2>1. e = [d EXCEPT !.downloadName = (cmd.name = "download")]
    BY <1>12 DEF SV_ClientCommand, cmd
  <2>2. /\ e \in ClientRecords /\ e.executed = n + 1 /\ e.state = c.state
        /\ e.pureReceived = c.pureReceived /\ e.pureAuthentic = c.pureAuthentic
        /\ e.stray = c.stray /\ e.told = c.told
    BY <1>6, <2>1 DEF ClientRecords
  <2>3. ~Proves(n + 1)
    BY <1>12 DEF Proves, cmd
  <2> HIDE DEF e
  <2> QED BY <1>1, <1>4, <1>5, <1>8, <1>12, <2>2, <2>3 DEF RunUpTo
<1>13. CASE c.state # "zombie" /\ cmd.name = "donedl"
  <2>1. e = [d EXCEPT !.state = "primed", !.pureReceived = FALSE,
                      !.pureAuthentic = FALSE, !.sends = TRUE]
    BY <1>13 DEF SV_ClientCommand, SV_SendClientGameState, cmd
  <2>2. /\ e \in ClientRecords /\ e.executed = n + 1 /\ e.state = "primed"
        /\ e.pureReceived = FALSE /\ e.pureAuthentic = FALSE
        /\ e.stray = c.stray /\ e.told = c.told
    BY <1>6, <2>1 DEF ClientRecords
  <2> HIDE DEF e
  <2> QED BY <1>1, <1>4, <2>2 DEF RunUpTo
<1> QED BY <1>3, <1>9, <1>10, <1>11, <1>12, <1>13 DEF CommandNames

(* The commands of a packet.                                               *)
LEMMA AllCommands ==
  ASSUME CountersOK, CommandsOK, NEW c, RunUpTo(c, c.executed),
         NEW u \in Nat, u <= Len(commands), c.executed <= u
  PROVE  RunUpTo(SV_ClientCommands(c, u), u)
<1>1. c.executed \in Nat
  BY DEF RunUpTo, ClientRecords
<1>2. DOMAIN commands = 1 .. Len(commands) /\ Len(commands) \in Nat
  BY LenProperties DEF CommandsOK
<1>3. CASE ~(u > c.executed)
  <2>1. u = c.executed
    BY <1>1, <1>3
  <2>2. SV_ClientCommands(c, u) = c
    BY <1>3 DEF SV_ClientCommands
  <2> QED BY <2>1, <2>2
<1>4. CASE c.executed < u
  <2> DEFINE a == c.executed
  <2>1. PICK f : Between(f, c, a, u) /\ SV_ClientCommands(c, u) = f[u]
    BY <1>1, <1>4, CommandsOneByOne
  <2> DEFINE S == {n \in Nat : a <= n /\ n <= u /\ ~RunUpTo(f[n], n)}
  <2>2. ASSUME S # {} PROVE FALSE
    <3>1. PICK n \in S : \A m \in S : n <= m
      <4> HIDE DEF S
      <4>1. S \subseteq Nat
        BY DEF S
      <4> QED BY <2>2, <4>1, LeastNumber
    <3>2. n \in a .. u /\ n \in Nat /\ ~RunUpTo(f[n], n)
      BY <1>1
    <3>3. f[n] = IF n = a THEN c ELSE SV_ClientCommand(f[n - 1], n)
      BY <2>1, <3>2 DEF Between
    <3>4. n # a
      BY <3>2, <3>3
    <3>5. n - 1 \in Nat /\ a <= n - 1 /\ n - 1 <= u /\ ~(n <= n - 1) /\ n - 1 + 1 = n
      BY <1>1, <3>2, <3>4
    <3>6. RunUpTo(f[n - 1], n - 1)
      BY <3>1, <3>5
    <3>7. n \in DOMAIN commands
      BY <1>1, <1>2, <3>2, <3>5
    <3>8. RunUpTo(SV_ClientCommand(f[n - 1], n - 1 + 1), n - 1 + 1)
      BY <3>5, <3>6, <3>7, OneCommand
    <3> QED BY <3>2, <3>3, <3>4, <3>5, <3>8
  <2>3. u \in Nat /\ a <= u /\ u <= u
    BY <1>1
  <2> QED BY <2>1, <2>2, <2>3
<1> QED BY <1>1, <1>3, <1>4

(* The usercmds of a packet, which come with its commands.                 *)
LEMMA Moved ==
  ASSUME CountersOK, CommandsOK, NEW n \in Nat, n <= Len(commands), Whole(n),
         NEW c, RunUpTo(c, n), NEW map \in Nat, map <= clMap,
         clMap \in Nat, clMap <= restartedServerId,
         map = 0 \/ \A k \in 1 .. n : commands[k].map <= map
  PROVE  LET d == SV_UserMove(c, map)
         IN RunUpTo(d, n) /\ d.executed = c.executed
<1> DEFINE d == SV_UserMove(c, map)
<1> SUFFICES RunUpTo(d, n) /\ d.executed = c.executed
  OBVIOUS
<1>1. /\ c \in ClientRecords /\ c.executed \in Nat /\ c.executed <= n
      /\ c.state # "zombie" => c.executed = n
      /\ c.pureReceived = c.pureAuthentic
      /\ c.state \in {"primed", "active"} /\ c.pureReceived => Proved(n)
      /\ Pure /\ c.state = "active" => Proved(n)
      /\ Pure /\ c.state = "active" /\ ~c.pureReceived
           => n \in DOMAIN commands /\ commands[n].name = "vdr"
      /\ Pure => ~c.stray
      /\ c.state = "zombie" => misled
      /\ c.told <= serverId /\ (Restarts = 0 => c.told = 0)
  BY DEF RunUpTo, ClientRecords
<1>2. Pure /\ c.state = "active" => c.pureReceived
  BY <1>1 DEF Proved, Whole
<1>3. CASE c.state = "zombie" \/ map = 0 \/ (AwaitsPaks(c) /\ c.state # "active")
           \/ (~AwaitsPaks(c) /\ c.state = "connected")
  <2>1. ~(~AwaitsPaks(c) /\ Pure /\ ~c.pureAuthentic)
    BY <1>1 DEF AwaitsPaks
  <2>2. d = c
    BY <1>3, <2>1 DEF SV_UserMove
  <2> QED BY <2>2
<1>4. CASE ~(c.state = "zombie" \/ map = 0 \/ (AwaitsPaks(c) /\ c.state # "active")
             \/ (~AwaitsPaks(c) /\ c.state = "connected"))
  <2>1. ~AwaitsPaks(c) /\ c.state \in {"primed", "active"} /\ map # 0
    BY <1>1, <1>2, <1>4 DEF AwaitsPaks, ClientRecords
  <2>2. ~(Pure /\ ~c.pureAuthentic)
    BY <1>1, <2>1 DEF AwaitsPaks
  <2>3. d = [c EXCEPT !.state = "active",
                      !.stray = c.stray \/ map # restartedServerId]
    BY <2>1, <2>2 DEF SV_UserMove, SV_ClientThink
  <2>4. Pure => Proved(n) /\ c.pureReceived
    BY <1>1, <2>1 DEF AwaitsPaks
  <2>5. ASSUME Pure PROVE map = restartedServerId
    <3>1. PICK k \in 1 .. n : commands[k].map = restartedServerId
      BY <2>4, <2>5 DEF Proved, ProvesNow
    <3>2. restartedServerId <= map
      BY <2>1, <3>1
    <3>3. restartedServerId \in Nat
      BY DEF CountersOK
    <3> QED BY <3>2, <3>3
  <2>6. /\ d \in ClientRecords /\ d.executed = c.executed /\ d.state = "active"
        /\ d.pureReceived = c.pureReceived /\ d.pureAuthentic = c.pureAuthentic
        /\ d.told = c.told
    <3>1. (c.stray \/ map # restartedServerId) \in BOOLEAN
      OBVIOUS
    <3> QED BY <1>1, <2>3, <3>1 DEF ClientRecords
  <2>7. Pure => ~d.stray
    BY <1>1, <2>3, <2>5 DEF ClientRecords
  <2>8. d.pureReceived => Proved(n)
    BY <1>1, <2>1, <2>6
  <2> HIDE DEF d
  <2> QED BY <1>1, <2>1, <2>4, <2>6, <2>7, <2>8 DEF RunUpTo
<1> QED BY <1>3, <1>4

(* Messages that fall behind the gamestate keep what they say.             *)
LEMMA NowBefore ==
  ASSUME NEW s \in Seq(Packets), NEW m \in Seq(Gamestates \union Snapshots)
  PROVE  /\ Before(s, "ack") \in Seq(Packets)
         /\ DOMAIN Before(s, "ack") = DOMAIN s
         /\ \A i \in DOMAIN s :
              LET p == Before(s, "ack")[i]
              IN /\ p.serverId = s[i].serverId /\ p.map = s[i].map
                 /\ p.upto = s[i].upto
         /\ Before(m, "number") \in Seq(Gamestates \union Snapshots)
         /\ Len(Before(m, "number")) = Len(m)
         /\ \A i \in DOMAIN m :
              LET q == Before(m, "number")[i]
              IN /\ q.type = m[i].type
                 /\ q.type = "gamestate" => /\ q.serverId = m[i].serverId
                                            /\ q.map = m[i].map
                 /\ q.type = "snapshot" => q.told = m[i].told
<1> DEFINE t == Before(s, "ack")
           u == Before(m, "number")
<1>1. /\ DOMAIN s = 1 .. Len(s) /\ Len(s) \in Nat
      /\ DOMAIN m = 1 .. Len(m) /\ Len(m) \in Nat
  BY LenProperties
<1>2. ASSUME NEW i \in DOMAIN s
      PROVE  /\ t[i] \in Packets /\ t[i].serverId = s[i].serverId
             /\ t[i].map = s[i].map /\ t[i].upto = s[i].upto
  <2>1. s[i] \in Packets
    BY <1>1, ElementOfSeq
  <2>2. t[i] = [s[i] EXCEPT !["ack"] = "before"]
    BY DEF Before
  <2> QED BY <2>1, <2>2 DEF Packets, Numbers
<1>3. ASSUME NEW i \in DOMAIN m
      PROVE  /\ u[i] \in Gamestates \union Snapshots /\ u[i].type = m[i].type
             /\ u[i].type = "gamestate" => /\ u[i].serverId = m[i].serverId
                                           /\ u[i].map = m[i].map
             /\ u[i].type = "snapshot" => u[i].told = m[i].told
  <2>1. m[i] \in Gamestates \union Snapshots
    BY <1>1, ElementOfSeq
  <2>2. u[i] = [m[i] EXCEPT !["number"] = "before"]
    BY DEF Before
  <2>3. CASE m[i] \in Gamestates
    BY <2>2, <2>3 DEF Gamestates, Numbers
  <2>4. CASE m[i] \in Snapshots
    BY <2>2, <2>4 DEF Snapshots, Numbers
  <2> QED BY <2>1, <2>3, <2>4
<1>4. DOMAIN t = 1 .. Len(s) /\ t = [i \in 1 .. Len(s) |-> t[i]]
  BY <1>1 DEF Before
<1>5. DOMAIN u = 1 .. Len(m) /\ u = [i \in 1 .. Len(m) |-> u[i]]
  BY <1>1 DEF Before
<1> HIDE DEF t, u
<1>6. t \in [1 .. Len(s) -> Packets]
  BY <1>1, <1>2, <1>4
<1>7. u \in [1 .. Len(m) -> Gamestates \union Snapshots]
  BY <1>1, <1>3, <1>5
<1>8. t \in Seq(Packets)
  BY <1>1, <1>6, FunctionIsSeq
<1>9. u \in Seq(Gamestates \union Snapshots) /\ Len(u) = Len(m)
  BY <1>1, <1>7, FunctionIsSeq
<1> QED BY <1>1, <1>2, <1>3, <1>4, <1>8, <1>9 DEF t, u

-----------------------------------------------------------------------------
(* What stays true while the program goes on.                              *)

(* The server's counters grow, and a new map has a serverId above all.     *)
GoesOn ==
    /\ CountersOK /\ CountersOK'
    /\ serverId <= serverId' /\ restartedServerId <= restartedServerId'
    /\ restartedServerId' = restartedServerId \/ serverId < restartedServerId'
    /\ Restarts' = 0 => Restarts = 0
    /\ misled => misled'

(* Commands that the client issues in a step.                              *)
Issues(new) ==
    /\ new \in Seq(CommandRecords) /\ commands' = commands \o new
    /\ clMap <= clMap' /\ clMap \in Nat /\ clMap' \in Nat
    /\ clMap' <= restartedServerId'
    /\ clState' = "connected" /\ clMap' = clMap => clState = "connected"
    /\ \A k \in DOMAIN new :
         /\ new[k].map <= new[k].serverId /\ new[k].serverId <= serverId'
         /\ new[k].map <= clMap'
         /\ new[k].name = "cp" =>
              /\ clState' # "connected" /\ new[k].map = clMap'
              /\ ~misled' /\ new[k].serverId >= restartedServerId'
                   => new[k].map = restartedServerId'
         /\ new[k].name = "vdr" =>
              \/ clState' = "connected"
              \/ k + 1 \in DOMAIN new /\ new[k + 1].name = "cp"

(* A serverId that came with its map's gamestate stays sound.              *)
LEMMA SoundStays ==
  ASSUME GoesOn, NEW id \in Nat, NEW map, id <= serverId, Sound(id, map)
  PROVE  Sound(id, map)'
<1>1. /\ serverId \in Nat /\ restartedServerId \in Nat /\ restartedServerId' \in Nat
      /\ restartedServerId' = restartedServerId \/ serverId < restartedServerId'
  BY DEF GoesOn, CountersOK
<1> QED BY <1>1 DEF Sound

(* The commands so far stay as they are.                                   *)
LEMMA OldCommands ==
  ASSUME commands \in Seq(CommandRecords), NEW new, Issues(new)
  PROVE  /\ commands' \in Seq(CommandRecords)
         /\ Len(commands) \in Nat /\ Len(commands') \in Nat /\ Len(new) \in Nat
         /\ Len(commands') = Len(commands) + Len(new)
         /\ DOMAIN commands = 1 .. Len(commands) /\ DOMAIN new = 1 .. Len(new)
         /\ DOMAIN commands' = 1 .. Len(commands) + Len(new)
         /\ \A k \in DOMAIN commands : k \in DOMAIN commands' /\ commands'[k] = commands[k]
         /\ \A k \in DOMAIN new : commands'[Len(commands) + k] = new[k]
<1>1. new \in Seq(CommandRecords) /\ commands' = commands \o new
  BY DEF Issues
<1>2. /\ commands' \in Seq(CommandRecords)
      /\ Len(commands') = Len(commands) + Len(new)
      /\ \A i \in 1 .. Len(commands) + Len(new) :
           commands'[i] = IF i <= Len(commands) THEN commands[i]
                          ELSE new[i - Len(commands)]
  BY <1>1, ConcatProperties
<1>3. /\ Len(commands) \in Nat /\ Len(new) \in Nat
      /\ DOMAIN commands = 1 .. Len(commands) /\ DOMAIN new = 1 .. Len(new)
      /\ DOMAIN commands' = 1 .. Len(commands')
  BY <1>1, <1>2, LenProperties
<1>4. \A k \in DOMAIN commands : k \in DOMAIN commands' /\ commands'[k] = commands[k]
  BY <1>2, <1>3
<1>5. ASSUME NEW k \in DOMAIN new PROVE commands'[Len(commands) + k] = new[k]
  <2>1. /\ k \in 1 .. Len(new) /\ Len(commands) + k \in 1 .. Len(commands) + Len(new)
        /\ ~(Len(commands) + k <= Len(commands)) /\ Len(commands) + k - Len(commands) = k
    BY <1>3
  <2> QED BY <1>2, <2>1
<1> QED BY <1>2, <1>3, <1>4, <1>5

(* None of them becomes a proof for a map that is started now.             *)
LEMMA NoLaterProof ==
  ASSUME CommandsOK, GoesOn, NEW new, Issues(new), NEW j \in DOMAIN commands,
         ProvesNow(j)'
  PROVE  ProvesNow(j)
<1>1. commands'[j] = commands[j] /\ commands[j] \in CommandRecords
  BY OldCommands, ElementOfSeq, LenProperties DEF CommandsOK
<1>2. /\ commands[j].map \in Nat /\ commands[j].serverId \in Nat
      /\ commands[j].map <= commands[j].serverId
      /\ commands[j].serverId <= serverId
  BY <1>1 DEF CommandsOK, CommandRecords
<1>3. /\ serverId \in Nat /\ restartedServerId' \in Nat
      /\ restartedServerId' = restartedServerId \/ serverId < restartedServerId'
  BY DEF GoesOn, CountersOK
<1>4. commands[j].map = restartedServerId' /\ Proves(j)
  BY <1>1 DEF ProvesNow, Proves
<1>5. restartedServerId' = restartedServerId
  BY <1>2, <1>3, <1>4
<1> QED BY <1>4, <1>5 DEF ProvesNow

(* What was said of the commands up to n is still true.                    *)
LEMMA WholeStays ==
  ASSUME CommandsOK, GoesOn, NEW new, Issues(new),
         NEW n \in Nat, n <= Len(commands)
  PROVE  /\ Whole(n) => Whole(n)'
         /\ restartedServerId' = restartedServerId => (Proved(n) => Proved(n)')
<1>1. 1 .. n \subseteq DOMAIN commands
  BY OldCommands DEF CommandsOK
<1>2. n \in DOMAIN commands' => n \in DOMAIN commands
  BY OldCommands DEF CommandsOK
<1>3. \A k \in DOMAIN commands : commands'[k] = commands[k]
  BY OldCommands DEF CommandsOK
<1>4. Whole(n) => Whole(n)'
  BY <1>1, <1>2, <1>3, NoLaterProof DEF Whole
<1>5. restartedServerId' = restartedServerId => (Proved(n) => Proved(n)')
  BY <1>1, <1>3 DEF Proved, Proves, ProvesNow
<1> QED BY <1>4, <1>5

(* The commands stay in order.                                             *)
LEMMA CommandsStay ==
  ASSUME CommandsOK, GoesOn, NEW new, Issues(new)
  PROVE  CommandsOK'
<1>1. /\ commands \in Seq(CommandRecords)
      /\ commands' \in Seq(CommandRecords)
      /\ Len(commands) \in Nat /\ Len(new) \in Nat
      /\ DOMAIN commands = 1 .. Len(commands) /\ DOMAIN new = 1 .. Len(new)
      /\ DOMAIN commands' = 1 .. Len(commands) + Len(new)
      /\ \A k \in DOMAIN commands : k \in DOMAIN commands' /\ commands'[k] = commands[k]
      /\ \A k \in DOMAIN new : commands'[Len(commands) + k] = new[k]
  BY OldCommands DEF CommandsOK
<1>2. /\ serverId \in Nat /\ serverId' \in Nat /\ clMap \in Nat /\ clMap' \in Nat
      /\ serverId <= serverId' /\ clMap <= clMap'
      /\ clState' = "connected" /\ clMap' = clMap => clState = "connected"
      /\ clMap' <= restartedServerId' /\ restartedServerId' \in Nat
  BY DEF GoesOn, CountersOK, Issues
<1>3. ASSUME NEW k \in DOMAIN commands
      PROVE  /\ commands[k] \in CommandRecords
             /\ commands[k].map \in Nat /\ commands[k].serverId \in Nat
             /\ commands[k].map <= commands[k].serverId
             /\ commands[k].serverId <= serverId /\ commands[k].map <= clMap
             /\ commands[k].serverId <= serverId' /\ commands[k].map <= clMap'
  <2>1. commands[k] \in CommandRecords
    BY <1>1, ElementOfSeq
  <2>2. commands[k].map \in Nat /\ commands[k].serverId \in Nat
    BY <2>1 DEF CommandRecords
  <2>3. /\ commands[k].map <= commands[k].serverId
        /\ commands[k].serverId <= serverId /\ commands[k].map <= clMap
    BY DEF CommandsOK
  <2> QED BY <1>2, <2>1, <2>2, <2>3
<1>4. ASSUME NEW k \in DOMAIN commands'
      PROVE  k \in DOMAIN commands \/ \E i \in DOMAIN new : k = Len(commands) + i
  <2>1. CASE k <= Len(commands)
    BY <1>1, <2>1
  <2>2. CASE ~(k <= Len(commands))
    <3>1. k - Len(commands) \in DOMAIN new /\ k = Len(commands) + (k - Len(commands))
      BY <1>1, <2>2
    <3> QED BY <3>1
  <2> QED BY <2>1, <2>2
<1>5. ASSUME NEW k \in DOMAIN commands
      PROVE  /\ commands'[k].map <= commands'[k].serverId
             /\ commands'[k].serverId <= serverId' /\ commands'[k].map <= clMap'
             /\ Proves(k)' =>
                  /\ commands'[k].map = clMap' => clState' # "connected"
                  /\ \A j \in 1 .. k : commands'[j].map <= commands'[k].map
             /\ Proves(k)' /\ ~misled'
                  => Sound(commands[k].serverId, commands[k].map)'
             /\ commands'[k].name = "vdr" /\ (\E j \in 1 .. k : ProvesNow(j)')
                  => k + 1 \in DOMAIN commands' /\ Proves(k + 1)'
  <2>1. commands'[k] = commands[k]
    BY <1>1
  <2>2. \A j \in 1 .. k : j \in DOMAIN commands /\ commands'[j] = commands[j]
    BY <1>1
  <2>3. Proves(k)' = Proves(k)
    BY <2>1 DEF Proves
  <2>4. Proves(k)' =>
          /\ commands'[k].map = clMap' => clState' # "connected"
          /\ \A j \in 1 .. k : commands'[j].map <= commands'[k].map
    <3>1. commands'[k].map = clMap' => clMap' = clMap
      BY <1>2, <1>3, <2>1
    <3> QED BY <1>2, <2>1, <2>2, <2>3, <3>1 DEF CommandsOK
  <2>5. ASSUME Proves(k)', ~misled'
        PROVE  commands'[k].serverId >= restartedServerId'
                 => commands'[k].map = restartedServerId'
    <3>1. Sound(commands[k].serverId, commands[k].map)
      BY <2>3, <2>5 DEF CommandsOK, GoesOn
    <3>2. PICK id \in Nat, map \in Nat : /\ id = commands[k].serverId
                                         /\ map = commands[k].map
      BY <1>3
    <3>3. Sound(id, map)'
      BY <1>3, <3>1, <3>2, SoundStays
    <3> QED BY <2>1, <3>2, <3>3 DEF Sound
  <2>6. commands'[k].name = "vdr" /\ (\E j \in 1 .. k : ProvesNow(j)')
          => k + 1 \in DOMAIN commands' /\ Proves(k + 1)'
    <3>1. \A j \in 1 .. k : ProvesNow(j)' => ProvesNow(j)
      BY <2>2, NoLaterProof
    <3>2. k + 1 \in DOMAIN commands =>
            k + 1 \in DOMAIN commands' /\ Proves(k + 1)' = Proves(k + 1)
      BY <1>1 DEF Proves
    <3> QED BY <2>1, <3>1, <3>2 DEF CommandsOK
  <2> QED BY <1>3, <2>1, <2>4, <2>5, <2>6 DEF Sound
<1>6. ASSUME NEW i \in DOMAIN new, NEW k \in Nat, k = Len(commands) + i
      PROVE  /\ commands'[k].map <= commands'[k].serverId
             /\ commands'[k].serverId <= serverId' /\ commands'[k].map <= clMap'
             /\ Proves(k)' =>
                  /\ commands'[k].map = clMap' => clState' # "connected"
                  /\ \A j \in 1 .. k : commands'[j].map <= commands'[k].map
             /\ Proves(k)' /\ ~misled'
                  => Sound(commands[k].serverId, commands[k].map)'
             /\ commands'[k].name = "vdr" /\ (\E j \in 1 .. k : ProvesNow(j)')
                  => k + 1 \in DOMAIN commands' /\ Proves(k + 1)'
  <2>1. commands'[k] = new[i] /\ k \in DOMAIN commands'
    BY <1>1, <1>6
  <2>2. /\ new[i].map <= new[i].serverId /\ new[i].serverId <= serverId'
        /\ new[i].map <= clMap'
        /\ new[i].name = "cp" =>
             /\ clState' # "connected" /\ new[i].map = clMap'
             /\ ~misled' /\ new[i].serverId >= restartedServerId'
                  => new[i].map = restartedServerId'
        /\ new[i].name = "vdr" =>
             \/ clState' = "connected"
             \/ i + 1 \in DOMAIN new /\ new[i + 1].name = "cp"
    BY DEF Issues
  <2>3. ASSUME NEW j \in DOMAIN commands'
        PROVE  /\ commands'[j].map <= clMap' /\ commands'[j].map \in Nat
               /\ ProvesNow(j)' => clState' # "connected"
    <3>1. CASE j \in DOMAIN commands
      <4>1. commands'[j] = commands[j]
        BY <1>1, <3>1
      <4>2. /\ commands'[j].map <= clMap' /\ commands'[j].map \in Nat
            /\ Proves(j)' /\ commands'[j].map = clMap' => clState' # "connected"
        BY <1>3, <1>5, <3>1, <4>1
      <4>3. ProvesNow(j)' => Proves(j)' /\ commands'[j].map = clMap'
        BY <1>2, <4>2 DEF ProvesNow
      <4> QED BY <4>2, <4>3
    <3>2. CASE j \notin DOMAIN commands
      <4>1. PICK l \in DOMAIN new : j = Len(commands) + l
        BY <1>4, <3>2
      <4>2. commands'[j] = new[l]
        BY <1>1, <4>1
      <4>3. new[l] \in CommandRecords
        BY <1>1, <4>1, ElementOfSeq DEF Issues
      <4> QED BY <4>2, <4>3 DEF Issues, Proves, ProvesNow, CommandRecords
    <3> QED BY <3>1, <3>2
  <2>4. \A j \in 1 .. k : j \in DOMAIN commands'
    BY <1>1, <1>6
  <2>5. ASSUME commands'[k].name = "vdr", NEW j \in 1 .. k, ProvesNow(j)'
        PROVE  k + 1 \in DOMAIN commands' /\ Proves(k + 1)'
    <3>1. i + 1 \in DOMAIN new /\ new[i + 1].name = "cp"
      BY <2>1, <2>2, <2>3, <2>4, <2>5
    <3>2. k + 1 = Len(commands) + (i + 1)
      BY <1>1, <1>6
    <3>3. k + 1 \in DOMAIN commands'
      BY <1>1, <3>1, <3>2
    <3>4. commands'[k + 1] = new[i + 1]
      BY <1>1, <3>1, <3>2
    <3> QED BY <3>1, <3>3, <3>4 DEF Proves
  <2>6. Proves(k)' => \A j \in 1 .. k : commands'[j].map <= commands'[k].map
    BY <2>1, <2>2, <2>3, <2>4 DEF Proves
  <2>7. Proves(k)' => clState' # "connected"
    BY <2>1, <2>2 DEF Proves
  <2>8. Proves(k)' /\ ~misled'
          => Sound(commands[k].serverId, commands[k].map)'
    BY <2>1, <2>2 DEF Proves, Sound
  <2> QED BY <2>1, <2>2, <2>5, <2>6, <2>7, <2>8
<1>7. ASSUME NEW k \in DOMAIN commands'
      PROVE  /\ commands'[k].map <= commands'[k].serverId
             /\ commands'[k].serverId <= serverId' /\ commands'[k].map <= clMap'
             /\ Proves(k)' =>
                  /\ commands'[k].map = clMap' => clState' # "connected"
                  /\ \A j \in 1 .. k : commands'[j].map <= commands'[k].map
             /\ Proves(k)' /\ ~misled'
                  => Sound(commands[k].serverId, commands[k].map)'
             /\ commands'[k].name = "vdr" /\ (\E j \in 1 .. k : ProvesNow(j)')
                  => k + 1 \in DOMAIN commands' /\ Proves(k + 1)'
  <2>1. k \in Nat
    BY <1>1
  <2>2. CASE k \in DOMAIN commands
    BY <1>5, <2>2
  <2>3. CASE \E i \in DOMAIN new : k = Len(commands) + i
    BY <1>6, <2>1, <2>3
  <2> QED BY <1>4, <2>2, <2>3
<1> QED BY <1>1, <1>7 DEF CommandsOK

(* What the server knows of a client when the rest goes on.                *)
LEMMA RunStays ==
  ASSUME CommandsOK, GoesOn, NEW new, Issues(new),
         NEW n \in Nat, n <= Len(commands), NEW c, RunUpTo(c, n),
         \/ restartedServerId' = restartedServerId
         \/ c.state \in {"connected", "zombie"}
  PROVE  RunUpTo(c, n)'
<1>1. /\ c \in ClientRecords /\ c.executed <= n /\ c.told \in Nat
      /\ c.state # "zombie" => c.executed = n
      /\ c.pureReceived = c.pureAuthentic
      /\ c.state \in {"primed", "active"} /\ c.pureReceived => Proved(n)
      /\ Pure /\ c.state = "active" => Proved(n)
      /\ Pure /\ c.state = "active" /\ ~c.pureReceived
           => n \in DOMAIN commands /\ commands[n].name = "vdr"
      /\ Pure => ~c.stray
      /\ c.state = "zombie" => misled
      /\ c.told <= serverId /\ (Restarts = 0 => c.told = 0)
  BY DEF RunUpTo, ClientRecords
<1>2. /\ serverId \in Nat /\ serverId' \in Nat /\ serverId <= serverId'
      /\ Restarts \in Nat /\ Restarts' \in Nat
      /\ Restarts' = 0 => Restarts = 0
  BY DEF GoesOn, CountersOK, Restarts
<1>3. c.told <= serverId' /\ (Restarts' = 0 => c.told = 0)
  BY <1>1, <1>2
<1>4. c.state = "zombie" => misled'
  BY <1>1 DEF GoesOn
<1>5. c.state \in {"primed", "active"} => (Proved(n) => Proved(n)')
  BY <1>1, WholeStays
<1>6. n \in DOMAIN commands => n \in DOMAIN commands' /\ commands'[n] = commands[n]
  BY OldCommands DEF CommandsOK
<1> QED BY <1>1, <1>3, <1>4, <1>5, <1>6 DEF RunUpTo

(* The client_t becomes one that has run its commands.                     *)
LEMMA ServerStays ==
  ASSUME CommandsOK, GoesOn, NEW new, Issues(new), NEW c,
         client' = c, RunUpTo(c, c.executed), c.executed <= Len(commands),
         c.state # "zombie" => Whole(c.executed), c.sends = FALSE,
         \/ restartedServerId' = restartedServerId
         \/ c.state \in {"connected", "zombie"}
  PROVE  ServerOK'
<1>1. c.executed \in Nat
  BY DEF RunUpTo, ClientRecords
<1>2. RunUpTo(c, c.executed)'
  BY <1>1, RunStays
<1>3. c.executed <= Len(commands')
  <2>1. /\ Len(commands) \in Nat /\ Len(new) \in Nat
        /\ Len(commands') = Len(commands) + Len(new)
    BY OldCommands DEF CommandsOK
  <2> QED BY <1>1, <2>1
<1>4. c.state # "zombie" => Whole(c.executed)'
  BY <1>1, WholeStays
<1> QED BY <1>2, <1>3, <1>4 DEF ServerOK

(* A packet says no more than it said.                                     *)
LEMMA PacketStays ==
  ASSUME CommandsOK, GoesOn, NEW new, Issues(new),
         NEW p \in Packets, PacketOK(p)
  PROVE  PacketOK(p)'
<1>1. p.serverId \in Nat /\ p.map \in Nat /\ p.upto \in Nat
  BY DEF Packets
<1>2. /\ p.serverId <= serverId /\ p.map <= clMap
      /\ p.upto <= Len(commands) /\ Whole(p.upto)
      /\ p.map = 0 \/ \A k \in 1 .. p.upto : commands[k].map <= p.map
  BY DEF PacketOK
<1>3. /\ serverId \in Nat /\ serverId' \in Nat /\ serverId <= serverId'
      /\ clMap \in Nat /\ clMap' \in Nat /\ clMap <= clMap'
  BY DEF GoesOn, CountersOK, Issues
<1>4. p.serverId <= serverId' /\ p.map <= clMap'
  BY <1>1, <1>2, <1>3
<1>5. /\ Len(commands) \in Nat /\ Len(new) \in Nat
      /\ Len(commands') = Len(commands) + Len(new)
      /\ DOMAIN commands = 1 .. Len(commands)
      /\ \A k \in DOMAIN commands : commands'[k] = commands[k]
  BY OldCommands DEF CommandsOK
<1>6. p.upto <= Len(commands')
  BY <1>1, <1>2, <1>5
<1>7. \A k \in 1 .. p.upto : k \in DOMAIN commands
  BY <1>1, <1>2, <1>5
<1>8. p.map = 0 \/ \A k \in 1 .. p.upto : commands'[k].map <= p.map
  BY <1>2, <1>5, <1>7
<1>9. Whole(p.upto)'
  BY <1>1, <1>2, WholeStays
<1> QED BY <1>4, <1>6, <1>8, <1>9 DEF PacketOK

(* Nor do all of them.                                                     *)
LEMMA PacketsStay ==
  ASSUME CommandsOK, GoesOn, NEW new, Issues(new),
         NEW s, NEW e, PacketsIn(s, e), toServer' = s, client'.executed = e
  PROVE  PacketsOK'
<1>1. \A i \in DOMAIN s : s[i] \in Packets
  BY ElementOfSeq, LenProperties DEF PacketsIn
<1>2. \A i \in DOMAIN s : PacketOK(s[i])'
  <2>1. TAKE i \in DOMAIN s
  <2>2. PICK p \in Packets : p = s[i] /\ PacketOK(p)
    BY <1>1 DEF PacketsIn
  <2>3. PacketOK(p)'
    BY <2>2, PacketStays
  <2> QED BY <2>2, <2>3
<1>3. PacketsIn(s, e)'
  BY <1>2 DEF PacketsIn
<1> QED BY <1>3 DEF PacketsOK

(* The first packet is taken, and what is left is known to be older than a *)
(* gamestate or is not.                                                    *)
LEMMA PacketTaken ==
  ASSUME NEW s, NEW e, NEW d, PacketsIn(s, e), s # <<>>,
         d \in Nat, d <= s[1].upto
  PROVE  PacketsIn(Tail(s), d) /\ PacketsIn(Before(Tail(s), "ack"), d)
<1>1. /\ s \in Seq(Packets) /\ Len(s) \in Nat /\ Len(s) >= 1
      /\ DOMAIN s = 1 .. Len(s)
  BY LenProperties, EmptySeq DEF PacketsIn
<1>2. /\ Tail(s) \in Seq(Packets) /\ Len(Tail(s)) = Len(s) - 1
      /\ \A i \in 1 .. Len(Tail(s)) : Tail(s)[i] = s[i + 1]
  BY <1>1, HeadTailProperties
<1>3. DOMAIN Tail(s) = 1 .. Len(s) - 1
  BY <1>2, LenProperties
<1>4. \A i \in DOMAIN Tail(s) : i + 1 \in DOMAIN s /\ 1 < i + 1 /\ Tail(s)[i] = s[i + 1]
  BY <1>1, <1>2, <1>3
<1>5. 1 \in DOMAIN s
  BY <1>1
<1>6. ASSUME NEW i \in DOMAIN Tail(s)
      PROVE  PacketOK(Tail(s)[i]) /\ d <= Tail(s)[i].upto
  <2>1. PacketOK(Tail(s)[i]) /\ s[1].upto <= s[i + 1].upto
    BY <1>4, <1>5 DEF PacketsIn
  <2>2. s[1] \in Packets /\ s[i + 1] \in Packets
    BY <1>1, <1>4, <1>5, ElementOfSeq
  <2>3. s[1].upto \in Nat /\ s[i + 1].upto \in Nat
    BY <2>2 DEF Packets
  <2> QED BY <1>4, <2>1, <2>3
<1>7. ASSUME NEW i \in DOMAIN Tail(s), NEW j \in DOMAIN Tail(s), i < j
      PROVE  Tail(s)[i].upto <= Tail(s)[j].upto
  <2>1. i + 1 < j + 1
    BY <1>1, <1>3, <1>7
  <2> QED BY <1>4, <2>1 DEF PacketsIn
<1>8. PacketsIn(Tail(s), d)
  BY <1>2, <1>6, <1>7 DEF PacketsIn
<1> DEFINE t == Tail(s)
           b == Before(t, "ack")
<1> HIDE DEF t
<1>9. PICK m : m \in Seq(Gamestates \union Snapshots)
  BY EmptySeq
<1>10. /\ b \in Seq(Packets) /\ DOMAIN b = DOMAIN t
       /\ \A i \in DOMAIN t : /\ b[i].serverId = t[i].serverId
                              /\ b[i].map = t[i].map /\ b[i].upto = t[i].upto
  BY <1>2, <1>9, NowBefore DEF t
<1> HIDE DEF b
<1>11. \A i \in DOMAIN b : PacketOK(t[i]) => PacketOK(b[i])
  BY <1>10 DEF PacketOK
<1>12. PacketsIn(b, d)
  BY <1>8, <1>10, <1>11 DEF PacketsIn, t
<1> QED BY <1>8, <1>12 DEF b, t

(* A message says no more than it said, if the client had no later map.    *)
LEMMA MessagesStay ==
  ASSUME GoesOn, NEW q, MessagesIn(q), toClient' = q,
         \A i \in DOMAIN q : q[i].type = "gamestate" => clMap' <= q[i].map
  PROVE  MessagesOK'
<1>1. \A i \in DOMAIN q : q[i] \in Gamestates \union Snapshots
  BY ElementOfSeq, LenProperties DEF MessagesIn
<1>2. ASSUME NEW m \in Gamestates \union Snapshots, MessageOK(m),
             m.type = "gamestate" => clMap' <= m.map
      PROVE  MessageOK(m)'
  <2>1. /\ serverId \in Nat /\ serverId' \in Nat /\ serverId <= serverId'
        /\ restartedServerId \in Nat /\ restartedServerId' \in Nat
        /\ restartedServerId <= restartedServerId'
        /\ Restarts' = 0 => Restarts = 0
    BY DEF GoesOn, CountersOK
  <2>2. CASE m \in Gamestates
    <3>1. m.type = "gamestate" /\ m.serverId \in Nat /\ m.map \in Nat
      BY <2>2 DEF Gamestates
    <3>2. /\ m.map <= m.serverId /\ m.serverId <= serverId
          /\ m.map <= restartedServerId /\ Sound(m.serverId, m.map)
      BY <1>2, <3>1 DEF MessageOK
    <3>3. Sound(m.serverId, m.map)'
      <4>1. PICK id \in Nat, map \in Nat : id = m.serverId /\ map = m.map
        BY <3>1
      <4>2. Sound(id, map)'
        BY <3>2, <4>1, SoundStays
      <4> QED BY <4>1, <4>2
    <3>4. m.serverId <= serverId' /\ m.map <= restartedServerId'
      BY <2>1, <3>1, <3>2
    <3> QED BY <1>2, <3>1, <3>2, <3>3, <3>4 DEF MessageOK
  <2>3. CASE m \in Snapshots
    <3>1. m.type = "snapshot" /\ m.told \in Nat
      BY <2>3 DEF Snapshots
    <3>2. m.told <= serverId /\ (Restarts = 0 => m.told = 0)
      BY <1>2, <3>1 DEF MessageOK
    <3>3. m.told <= serverId' /\ (Restarts' = 0 => m.told = 0)
      BY <2>1, <3>1, <3>2
    <3> QED BY <3>1, <3>3 DEF MessageOK
  <2> QED BY <2>2, <2>3
<1>3. \A i \in DOMAIN q : MessageOK(q[i])'
  <2>1. TAKE i \in DOMAIN q
  <2>2. PICK m \in Gamestates \union Snapshots : m = q[i]
    BY <1>1
  <2>3. MessageOK(m)'
    BY <1>2, <2>2 DEF MessagesIn
  <2> QED BY <2>2, <2>3
<1>4. MessagesIn(q)'
  BY <1>3 DEF MessagesIn
<1> QED BY <1>4 DEF MessagesOK

(* The first message is taken.                                             *)
LEMMA MessageTaken ==
  ASSUME NEW q, MessagesIn(q), q # <<>>
  PROVE  /\ MessagesIn(Tail(q))
         /\ q[1] \in Gamestates \union Snapshots /\ MessageOK(q[1])
         /\ \A i \in DOMAIN Tail(q) :
              /\ q[1].type = "gamestate" /\ Tail(q)[i].type = "gamestate"
              => q[1].map <= Tail(q)[i].map
<1>1. /\ q \in Seq(Gamestates \union Snapshots) /\ Len(q) \in Nat /\ Len(q) >= 1
      /\ DOMAIN q = 1 .. Len(q)
  BY LenProperties, EmptySeq DEF MessagesIn
<1>2. /\ Tail(q) \in Seq(Gamestates \union Snapshots) /\ Len(Tail(q)) = Len(q) - 1
      /\ \A i \in 1 .. Len(Tail(q)) : Tail(q)[i] = q[i + 1]
  BY <1>1, HeadTailProperties
<1>3. DOMAIN Tail(q) = 1 .. Len(q) - 1
  BY <1>2, LenProperties
<1>4. \A i \in DOMAIN Tail(q) : i + 1 \in DOMAIN q /\ 1 < i + 1 /\ Tail(q)[i] = q[i + 1]
  BY <1>1, <1>2, <1>3
<1>5. 1 \in DOMAIN q /\ q[1] \in Gamestates \union Snapshots
  BY <1>1, ElementOfSeq
<1>6. \A i, j \in DOMAIN Tail(q) : i < j => i + 1 < j + 1
  BY <1>1, <1>3
<1>7. \A i \in DOMAIN Tail(q) : MessageOK(Tail(q)[i])
  BY <1>4 DEF MessagesIn
<1>8. ASSUME NEW i \in DOMAIN Tail(q), NEW j \in DOMAIN Tail(q),
             Tail(q)[i].type = "gamestate", Tail(q)[j].type = "gamestate", i < j
      PROVE  Tail(q)[i].map <= Tail(q)[j].map
  BY <1>4, <1>6, <1>8 DEF MessagesIn
<1>9. MessagesIn(Tail(q))
  BY <1>2, <1>7, <1>8 DEF MessagesIn
<1> QED BY <1>4, <1>5, <1>9 DEF MessagesIn

(* A message is sent: a gamestate of no earlier map than those before it.  *)
LEMMA MessageSent ==
  ASSUME NEW q, MessagesIn(q), NEW m \in Gamestates \union Snapshots, MessageOK(m),
         \A i \in DOMAIN q :
           m.type = "gamestate" /\ q[i].type = "gamestate" => q[i].map <= m.map
  PROVE  MessagesIn(Append(q, m))
<1> DEFINE r == Append(q, m)
<1>1. /\ q \in Seq(Gamestates \union Snapshots) /\ Len(q) \in Nat
      /\ DOMAIN q = 1 .. Len(q)
  BY LenProperties DEF MessagesIn
<1>2. /\ r \in Seq(Gamestates \union Snapshots) /\ Len(r) = Len(q) + 1
      /\ \A i \in 1 .. Len(q) : r[i] = q[i]
      /\ r[Len(q) + 1] = m
  BY <1>1, AppendProperties
<1> HIDE DEF r
<1>3. DOMAIN r = 1 .. Len(q) + 1
  BY <1>2, LenProperties
<1>4. \A i \in DOMAIN r : i # Len(q) + 1 => i \in DOMAIN q /\ r[i] = q[i]
  BY <1>1, <1>2, <1>3
<1>5. \A i \in DOMAIN r : MessageOK(r[i])
  BY <1>2, <1>4 DEF MessagesIn
<1>6. \A i, j \in DOMAIN r : i < j => i # Len(q) + 1
  BY <1>1, <1>3
<1>7. ASSUME NEW i \in DOMAIN r, NEW j \in DOMAIN r,
             r[i].type = "gamestate", r[j].type = "gamestate", i < j
      PROVE  r[i].map <= r[j].map
  <2>1. i \in DOMAIN q /\ r[i] = q[i]
    BY <1>4, <1>6, <1>7
  <2>2. CASE j = Len(q) + 1
    BY <1>2, <1>7, <2>1, <2>2
  <2>3. CASE j # Len(q) + 1
    <3>1. j \in DOMAIN q /\ r[j] = q[j]
      BY <1>4, <2>3
    <3> QED BY <1>7, <2>1, <3>1 DEF MessagesIn
  <2> QED BY <2>2, <2>3
<1> QED BY <1>2, <1>5, <1>7 DEF MessagesIn, r

(* A gamestate is sent, and the messages before it are older.              *)
LEMMA GamestateSent ==
  ASSUME CountersOK, ClientOK, NEW q, MessagesIn(q)
  PROVE  MessagesIn(Append(Before(q, "number"), Gamestate))
<1> DEFINE b == Before(q, "number")
<1>1. q \in Seq(Gamestates \union Snapshots) /\ Len(q) \in Nat
      /\ DOMAIN q = 1 .. Len(q)
  BY LenProperties DEF MessagesIn
<1>2. PICK s : s \in Seq(Packets)
  BY EmptySeq
<1>3. /\ b \in Seq(Gamestates \union Snapshots) /\ Len(b) = Len(q)
      /\ \A i \in DOMAIN q :
              /\ b[i].type = q[i].type
              /\ b[i].type = "gamestate" => /\ b[i].serverId = q[i].serverId
                                            /\ b[i].map = q[i].map
              /\ b[i].type = "snapshot" => b[i].told = q[i].told
  BY <1>1, <1>2, NowBefore
<1> HIDE DEF b
<1>4. DOMAIN b = DOMAIN q
  BY <1>1, <1>3, LenProperties
<1>5. \A i \in DOMAIN b : MessageOK(q[i]) => MessageOK(b[i])
  BY <1>3, <1>4 DEF MessageOK
<1>6. MessagesIn(b)
  BY <1>3, <1>4, <1>5 DEF MessagesIn
<1>7. Gamestate \in Gamestates /\ MessageOK(Gamestate)
  BY DEF Gamestate, Gamestates, Numbers, MessageOK, CountersOK, ClientOK, Sound
<1>8. \A i \in DOMAIN b : b[i].type = "gamestate" => b[i].map <= Gamestate.map
  BY <1>6 DEF MessagesIn, MessageOK, Gamestate
<1> HIDE DEF Gamestate
<1>9. MessagesIn(Append(b, Gamestate))
  BY <1>6, <1>7, <1>8, MessageSent
<1> QED BY <1>9 DEF b

-----------------------------------------------------------------------------
(* What a step leaves alone.                                               *)

(* A step of the client: the server's counters stay.                       *)
LEMMA Steady ==
  ASSUME CountersOK, misled' \in BOOLEAN, misled => misled',
         misled' => Restarts > 0,
         UNCHANGED <<serverId, restartedServerId, systeminfo, maps>>
  PROVE  GoesOn
BY DEF GoesOn, CountersOK, Restarts

(* No command is issued.                                                   *)
LEMMA Silent ==
  ASSUME ClientOK, CommandsOK, GoesOn, clMap' \in Nat, clMap <= clMap',
         clMap' <= restartedServerId,
         clState' = "connected" /\ clMap' = clMap => clState = "connected",
         commands' = commands
  PROVE  Issues(<<>>)
<1>1. commands \in Seq(CommandRecords) /\ <<>> \in Seq(CommandRecords)
  BY EmptySeq DEF CommandsOK
<1>2. commands \o <<>> = commands
  BY <1>1, ConcatEmptySeq
<1>3. DOMAIN <<>> = {}
  OBVIOUS
<1>4. clMap' <= restartedServerId'
  BY DEF GoesOn, CountersOK
<1> QED BY <1>1, <1>2, <1>3, <1>4 DEF Issues, ClientOK

(* A step of the server: what the client has stays.                        *)
LEMMA ClientStays ==
  ASSUME ClientOK, GoesOn, clAck' \in Numbers,
         UNCHANGED <<clState, clServerId, clMap, clWaits, clFetches>>
  PROVE  ClientOK'
<1>1. /\ clServerId \in Nat /\ clMap \in Nat
      /\ clMap <= clServerId /\ clServerId <= serverId
      /\ clMap <= restartedServerId
      /\ clState = "connected" \/ Restarts = 0 => Sound(clServerId, clMap)
  BY DEF ClientOK
<1>2. /\ serverId \in Nat /\ serverId' \in Nat /\ serverId <= serverId'
      /\ restartedServerId \in Nat /\ restartedServerId' \in Nat
      /\ restartedServerId <= restartedServerId'
      /\ Restarts' = 0 => Restarts = 0
  BY DEF GoesOn, CountersOK
<1>3. ASSUME clState = "connected" \/ Restarts' = 0
      PROVE  Sound(clServerId, clMap)'
  <2>1. PICK id \in Nat, map \in Nat : id = clServerId /\ map = clMap
    BY <1>1
  <2>2. Sound(id, map)'
    BY <1>1, <1>2, <1>3, <2>1, SoundStays
  <2> QED BY <2>1, <2>2 DEF Sound
<1>4. clServerId <= serverId' /\ clMap <= restartedServerId'
  BY <1>1, <1>2
<1> QED BY <1>3, <1>4 DEF ClientOK

(* Nothing happens to the messages.                                        *)
LEMMA MessagesWait ==
  ASSUME GoesOn, MessagesOK, UNCHANGED <<toClient, clMap>>
  PROVE  MessagesOK'
<1>1. PICK q : q = toClient
  OBVIOUS
<1>2. \A i \in DOMAIN q : q[i].type = "gamestate" => clMap' <= q[i].map
  BY <1>1 DEF MessagesOK, MessagesIn, MessageOK
<1> QED BY <1>1, <1>2, MessagesStay DEF MessagesOK

(* Nothing happens to the packets, or the first of them.                   *)
LEMMA PacketsWait ==
  ASSUME PacketsOK, CommandsOK, GoesOn, NEW new, Issues(new),
         UNCHANGED toServer, client'.executed = client.executed
  PROVE  PacketsOK'
<1>1. PICK s, e : s = toServer /\ e = client.executed
  OBVIOUS
<1> QED BY <1>1, PacketsStay DEF PacketsOK

(* Nothing happens to the client_t.                                        *)
LEMMA ServerWaits ==
  ASSUME ServerOK, CommandsOK, GoesOn, NEW new, Issues(new),
         UNCHANGED <<restartedServerId, client>>
  PROVE  ServerOK'
<1>1. PICK c : c = client
  OBVIOUS
<1> QED BY <1>1, ServerStays DEF ServerOK

-----------------------------------------------------------------------------
(* The steps of the server.                                                *)

(* A packet is executed, and the client_t becomes c.                       *)
LEMMA Becomes ==
  ASSUME GameInv, toServer # <<>>, NEW c, Become(c),
         RunUpTo(c, c.executed), c.executed <= Len(commands),
         c.executed <= toServer[1].upto,
         c.state # "zombie" => Whole(c.executed),
         UNCHANGED <<clState, clServerId, clMap, clWaits, clFetches, commands,
                     misled, serverId, restartedServerId, systeminfo, maps>>
  PROVE  GameInv'
<1> DEFINE d == [c EXCEPT !.sends = FALSE]
<1>1. CountersOK /\ ClientOK /\ CommandsOK /\ PacketsOK /\ MessagesOK
  BY DEF GameInv
<1>2. CountersOK'
  BY <1>1 DEF CountersOK, Restarts
<1>3. GoesOn
  BY <1>1, Steady DEF CountersOK
<1>4. Issues(<<>>)
  BY <1>1, <1>3, Silent DEF ClientOK
<1>5. client' = d /\ c \in ClientRecords
  BY DEF Become, RunUpTo
<1>6. /\ d \in ClientRecords /\ d.sends = FALSE /\ d.executed = c.executed
      /\ d.executed \in Nat
      /\ d.state = c.state /\ d.pureReceived = c.pureReceived
      /\ d.pureAuthentic = c.pureAuthentic /\ d.stray = c.stray
      /\ d.told = c.told
  BY <1>5 DEF ClientRecords
<1> HIDE DEF d
<1>7. RunUpTo(d, d.executed)
  BY <1>6 DEF RunUpTo
<1>8. ServerOK'
  BY <1>1, <1>3, <1>4, <1>5, <1>6, <1>7, ServerStays
<1>9. PacketsIn(Tail(toServer), d.executed)
      /\ PacketsIn(Before(Tail(toServer), "ack"), d.executed)
  BY <1>1, <1>6, PacketTaken DEF PacketsOK
<1>10. PICK s : s = toServer'
  OBVIOUS
<1>11. PacketsIn(s, d.executed)
  BY <1>9, <1>10 DEF Become
<1>12. PacketsOK'
  BY <1>1, <1>3, <1>4, <1>5, <1>10, <1>11, PacketsStay
<1>13. MessagesIn(toClient)
       /\ MessagesIn(Append(Before(toClient, "number"), Gamestate))
  BY <1>1, GamestateSent DEF MessagesOK
<1>14. PICK q : q = toClient'
  OBVIOUS
<1>15. MessagesIn(q)
  BY <1>13, <1>14 DEF Become
<1>16. \A i \in DOMAIN q : q[i].type = "gamestate" => clMap' <= q[i].map
  BY <1>15 DEF MessagesIn, MessageOK
<1>17. MessagesOK'
  BY <1>3, <1>14, <1>15, <1>16, MessagesStay
<1>18. clAck' \in Numbers
  BY <1>1 DEF Become, Numbers, ClientOK
<1>19. ClientOK'
  BY <1>1, <1>3, <1>18, ClientStays
<1>20. CommandsOK'
  BY <1>1, <1>3, <1>4, CommandsStay
<1> QED BY <1>2, <1>8, <1>12, <1>17, <1>19, <1>20 DEF GameInv

(* The server executes the message of a packet.                            *)
LEMMA ExecuteStep ==
  ASSUME GameInv, SV_ExecuteClientMessage
  PROVE  GameInv'
<1> DEFINE p == Head(toServer)
           c == SV_ClientCommands(client, p.upto)
           d == SV_UserMove(c, p.map)
           g == SV_SendClientGameState(client)
<1>1. CountersOK /\ ClientOK /\ CommandsOK /\ PacketsOK /\ ServerOK
  BY DEF GameInv
<1>2. toServer # <<>> /\ client.state # "zombie"
  BY DEF SV_ExecuteClientMessage
<1>3. UNCHANGED <<clState, clServerId, clMap, clWaits, clFetches, commands,
                  misled, serverId, restartedServerId, systeminfo, maps>>
  BY DEF SV_ExecuteClientMessage
<1>4. p = toServer[1] /\ p \in Packets /\ 1 \in DOMAIN toServer
  <2>1. toServer \in Seq(Packets)
    BY <1>1 DEF PacketsOK, PacketsIn
  <2>2. DOMAIN toServer = 1 .. Len(toServer) /\ Len(toServer) \in Nat /\ Len(toServer) # 0
    BY <1>2, <2>1, LenProperties, EmptySeq
  <2> QED BY <1>2, <2>1, <2>2, ElementOfSeq
<1> HIDE DEF p
<1>5. PacketOK(p) /\ client.executed <= p.upto /\ p.upto \in Nat /\ p.map \in Nat
  BY <1>1, <1>4 DEF PacketsOK, PacketsIn, Packets
<1>6. /\ RunUpTo(client, client.executed) /\ client.executed <= Len(commands)
      /\ Whole(client.executed)
  BY <1>1, <1>2 DEF ServerOK
<1>7. CASE Become(client)
  BY <1>2, <1>3, <1>4, <1>5, <1>6, <1>7, Becomes
<1>8. CASE Become(g)
  <2>1. client \in ClientRecords
    BY <1>6 DEF RunUpTo
  <2>2. /\ g \in ClientRecords /\ g.executed = client.executed
        /\ g.state = "primed" /\ g.pureReceived = FALSE
        /\ g.pureAuthentic = FALSE /\ g.stray = client.stray
        /\ g.told = client.told
    BY <2>1 DEF ClientRecords, SV_SendClientGameState
  <2> HIDE DEF g
  <2>3. RunUpTo(g, g.executed)
    BY <1>6, <2>2 DEF RunUpTo
  <2> QED BY <1>2, <1>3, <1>4, <1>5, <1>6, <1>8, <2>2, <2>3, Becomes
<1>9. CASE Become(d)
  <2>1. /\ p.upto <= Len(commands) /\ Whole(p.upto) /\ p.map <= clMap
        /\ p.map = 0 \/ \A k \in 1 .. p.upto : commands[k].map <= p.map
    BY <1>5 DEF PacketOK
  <2>2. RunUpTo(c, p.upto)
    BY <1>1, <1>5, <1>6, <2>1, AllCommands
  <2> HIDE DEF c
  <2>3. RunUpTo(d, p.upto) /\ d.executed = c.executed
    BY <1>1, <1>5, <2>1, <2>2, Moved DEF ClientOK
  <2> HIDE DEF d
  <2>4. /\ d.executed \in Nat /\ d.executed <= p.upto
        /\ d.state # "zombie" => d.executed = p.upto
    BY <2>3 DEF RunUpTo, ClientRecords
  <2>5. RunUpTo(d, d.executed)
    BY <2>3, <2>4 DEF RunUpTo
  <2>6. Len(commands) \in Nat
    BY <1>1, LenProperties DEF CommandsOK
  <2>7. d.executed <= Len(commands)
    BY <1>5, <2>1, <2>4, <2>6
  <2>8. d.state # "zombie" => Whole(d.executed)
    BY <2>1, <2>4
  <2> QED BY <1>2, <1>3, <1>4, <1>9, <2>4, <2>5, <2>7, <2>8, Becomes
<1>10. Become(client) \/ Become(g) \/ Become(d)
  BY DEF SV_ExecuteClientMessage, p
<1> QED BY <1>7, <1>8, <1>9, <1>10

(* The server sends a snapshot.                                            *)
LEMMA SnapshotStep ==
  ASSUME GameInv, SV_SendClientSnapshot
  PROVE  GameInv'
<1> DEFINE m == [type |-> "snapshot", number |-> "after",
                 active |-> client.state = "active", told |-> client.told]
<1>1. CountersOK /\ ClientOK /\ CommandsOK /\ PacketsOK /\ MessagesOK /\ ServerOK
  BY DEF GameInv
<1>2. toClient' = Append(toClient, m) /\ UNCHANGED <<clientVars, serverVars, toServer>>
  BY DEF SV_SendClientSnapshot
<1>3. CountersOK'
  BY <1>1, <1>2 DEF CountersOK, Restarts, serverVars, clientVars
<1>4. GoesOn
  BY <1>1, <1>2, Steady DEF CountersOK, serverVars, clientVars
<1>5. Issues(<<>>)
  BY <1>1, <1>2, <1>4, Silent DEF ClientOK, clientVars
<1>6. ClientOK'
  BY <1>1, <1>2, <1>4, ClientStays DEF ClientOK, clientVars
<1>7. CommandsOK'
  BY <1>1, <1>4, <1>5, CommandsStay
<1>8. PacketsOK'
  BY <1>1, <1>2, <1>4, <1>5, PacketsWait DEF serverVars
<1>9. ServerOK'
  BY <1>1, <1>2, <1>4, <1>5, ServerWaits DEF serverVars
<1>10. /\ client.told \in Nat /\ client.told <= serverId
       /\ Restarts = 0 => client.told = 0
  BY <1>1 DEF ServerOK, RunUpTo, ClientRecords
<1>11. (client.state = "active") \in BOOLEAN
  OBVIOUS
<1>12. m \in Snapshots /\ m.type = "snapshot" /\ MessageOK(m)
  BY <1>10, <1>11 DEF Snapshots, Numbers, MessageOK
<1> HIDE DEF m
<1>13. PICK q : q = toClient'
  OBVIOUS
<1>14. MessagesIn(q)
  BY <1>1, <1>2, <1>12, <1>13, MessageSent DEF MessagesOK
<1>15. \A i \in DOMAIN q : q[i].type = "gamestate" => clMap' <= q[i].map
  BY <1>2, <1>14 DEF MessagesIn, MessageOK, clientVars
<1>16. MessagesOK'
  BY <1>4, <1>13, <1>14, <1>15, MessagesStay
<1> QED BY <1>3, <1>6, <1>7, <1>8, <1>9, <1>16 DEF GameInv

(* A step of the server that sends nothing and runs nothing: the rest      *)
(* follows from its counters and the client_t.                             *)
LEMMA ServerStep ==
  ASSUME GameInv, GoesOn, UNCHANGED <<clientVars, toServer, toClient>>,
         NEW c, client' = c, RunUpTo(c, c.executed),
         c.executed = client.executed, client.state # "zombie", c.sends = FALSE,
         restartedServerId' = restartedServerId \/ c.state = "connected"
  PROVE  GameInv'
<1>1. ClientOK /\ CommandsOK /\ PacketsOK /\ MessagesOK /\ ServerOK
  BY DEF GameInv
<1>2. Issues(<<>>)
  BY <1>1, Silent DEF ClientOK, clientVars
<1>3. ClientOK'
  BY <1>1, ClientStays DEF ClientOK, clientVars
<1>4. CommandsOK'
  BY <1>1, <1>2, CommandsStay
<1>5. PacketsOK'
  BY <1>1, <1>2, PacketsWait
<1>6. MessagesOK'
  BY <1>1, MessagesWait DEF clientVars
<1>7. c.executed <= Len(commands) /\ Whole(c.executed)
  BY <1>1 DEF ServerOK
<1>8. ServerOK'
  BY <1>1, <1>2, <1>7, ServerStays
<1> QED BY <1>3, <1>4, <1>5, <1>6, <1>8 DEF GameInv, GoesOn

(* The server starts a map.                                                *)
LEMMA SpawnStep ==
  ASSUME GameInv, SV_SpawnServer
  PROVE  GameInv'
<1> DEFINE c == [client EXCEPT !.state = "connected"]
<1>1. CountersOK /\ ServerOK
  BY DEF GameInv
<1>2. /\ client.state # "zombie" /\ client' = c /\ maps' = maps + 1
      /\ serverId' = serverId + 1 /\ restartedServerId' = serverId + 1
      /\ systeminfo' = serverId + 1
      /\ UNCHANGED <<clientVars, toServer, toClient>>
  BY DEF SV_SpawnServer
<1>3. GoesOn
  BY <1>1, <1>2 DEF GoesOn, CountersOK, Restarts, clientVars
<1>4. /\ client \in ClientRecords /\ RunUpTo(client, client.executed)
      /\ client.sends = FALSE
  BY <1>1 DEF ServerOK, RunUpTo
<1>5. /\ c \in ClientRecords /\ c.executed = client.executed
      /\ c.state = "connected" /\ c.pureReceived = client.pureReceived
      /\ c.pureAuthentic = client.pureAuthentic /\ c.stray = client.stray
      /\ c.told = client.told /\ c.sends = FALSE
  BY <1>4 DEF ClientRecords
<1> HIDE DEF c
<1>6. RunUpTo(c, c.executed)
  BY <1>2, <1>4, <1>5 DEF RunUpTo
<1> QED BY <1>2, <1>3, <1>5, <1>6, ServerStep

(* The server restarts the map.                                            *)
LEMMA RestartStep ==
  ASSUME GameInv, SV_MapRestart_f
  PROVE  GameInv'
<1>1. CountersOK /\ ServerOK
  BY DEF GameInv
<1>2. /\ client.state # "zombie" /\ serverId' = serverId + 1
      /\ UNCHANGED <<clientVars, restartedServerId, systeminfo, client, maps,
                     toServer, toClient>>
  BY DEF SV_MapRestart_f
<1>3. GoesOn
  BY <1>1, <1>2 DEF GoesOn, CountersOK, Restarts, clientVars
<1>4. PICK c : c = client
  OBVIOUS
<1>5. RunUpTo(c, c.executed) /\ c.sends = FALSE
  BY <1>1, <1>4 DEF ServerOK
<1> QED BY <1>2, <1>3, <1>4, <1>5, ServerStep

(* The server tells its clients of the restart.                            *)
LEMMA FrameStep ==
  ASSUME GameInv, SV_Frame
  PROVE  GameInv'
<1> DEFINE c == [client EXCEPT !.told = IF client.state = "connected"
                                          THEN client.told ELSE serverId]
<1>1. CountersOK /\ ServerOK
  BY DEF GameInv
<1>2. /\ client.state # "zombie" /\ systeminfo # serverId
      /\ systeminfo' = serverId /\ client' = c
      /\ UNCHANGED <<clientVars, serverId, restartedServerId, maps, toServer,
                     toClient>>
  BY DEF SV_Frame
<1>3. GoesOn
  BY <1>1, <1>2 DEF GoesOn, CountersOK, Restarts, clientVars
<1>4. Restarts # 0
  BY <1>1, <1>2 DEF CountersOK
<1>5. /\ client \in ClientRecords /\ RunUpTo(client, client.executed)
      /\ client.sends = FALSE /\ serverId \in Nat
  BY <1>1 DEF ServerOK, RunUpTo, CountersOK
<1>6. /\ c \in ClientRecords /\ c.executed = client.executed
      /\ c.state = client.state /\ c.pureReceived = client.pureReceived
      /\ c.pureAuthentic = client.pureAuthentic /\ c.stray = client.stray
      /\ c.told \in {client.told, serverId} /\ c.sends = FALSE
  BY <1>5 DEF ClientRecords
<1> HIDE DEF c
<1>7. RunUpTo(c, c.executed)
  BY <1>4, <1>5, <1>6 DEF RunUpTo
<1> QED BY <1>2, <1>3, <1>6, <1>7, ServerStep

-----------------------------------------------------------------------------
(* The steps of the client.                                                *)

(* Commands that say no more than their names.                             *)
Plain == {Command(name) : name \in CommandNames \ {"cp"}}

LEMMA PlainCommands ==
  ASSUME NEW a \in Plain
  PROVE  /\ a \in CommandRecords /\ a.name # "cp"
         /\ a.serverId = 0 /\ a.map = 0
BY DEF Plain, Command, CommandRecords, CommandNames

(* A command is issued, alone or after another.                            *)
LEMMA Joined ==
  ASSUME CommandsOK, NEW b \in CommandRecords, NEW pre,
         pre = <<>> \/ \E a \in Plain : pre = <<a>>,
         commands' = commands \o pre \o <<b>>
  PROVE  \E new \in Seq(CommandRecords) :
           /\ commands' = commands \o new
           /\ \/ DOMAIN new = {1} /\ new[1] = b
              \/ DOMAIN new = {1, 2} /\ pre = <<new[1]>> /\ new[2] = b
<1>1. commands \in Seq(CommandRecords)
  BY DEF CommandsOK
<1>2. PICK one \in Seq(CommandRecords) : one = <<b>>
  <2>1. <<b>> \in Seq(CommandRecords)
    OBVIOUS
  <2> QED BY <2>1
<1>3. DOMAIN one = {1} /\ one[1] = b
  BY <1>2
<1>4. CASE pre = <<>>
  <2>1. commands \o pre = commands
    BY <1>1, <1>4, ConcatEmptySeq
  <2>2. commands' = commands \o one
    BY <1>2, <2>1
  <2> QED BY <1>3, <2>2
<1>5. CASE \E a \in Plain : pre = <<a>>
  <2>1. PICK a \in CommandRecords : pre = <<a>>
    BY <1>5, PlainCommands
  <2>2. PICK first \in Seq(CommandRecords) : first = <<a>>
    <3>1. <<a>> \in Seq(CommandRecords)
      OBVIOUS
    <3> QED BY <3>1
  <2>3. first[1] = a /\ Len(first) = 1 /\ Len(one) = 1
    BY <1>2, <2>2
  <2>4. PICK two \in Seq(CommandRecords) : two = first \o one
    BY ConcatProperties
  <2>5. DOMAIN two = {1, 2} /\ two[1] = a /\ two[2] = b
    <3>1. /\ Len(two) = 2
          /\ \A i \in 1 .. 2 : two[i] = IF i <= 1 THEN first[i] ELSE one[i - 1]
      BY <2>3, <2>4, ConcatProperties
    <3>2. DOMAIN two = 1 .. 2
      BY <3>1, LenProperties
    <3> QED BY <1>3, <2>3, <3>1, <3>2
  <2>6. (commands \o first) \o one = commands \o (first \o one)
    BY <1>1, ConcatAssociative
  <2>7. commands' = commands \o two
    BY <1>2, <2>1, <2>2, <2>4, <2>6
  <2> QED BY <2>1, <2>5, <2>7
<1> QED BY <1>4, <1>5

(* One command is issued.                                                  *)
LEMMA OneIssued ==
  ASSUME CommandsOK, NEW a \in Plain, commands' = Append(commands, a)
  PROVE  \E new \in Seq(CommandRecords) :
           commands' = commands \o new /\ DOMAIN new = {1} /\ new[1] = a
<1>1. a \in CommandRecords
  BY PlainCommands
<1>2. PICK new \in Seq(CommandRecords) : new = <<a>>
  <2>1. <<a>> \in Seq(CommandRecords)
    BY <1>1
  <2> QED BY <2>1
<1>3. DOMAIN new = {1} /\ new[1] = a
  BY <1>2
<1>4. commands' = commands \o new
  BY <1>1, <1>2, AppendIsConcat DEF CommandsOK
<1> QED BY <1>3, <1>4

(* Commands of a client that has not loaded the map prove nothing.         *)
LEMMA PlainIssued ==
  ASSUME CountersOK', NEW new \in Seq(CommandRecords),
         commands' = commands \o new,
         \A k \in DOMAIN new : new[k] \in Plain,
         clState' = "connected", clMap' = clMap => clState = "connected",
         clMap \in Nat, clMap' \in Nat, clMap <= clMap',
         clMap' <= restartedServerId'
  PROVE  Issues(new)
<1>1. \A k \in DOMAIN new :
        new[k].name # "cp" /\ new[k].serverId = 0 /\ new[k].map = 0
  BY PlainCommands
<1>2. 0 <= serverId' /\ 0 <= clMap' /\ 0 <= 0
  BY DEF CountersOK
<1> QED BY <1>1, <1>2 DEF Issues

(* The counters of the server stay; the client may be misled.              *)
LEMMA ServerStill ==
  ASSUME CountersOK, UNCHANGED serverVars,
         misled' \in BOOLEAN, misled => misled', misled' => Restarts > 0
  PROVE  /\ GoesOn /\ CountersOK' /\ Restarts' = Restarts
         /\ serverId' = serverId /\ restartedServerId' = restartedServerId
<1>1. UNCHANGED <<serverId, restartedServerId, systeminfo, maps>>
  BY DEF serverVars
<1>2. GoesOn
  BY <1>1, Steady
<1>3. Restarts' = Restarts
  BY <1>1 DEF Restarts
<1> QED BY <1>1, <1>2, <1>3 DEF GoesOn

(* A step of the client that is not about the packets and the messages:    *)
(* the rest follows from what it has and the commands it issues.           *)
LEMMA ClientStep ==
  ASSUME GameInv, GoesOn, CountersOK', ClientOK', NEW new, Issues(new),
         UNCHANGED <<serverVars, toServer>>, MessagesOK'
  PROVE  GameInv'
<1>1. CommandsOK /\ PacketsOK /\ ServerOK
  BY DEF GameInv
<1>2. CommandsOK'
  BY <1>1, CommandsStay
<1>3. PacketsOK'
  BY <1>1, PacketsWait DEF serverVars
<1>4. ServerOK'
  BY <1>1, ServerWaits DEF serverVars
<1> QED BY <1>2, <1>3, <1>4 DEF GameInv

(* The client loads a map, which is that of a gamestate it has.            *)
LEMMA Loads ==
  ASSUME GameInv, UNCHANGED serverVars,
         NEW id \in Nat, NEW map \in Nat, NEW pre, Load(id, map, pre),
         pre = <<>> \/ \E a \in Plain : pre = <<a>>,
         clServerId' = id, clMap' = map, clFetches' \in BOOLEAN,
         clAck' \in Numbers,
         map <= id, id <= serverId, map <= restartedServerId, clMap <= map,
         Restarts = 0 => Sound(id, map)
  PROVE  GoesOn /\ CountersOK' /\ ClientOK' /\ \E new : Issues(new)
<1> DEFINE b == Paks(id, map)
<1>1. CountersOK /\ ClientOK /\ CommandsOK
  BY DEF GameInv
<1>2. /\ clState' = "primed" /\ clWaits' = "none"
      /\ commands' = commands \o pre \o <<b>>
      /\ misled' = (misled \/ Unsound(id, map))
  BY DEF Load
<1>3. /\ b \in CommandRecords /\ b.name = "cp"
      /\ b.serverId = id /\ b.map = map
  BY DEF Paks, CommandRecords, CommandNames
<1> HIDE DEF b
<1>4. Unsound(id, map) <=> ~Sound(id, map)
  BY DEF Unsound, Sound
<1>5. Restarts \in Nat /\ misled \in BOOLEAN /\ (misled => Restarts > 0)
  BY <1>1 DEF CountersOK, Restarts
<1>6. Unsound(id, map) => Restarts > 0
  BY <1>4, <1>5
<1>7. misled' \in BOOLEAN /\ (misled => misled') /\ (misled' => Restarts > 0)
  <2>1. (misled \/ Unsound(id, map)) \in BOOLEAN
    OBVIOUS
  <2> QED BY <1>2, <1>5, <1>6, <2>1
<1>8. /\ GoesOn /\ CountersOK' /\ Restarts' = Restarts
      /\ serverId' = serverId /\ restartedServerId' = restartedServerId
  BY <1>1, <1>7, ServerStill
<1>9. ~misled' => Sound(id, map)
  BY <1>2, <1>4
<1>10. ClientOK'
  <2>1. Restarts' = 0 => Sound(clServerId, clMap)'
    BY <1>8 DEF Sound
  <2> QED BY <1>2, <1>8, <2>1 DEF ClientOK
<1>11. PICK new \in Seq(CommandRecords) :
         /\ commands' = commands \o new
         /\ \/ DOMAIN new = {1} /\ new[1] = b
            \/ DOMAIN new = {1, 2} /\ pre = <<new[1]>> /\ new[2] = b
  BY <1>1, <1>2, <1>3, Joined
<1>12. DOMAIN new = {1, 2} => new[1] \in Plain
  <2>1. ASSUME DOMAIN new = {1, 2} PROVE pre = <<new[1]>>
    <3>1. {1, 2} # {1}
      OBVIOUS
    <3> QED BY <1>11, <2>1, <3>1
  <2>2. ASSUME DOMAIN new = {1, 2} PROVE new[1] \in Plain
    BY <2>1, <2>2
  <2> QED BY <2>2
<1>13. ASSUME NEW k \in DOMAIN new
       PROVE  /\ new[k].map <= new[k].serverId /\ new[k].serverId <= serverId'
              /\ new[k].map <= clMap'
              /\ new[k].name = "cp" =>
                   /\ new[k].map = clMap'
                   /\ ~misled' /\ new[k].serverId >= restartedServerId'
                        => new[k].map = restartedServerId'
              /\ new[k].name = "vdr" =>
                   k + 1 \in DOMAIN new /\ new[k + 1].name = "cp"
  <2>1. CASE new[k] = b
    BY <1>3, <1>8, <1>9, <2>1 DEF Sound
  <2>2. CASE new[k] # b
    <3>1. /\ k = 1 /\ new[k] \in Plain
          /\ k + 1 \in DOMAIN new /\ new[k + 1] = b
      BY <1>11, <1>12, <2>2
    <3>2. new[k].name # "cp" /\ new[k].serverId = 0 /\ new[k].map = 0
      BY <3>1, PlainCommands
    <3>3. 0 <= 0 /\ 0 <= serverId' /\ 0 <= clMap'
      BY <1>8 DEF CountersOK
    <3> QED BY <1>3, <3>1, <3>2, <3>3
  <2> QED BY <2>1, <2>2
<1>14. /\ clMap \in Nat /\ clMap' \in Nat /\ clMap <= clMap'
       /\ clMap' <= restartedServerId'
  BY <1>1, <1>8 DEF ClientOK
<1>15. Issues(new)
  BY <1>2, <1>11, <1>13, <1>14 DEF Issues
<1> QED BY <1>8, <1>10, <1>15

(* No file is missing any more: the client loads the map, or asks for the  *)
(* gamestate again if it waits for a file of the server.                   *)
LEMMA Completes ==
  ASSUME GameInv, UNCHANGED serverVars,
         NEW id \in Nat, NEW map \in Nat, NEW pre,
         CL_DownloadsComplete(id, map, pre),
         pre = <<>> \/ pre = <<Command("nextdl")>>,
         clServerId' = id, clMap' = map, clFetches' \in BOOLEAN,
         clAck' \in Numbers,
         map <= id, id <= serverId, map <= restartedServerId, clMap <= map,
         clState = "connected" \/ Restarts = 0 => Sound(id, map)
  PROVE  GoesOn /\ CountersOK' /\ ClientOK' /\ \E new : Issues(new)
<1>1. CountersOK /\ ClientOK /\ CommandsOK
  BY DEF GameInv
<1>2. PICK a : a = Command("nextdl") /\ a \in Plain
  BY DEF Plain, CommandNames
<1>3. pre = <<>> \/ pre = <<a>>
  BY <1>2
<1>4. CASE clWaits # "id"
  <2>1. Load(id, map, pre)
    BY <1>4 DEF CL_DownloadsComplete
  <2> QED BY <1>2, <1>3, <2>1, Loads
<1>5. CASE clWaits = "id"
  <2> DEFINE b == Command("donedl")
  <2>1. /\ clWaits' = "reload" /\ commands' = commands \o pre \o <<b>>
        /\ UNCHANGED <<clState, misled>>
    BY <1>5 DEF CL_DownloadsComplete
  <2>2. clState = "connected"
    BY <1>1, <1>5 DEF ClientOK
  <2>3. /\ GoesOn /\ CountersOK' /\ Restarts' = Restarts
        /\ serverId' = serverId /\ restartedServerId' = restartedServerId
    BY <1>1, <2>1, ServerStill DEF CountersOK
  <2>4. ClientOK'
    <3>1. Sound(clServerId, clMap)'
      BY <2>2, <2>3 DEF Sound
    <3> QED BY <2>1, <2>2, <2>3, <3>1 DEF ClientOK
  <2>5. b \in Plain
    BY DEF Plain, CommandNames
  <2> HIDE DEF b
  <2>6. PICK new \in Seq(CommandRecords) :
          /\ commands' = commands \o new
          /\ \/ DOMAIN new = {1} /\ new[1] = b
             \/ DOMAIN new = {1, 2} /\ pre = <<new[1]>> /\ new[2] = b
    <3>1. b \in CommandRecords
      BY <2>5, PlainCommands
    <3> QED BY <1>1, <1>2, <1>3, <2>1, <3>1, Joined
  <2>7. ASSUME NEW k \in DOMAIN new PROVE new[k] \in Plain
    <3>1. CASE new[k] = b
      BY <2>5, <3>1
    <3>2. CASE new[k] # b
      <4>1. k = 1 /\ pre = <<new[1]>>
        BY <2>6, <3>2
      <4>2. new[1] = a
        BY <1>3, <4>1
      <4> QED BY <1>2, <4>1, <4>2
    <3> QED BY <3>1, <3>2
  <2>8. clMap \in Nat /\ clMap' <= restartedServerId'
    BY <1>1, <2>3 DEF ClientOK
  <2>9. Issues(new)
    BY <2>1, <2>2, <2>3, <2>6, <2>7, <2>8, PlainIssued
  <2> QED BY <2>3, <2>4, <2>9
<1> QED BY <1>4, <1>5

(* The client leaves, or waits and issues nothing.                         *)
LEMMA Quiet ==
  ASSUME GameInv, UNCHANGED serverVars, ClientOK', clMap' \in Nat,
         clMap <= clMap', clMap' <= restartedServerId,
         clState' = "connected" /\ clMap' = clMap => clState = "connected",
         UNCHANGED <<commands, misled>>
  PROVE  GoesOn /\ CountersOK' /\ \E new : Issues(new)
<1>1. CountersOK /\ ClientOK /\ CommandsOK
  BY DEF GameInv
<1>2. GoesOn /\ CountersOK'
  BY <1>1, ServerStill DEF CountersOK
<1>3. Issues(<<>>)
  BY <1>1, <1>2, Silent
<1> QED BY <1>2, <1>3

(* The client gets a gamestate.                                            *)
LEMMA GamestateStep ==
  ASSUME GameInv, CL_ParseServerMessage, CL_ParseGamestate(Head(toClient))
  PROVE  GameInv'
<1> DEFINE m == Head(toClient)
<1>1. CountersOK /\ ClientOK /\ CommandsOK /\ MessagesOK
  BY DEF GameInv
<1>2. /\ toClient # <<>> /\ clAck' = m.number /\ toClient' = Tail(toClient)
      /\ UNCHANGED <<clDownload, vidRestarts, serverVars, toServer>>
  BY DEF CL_ParseServerMessage
<1>3. /\ m.type = "gamestate" /\ clServerId' = m.serverId /\ clMap' = m.map
      /\ \/ /\ \E lacks \in MayLack(m) : lacks
            /\ CL_BeginDownload \/ CL_MapDownload_Start \/ LoadWithoutFile
         \/ /\ CL_DownloadsComplete(m.serverId, m.map, <<>>)
            /\ UNCHANGED clFetches
  BY DEF CL_ParseGamestate
<1>4. /\ MessagesIn(Tail(toClient)) /\ MessageOK(m)
      /\ m \in Gamestates \union Snapshots
      /\ \A i \in DOMAIN Tail(toClient) :
           Tail(toClient)[i].type = "gamestate" => m.map <= Tail(toClient)[i].map
  BY <1>1, <1>2, <1>3, MessageTaken DEF MessagesOK
<1>5. m.map = clMap => MayLack(m) = {Lacking}
  BY DEF MayLack
<1> HIDE DEF m
<1>6. m.serverId \in Nat /\ m.map \in Nat /\ m.number \in Numbers
  BY <1>3, <1>4 DEF Gamestates, Snapshots
<1>7. /\ m.map <= m.serverId /\ m.serverId <= serverId
      /\ m.map <= restartedServerId /\ clMap <= m.map
      /\ Sound(m.serverId, m.map)
  BY <1>3, <1>4 DEF MessageOK
<1>8. UNCHANGED <<serverId, restartedServerId, systeminfo, maps>>
      /\ Restarts' = Restarts
  BY <1>2 DEF serverVars, Restarts
<1>9. clMap \in Nat /\ clMap' \in Nat /\ clMap <= clMap'
      /\ clMap' <= restartedServerId /\ clAck' \in Numbers
  BY <1>1, <1>2, <1>3, <1>6, <1>7 DEF ClientOK
<1>10. Sound(clServerId, clMap)'
  BY <1>3, <1>7, <1>8 DEF Sound
<1>11. SUFFICES GoesOn /\ CountersOK' /\ ClientOK' /\ \E new : Issues(new)
  <2>1. ASSUME GoesOn PROVE MessagesOK'
    <3>1. PICK q : q = toClient'
      OBVIOUS
    <3> QED BY <1>2, <1>3, <1>4, <2>1, <3>1, MessagesStay
  <2> QED BY <1>2, <1>11, <2>1, ClientStep
<1>12. CASE /\ \E lacks \in MayLack(m) : lacks
            /\ CL_BeginDownload \/ CL_MapDownload_Start
  <2>1. /\ clState' = "connected" /\ clWaits' \in {"id", "http"}
        /\ clFetches' \in BOOLEAN /\ UNCHANGED misled
    BY <1>1, <1>12 DEF CL_BeginDownload, CL_MapDownload_Start, ClientOK
  <2>2. clMap' = clMap => clState = "connected"
    <3>1. ASSUME clMap' = clMap PROVE clState = "connected"
      <4>1. Lacking
        BY <1>3, <1>5, <1>12, <3>1
      <4> QED BY <1>1, <4>1 DEF Lacking, ClientOK
    <3> QED BY <3>1
  <2>3. ClientOK'
    BY <1>3, <1>6, <1>7, <1>8, <1>9, <1>10, <2>1 DEF ClientOK
  <2>4. CASE CL_MapDownload_Start
    <3>1. UNCHANGED <<commands, misled>>
      BY <2>4 DEF CL_MapDownload_Start
    <3> QED BY <1>2, <1>9, <2>2, <2>3, <3>1, Quiet
  <2>5. CASE CL_BeginDownload
    <3>1. PICK a \in Plain : commands' = Append(commands, a)
      BY <2>5 DEF CL_BeginDownload, Plain, CommandNames
    <3>2. PICK new \in Seq(CommandRecords) :
            commands' = commands \o new /\ DOMAIN new = {1} /\ new[1] = a
      BY <1>1, <3>1, OneIssued
    <3>3. \A k \in DOMAIN new : new[k] \in Plain
      BY <3>2
    <3>4. GoesOn /\ CountersOK'
      BY <1>1, <1>2, <2>1, ServerStill DEF CountersOK
    <3>5. Issues(new)
      BY <1>8, <1>9, <2>1, <2>2, <3>2, <3>3, <3>4, PlainIssued
    <3> QED BY <2>3, <3>4, <3>5
  <2> QED BY <1>12, <2>4, <2>5
<1>13. CASE LoadWithoutFile
  <2>1. /\ clState' = "disconnected" /\ clWaits' = "none" /\ clFetches' = FALSE
        /\ UNCHANGED <<commands, misled>>
    BY <1>13 DEF LoadWithoutFile, Leave
  <2>2. ClientOK'
    BY <1>3, <1>6, <1>7, <1>8, <1>9, <1>10, <2>1 DEF ClientOK
  <2> QED BY <1>2, <1>9, <2>1, <2>2, Quiet
<1>14. CASE CL_DownloadsComplete(m.serverId, m.map, <<>>) /\ UNCHANGED clFetches
  <2>1. PICK id \in Nat, map \in Nat, pre \in {<<>>} :
          id = m.serverId /\ map = m.map /\ pre = <<>>
    BY <1>6
  <2>2. CL_DownloadsComplete(id, map, pre)
    BY <1>14, <2>1
  <2>3. /\ clServerId' = id /\ clMap' = map /\ map <= id /\ id <= serverId
        /\ map <= restartedServerId /\ clMap <= map /\ Sound(id, map)
    BY <1>3, <1>7, <2>1
  <2>4. clFetches' \in BOOLEAN
    BY <1>1, <1>14 DEF ClientOK
  <2> QED BY <1>2, <1>9, <2>1, <2>2, <2>3, <2>4, Completes
<1> QED BY <1>3, <1>12, <1>13, <1>14

(* The client gets a snapshot.                                             *)
LEMMA SnapshotTaken ==
  ASSUME GameInv, CL_ParseServerMessage, CL_ParseSnapshot(Head(toClient))
  PROVE  GameInv'
<1> DEFINE m == Head(toClient)
<1>1. CountersOK /\ ClientOK /\ CommandsOK /\ MessagesOK
  BY DEF GameInv
<1>2. /\ toClient # <<>> /\ clAck' = m.number /\ toClient' = Tail(toClient)
      /\ UNCHANGED <<clDownload, vidRestarts, serverVars, toServer>>
  BY DEF CL_ParseServerMessage
<1>3. /\ m.type = "snapshot"
      /\ IF clState = "active" \/ (clState = "primed" /\ m.active)
           THEN /\ clState' = "active"
                /\ clServerId' = IF m.told > clServerId THEN m.told
                                                        ELSE clServerId
           ELSE UNCHANGED <<clState, clServerId>>
      /\ UNCHANGED <<clMap, clWaits, clFetches, commands, misled>>
  BY DEF CL_ParseSnapshot
<1>4. MessagesIn(Tail(toClient)) /\ MessageOK(m) /\ m \in Gamestates \union Snapshots
  BY <1>1, <1>2, MessageTaken DEF MessagesOK
<1> HIDE DEF m
<1>5. m.told \in Nat /\ m.number \in Numbers
  BY <1>3, <1>4 DEF Gamestates, Snapshots
<1>6. m.told <= serverId /\ (Restarts = 0 => m.told = 0)
  BY <1>3, <1>4 DEF MessageOK
<1>7. CountersOK' /\ Restarts' = Restarts /\ serverId' = serverId
      /\ restartedServerId' = restartedServerId
  BY <1>1, <1>2, <1>3, ServerStill DEF CountersOK
<1>8. GoesOn
  BY <1>1, <1>2, <1>3, ServerStill DEF CountersOK
<1>9. PICK q : q = toClient'
  OBVIOUS
<1>10. MessagesIn(q)
       /\ \A i \in DOMAIN q : q[i].type = "gamestate" => clMap' <= q[i].map
  BY <1>2, <1>3, <1>4, <1>9 DEF MessagesIn, MessageOK
<1>11. MessagesOK'
  BY <1>8, <1>9, <1>10, MessagesStay
<1>12. clState' = "connected" => clState = "connected"
  BY <1>3
<1>13. Issues(<<>>)
  <2>1. clMap' = clMap /\ clMap \in Nat /\ clMap <= clMap
        /\ clMap <= restartedServerId
    BY <1>1, <1>3 DEF ClientOK
  <2> QED BY <1>1, <1>3, <1>8, <1>12, <2>1, Silent
<1>14. CASE clState = "active" \/ (clState = "primed" /\ m.active)
  <2>1. clState' = "active" /\ clState # "connected"
    BY <1>3, <1>14
  <2>2. /\ clServerId' \in Nat /\ clServerId <= clServerId'
        /\ clServerId' <= serverId
    BY <1>1, <1>3, <1>5, <1>6, <1>14 DEF ClientOK
  <2>3. Restarts = 0 => clServerId' = clServerId
    BY <1>1, <1>3, <1>6, <1>14 DEF ClientOK
  <2>4. Restarts' = 0 => Sound(clServerId, clMap)'
    BY <1>1, <1>3, <1>7, <2>3 DEF ClientOK, Sound
  <2>5. clMap <= clServerId'
    BY <1>1, <2>2 DEF ClientOK
  <2>6. ClientOK'
    BY <1>1, <1>2, <1>3, <1>5, <1>7, <2>1, <2>2, <2>4, <2>5 DEF ClientOK
  <2> QED BY <1>2, <1>7, <1>8, <1>11, <1>13, <2>6, ClientStep
<1>15. CASE ~(clState = "active" \/ (clState = "primed" /\ m.active))
  <2>1. UNCHANGED <<clState, clServerId, clMap, clWaits, clFetches>>
    BY <1>2, <1>3, <1>15
  <2>2. ClientOK'
    BY <1>1, <1>2, <1>5, <1>8, <2>1, ClientStays
  <2> QED BY <1>2, <1>7, <1>8, <1>11, <1>13, <2>2, ClientStep
<1> QED BY <1>14, <1>15

(* The last download ends.                                                 *)
LEMMA DownloadStep ==
  ASSUME GameInv, DownloadEnds
  PROVE  GameInv'
<1> DEFINE new == <<Command("nextdl")>>
<1>1. CountersOK /\ ClientOK /\ CommandsOK /\ MessagesOK
  BY DEF GameInv
<1>2. /\ clFetches' = FALSE /\ CL_DownloadsComplete(clServerId, clMap, new)
      /\ UNCHANGED <<clServerId, clMap, clAck, serverVars, toServer, toClient>>
  BY DEF DownloadEnds
<1>3. PICK id \in Nat, map \in Nat, pre \in {new} :
        id = clServerId /\ map = clMap /\ pre = new
  BY <1>1 DEF ClientOK
<1>4. CL_DownloadsComplete(id, map, pre)
  BY <1>2, <1>3
<1>5. /\ clServerId' = id /\ clMap' = map /\ map <= id /\ id <= serverId
      /\ map <= restartedServerId /\ clMap <= map /\ clAck' \in Numbers
      /\ clState = "connected" \/ Restarts = 0 => Sound(id, map)
  BY <1>1, <1>2, <1>3 DEF ClientOK
<1>6. GoesOn /\ CountersOK' /\ ClientOK' /\ \E x : Issues(x)
  BY <1>2, <1>3, <1>4, <1>5, Completes
<1>7. MessagesOK'
  BY <1>1, <1>2, <1>6, MessagesWait
<1> QED BY <1>2, <1>6, <1>7, ClientStep

(* The client has downloaded the map.                                      *)
LEMMA MapDownloadStep ==
  ASSUME GameInv, CL_MapDownload_Continue
  PROVE  GameInv'
<1>1. CountersOK /\ ClientOK /\ CommandsOK /\ MessagesOK
  BY DEF GameInv
<1>2. /\ clWaits = "http" /\ Load(clServerId, clMap, <<>>)
      /\ UNCHANGED <<clServerId, clMap, clFetches, clAck, serverVars,
                     toServer, toClient>>
  BY DEF CL_MapDownload_Continue
<1>3. PICK id \in Nat, map \in Nat, pre \in {<<>>} :
        id = clServerId /\ map = clMap /\ pre = <<>>
  BY <1>1 DEF ClientOK
<1>4. Load(id, map, pre)
  BY <1>2, <1>3
<1>5. /\ clServerId' = id /\ clMap' = map /\ map <= id /\ id <= serverId
      /\ map <= restartedServerId /\ clMap <= map /\ clAck' \in Numbers
      /\ clFetches' \in BOOLEAN /\ (Restarts = 0 => Sound(id, map))
  BY <1>1, <1>2, <1>3 DEF ClientOK
<1>6. GoesOn /\ CountersOK' /\ ClientOK' /\ \E x : Issues(x)
  BY <1>2, <1>3, <1>4, <1>5, Loads
<1>7. MessagesOK'
  BY <1>1, <1>2, <1>6, MessagesWait
<1> QED BY <1>2, <1>6, <1>7, ClientStep

(* A download fails, and the client leaves.                                *)
LEMMA FailStep ==
  ASSUME GameInv, DownloadFails
  PROVE  GameInv'
<1>1. CountersOK /\ ClientOK /\ CommandsOK /\ MessagesOK
  BY DEF GameInv
<1>2. /\ clState' = "disconnected" /\ clWaits' = "none" /\ clFetches' = FALSE
      /\ UNCHANGED <<commands, misled, clServerId, clMap, clAck, serverVars,
                     toServer, toClient>>
  BY DEF DownloadFails, Leave
<1>3. UNCHANGED <<serverId, restartedServerId>> /\ Restarts' = Restarts
  BY <1>2 DEF serverVars, Restarts
<1>4. ClientOK'
  BY <1>1, <1>2, <1>3 DEF ClientOK, Sound
<1>5. clMap' \in Nat /\ clMap <= clMap' /\ clMap' <= restartedServerId
  BY <1>1, <1>2 DEF ClientOK
<1>6. GoesOn /\ CountersOK' /\ \E new : Issues(new)
  BY <1>2, <1>4, <1>5, Quiet
<1>7. MessagesOK'
  BY <1>1, <1>2, <1>6, MessagesWait
<1> QED BY <1>2, <1>4, <1>6, <1>7, ClientStep

(* The client restarts its video.                                          *)
LEMMA VideoStep ==
  ASSUME GameInv, CL_Vid_Restart_f
  PROVE  GameInv'
<1> DEFINE v == Command("vdr")
<1>1. CountersOK /\ ClientOK /\ CommandsOK /\ MessagesOK
  BY DEF GameInv
<1>2. /\ IF clState = "connected"
           THEN /\ commands' = Append(commands, v)
                /\ clWaits' = IF clWaits = "http" THEN "cancelled" ELSE clWaits
                /\ UNCHANGED <<clState, misled>>
           ELSE Load(clServerId, clMap, <<v>>)
      /\ UNCHANGED <<clServerId, clMap, clFetches, clAck, serverVars,
                     toServer, toClient>>
  BY DEF CL_Vid_Restart_f
<1>3. v \in Plain
  BY DEF Plain, CommandNames
<1> HIDE DEF v
<1>4. UNCHANGED <<serverId, restartedServerId>> /\ Restarts' = Restarts
  BY <1>2 DEF serverVars, Restarts
<1>5. clMap \in Nat /\ clMap' = clMap /\ clMap <= clMap'
      /\ clMap' <= restartedServerId
  BY <1>1, <1>2 DEF ClientOK
<1>6. SUFFICES GoesOn /\ CountersOK' /\ ClientOK' /\ \E new : Issues(new)
  <2>1. ASSUME GoesOn PROVE MessagesOK'
    BY <1>1, <1>2, <2>1, MessagesWait
  <2> QED BY <1>2, <1>6, <2>1, ClientStep
<1>7. CASE clState = "connected"
  <2>1. /\ commands' = Append(commands, v) /\ UNCHANGED <<clState, misled>>
        /\ clWaits' \in {clWaits, "cancelled"}
    BY <1>2, <1>7
  <2>2. ClientOK'
    BY <1>1, <1>2, <1>4, <1>7, <2>1 DEF ClientOK, Sound
  <2>3. GoesOn /\ CountersOK'
    BY <1>1, <1>2, <2>1, ServerStill DEF CountersOK
  <2>4. PICK new \in Seq(CommandRecords) :
          commands' = commands \o new /\ DOMAIN new = {1} /\ new[1] = v
    BY <1>1, <1>3, <2>1, OneIssued
  <2>5. \A k \in DOMAIN new : new[k] \in Plain
    BY <1>3, <2>4
  <2>6. Issues(new)
    BY <1>4, <1>5, <1>7, <2>1, <2>3, <2>4, <2>5, PlainIssued
  <2> QED BY <2>2, <2>3, <2>6
<1>8. CASE clState # "connected"
  <2>1. PICK id \in Nat, map \in Nat, pre \in {<<v>>} :
          id = clServerId /\ map = clMap /\ pre = <<v>>
    BY <1>1 DEF ClientOK
  <2>2. Load(id, map, pre)
    BY <1>2, <1>8, <2>1
  <2>3. /\ clServerId' = id /\ clMap' = map /\ map <= id /\ id <= serverId
        /\ map <= restartedServerId /\ clMap <= map /\ clAck' \in Numbers
        /\ clFetches' \in BOOLEAN /\ (Restarts = 0 => Sound(id, map))
    BY <1>1, <1>2, <2>1 DEF ClientOK
  <2> QED BY <1>2, <1>3, <2>1, <2>2, <2>3, Loads
<1> QED BY <1>7, <1>8

(* The client sends a packet, with all its commands.                       *)
LEMMA WriteStep ==
  ASSUME GameInv, CL_WritePacket
  PROVE  GameInv'
<1> DEFINE p == [serverId |-> clServerId, ack |-> clAck, upto |-> Len(commands),
                 map |-> IF clState = "connected" THEN 0 ELSE clMap]
<1>1. CountersOK /\ ClientOK /\ CommandsOK /\ PacketsOK /\ MessagesOK /\ ServerOK
  BY DEF GameInv
<1>2. toServer' = Append(toServer, p) /\ UNCHANGED <<clientVars, serverVars, toClient>>
  BY DEF CL_WritePacket
<1>3. CountersOK'
  BY <1>1, <1>2 DEF CountersOK, Restarts, serverVars, clientVars
<1>4. GoesOn
  BY <1>1, <1>2, Steady DEF CountersOK, serverVars, clientVars
<1>5. Issues(<<>>)
  BY <1>1, <1>2, <1>4, Silent DEF ClientOK, clientVars
<1>6. ClientOK'
  BY <1>1, <1>2, <1>4, ClientStays DEF ClientOK, clientVars
<1>7. CommandsOK'
  BY <1>1, <1>4, <1>5, CommandsStay
<1>8. MessagesOK'
  BY <1>1, <1>2, <1>4, MessagesWait DEF clientVars
<1>9. ServerOK'
  BY <1>1, <1>2, <1>4, <1>5, ServerWaits DEF serverVars
<1>10. Len(commands) \in Nat /\ DOMAIN commands = 1 .. Len(commands)
  BY <1>1, LenProperties DEF CommandsOK
<1>11. /\ p \in Packets /\ p.serverId = clServerId /\ p.upto = Len(commands)
       /\ p.map = (IF clState = "connected" THEN 0 ELSE clMap)
  BY <1>1, <1>10 DEF Packets, ClientOK
<1> HIDE DEF p
<1>12. PacketOK(p)
  <2>1. Whole(p.upto)
    <3>1. Len(commands) + 1 \notin DOMAIN commands
      BY <1>10
    <3> QED BY <1>1, <1>11, <3>1 DEF Whole, CommandsOK
  <2>2. \A k \in 1 .. p.upto : commands[k].map <= clMap
    BY <1>1, <1>10, <1>11 DEF CommandsOK
  <2>3. p.map = 0 \/ \A k \in 1 .. p.upto : commands[k].map <= p.map
    BY <1>11, <2>2
  <2>4. p.serverId <= serverId /\ p.map <= clMap
    BY <1>1, <1>11 DEF ClientOK
  <2>5. p.upto <= Len(commands)
    BY <1>10, <1>11
  <2> QED BY <2>1, <2>3, <2>4, <2>5 DEF PacketOK
<1>13. PICK s, e : s = toServer' /\ e = client.executed
  OBVIOUS
<1>14. /\ toServer \in Seq(Packets) /\ Len(toServer) \in Nat
       /\ DOMAIN toServer = 1 .. Len(toServer)
       /\ \A i \in DOMAIN toServer :
            /\ PacketOK(toServer[i]) /\ e <= toServer[i].upto
            /\ toServer[i].upto <= p.upto
       /\ \A i, j \in DOMAIN toServer :
            i < j => toServer[i].upto <= toServer[j].upto
  BY <1>1, <1>11, <1>13, LenProperties DEF PacketsOK, PacketsIn, PacketOK
<1>15. /\ s \in Seq(Packets) /\ Len(s) = Len(toServer) + 1
       /\ \A i \in 1 .. Len(toServer) : s[i] = toServer[i]
       /\ s[Len(toServer) + 1] = p
  BY <1>2, <1>11, <1>13, <1>14, AppendProperties
<1>16. DOMAIN s = 1 .. Len(toServer) + 1
  BY <1>15, LenProperties
<1>17. \A i \in DOMAIN s : \/ i \in DOMAIN toServer /\ s[i] = toServer[i]
                           \/ i = Len(toServer) + 1 /\ s[i] = p
  BY <1>14, <1>15, <1>16
<1>18. e <= p.upto
  BY <1>1, <1>11, <1>13 DEF ServerOK
<1>19. \A i \in DOMAIN s : PacketOK(s[i]) /\ e <= s[i].upto
  BY <1>12, <1>14, <1>17, <1>18
<1>20. ASSUME NEW i \in DOMAIN s, NEW j \in DOMAIN s, i < j
       PROVE  s[i].upto <= s[j].upto
  <2>1. i \in DOMAIN toServer /\ s[i] = toServer[i]
    BY <1>14, <1>16, <1>17, <1>20
  <2> QED BY <1>14, <1>17, <1>20, <2>1
<1>21. PacketsIn(s, e)
  BY <1>15, <1>19, <1>20 DEF PacketsIn
<1>22. client'.executed = e
  BY <1>2, <1>13 DEF serverVars
<1>23. PacketsOK'
  BY <1>1, <1>4, <1>5, <1>13, <1>21, <1>22, PacketsStay
<1> QED BY <1>3, <1>6, <1>7, <1>8, <1>9, <1>23 DEF GameInv

(* A packet is lost, or a message.                                         *)
LEMMA LoseStep ==
  ASSUME GameInv, Lose
  PROVE  GameInv'
<1>1. CountersOK /\ ClientOK /\ CommandsOK /\ PacketsOK /\ MessagesOK /\ ServerOK
  BY DEF GameInv
<1>2. UNCHANGED <<clientVars, serverVars>>
  BY DEF Lose
<1>3. CountersOK'
  BY <1>1, <1>2 DEF CountersOK, Restarts, serverVars, clientVars
<1>4. GoesOn
  BY <1>1, <1>2, Steady DEF CountersOK, serverVars, clientVars
<1>5. Issues(<<>>)
  BY <1>1, <1>2, <1>4, Silent DEF ClientOK, clientVars
<1>6. ClientOK'
  BY <1>1, <1>2, <1>4, ClientStays DEF ClientOK, clientVars
<1>7. CommandsOK'
  BY <1>1, <1>4, <1>5, CommandsStay
<1>8. ServerOK'
  BY <1>1, <1>2, <1>4, <1>5, ServerWaits DEF serverVars
<1>9. CASE toServer # <<>> /\ toServer' = Tail(toServer) /\ UNCHANGED toClient
  <2>1. client.executed \in Nat /\ client.executed <= toServer[1].upto
    <3>1. toServer \in Seq(Packets)
      BY <1>1 DEF PacketsOK, PacketsIn
    <3>2. 1 \in DOMAIN toServer
      BY <1>9, <3>1, LenProperties, EmptySeq
    <3> QED BY <1>1, <3>2 DEF PacketsOK, PacketsIn, ServerOK, RunUpTo, ClientRecords
  <2>2. PICK s, e : s = Tail(toServer) /\ e = client.executed
    OBVIOUS
  <2>3. PacketsIn(s, e)
    BY <1>1, <1>9, <2>1, <2>2, PacketTaken DEF PacketsOK
  <2>4. toServer' = s /\ client'.executed = e
    BY <1>2, <1>9, <2>2 DEF serverVars
  <2>5. PacketsOK'
    BY <1>1, <1>4, <1>5, <2>3, <2>4, PacketsStay
  <2>6. MessagesOK'
    BY <1>1, <1>2, <1>4, <1>9, MessagesWait DEF clientVars
  <2> QED BY <1>3, <1>6, <1>7, <1>8, <2>5, <2>6 DEF GameInv
<1>10. CASE toClient # <<>> /\ toClient' = Tail(toClient) /\ UNCHANGED toServer
  <2>1. PacketsOK'
    BY <1>1, <1>2, <1>4, <1>5, <1>10, PacketsWait DEF serverVars
  <2>2. PICK q : q = Tail(toClient)
    OBVIOUS
  <2>3. MessagesIn(q)
    BY <1>1, <1>10, <2>2, MessageTaken DEF MessagesOK
  <2>4. \A i \in DOMAIN q : q[i].type = "gamestate" => clMap' <= q[i].map
    BY <1>2, <2>3 DEF MessagesIn, MessageOK, clientVars
  <2>5. MessagesOK'
    BY <1>4, <1>10, <2>2, <2>3, <2>4, MessagesStay
  <2> QED BY <1>3, <1>6, <1>7, <1>8, <2>1, <2>5 DEF GameInv
<1> QED BY <1>9, <1>10 DEF Lose

-----------------------------------------------------------------------------
(* The theorems.                                                           *)

(* The invariant holds when the client has just connected.                 *)
LEMMA GameInit ==
  ASSUME Init PROVE GameInv
<1>1. /\ toServer = <<>> /\ toClient = <<>> /\ commands = <<>>
      /\ client = NewClient
      /\ clState = "connected" /\ clServerId = 0 /\ clMap = 0
      /\ clWaits = "none" /\ clAck = "after"
      /\ serverId = 1 /\ restartedServerId = 1 /\ systeminfo = 1
      /\ maps = 1
  BY DEF Init
<1>2. misled \in BOOLEAN /\ clFetches \in BOOLEAN /\ (misled => Restarts > 0)
  BY Zenon DEF Init
<1>3. CountersOK
  BY <1>1, <1>2 DEF CountersOK, Restarts
<1>4. ClientOK
  BY <1>1, <1>2 DEF ClientOK, Numbers, Sound
<1>5. CommandsOK
  BY <1>1, EmptySeq DEF CommandsOK
<1>6. PacketsOK
  BY <1>1, EmptySeq DEF PacketsOK, PacketsIn
<1>7. MessagesOK
  BY <1>1, EmptySeq DEF MessagesOK, MessagesIn
<1>8. /\ client \in ClientRecords /\ client.executed = 0
      /\ client.state = "connected" /\ client.pureReceived = FALSE
      /\ client.pureAuthentic = FALSE /\ client.stray = FALSE
      /\ client.told = 0 /\ client.sends = FALSE
  BY <1>1 DEF NewClient, ClientRecords
<1>9. RunUpTo(client, client.executed)
  <2>1. 0 <= 0 /\ 0 <= serverId
    BY <1>3 DEF CountersOK
  <2> QED BY <1>8, <2>1 DEF RunUpTo
<1>10. client.executed <= Len(commands) /\ Whole(client.executed)
  BY <1>1, <1>8, EmptySeq DEF Whole
<1>11. ServerOK
  BY <1>8, <1>9, <1>10 DEF ServerOK
<1> QED BY <1>3, <1>4, <1>5, <1>6, <1>7, <1>11 DEF GameInv

(* Every step keeps it.                                                    *)
LEMMA GameNext ==
  ASSUME GameInv, [Next]_vars PROVE GameInv'
<1>1. CASE SV_ExecuteClientMessage
  BY <1>1, ExecuteStep
<1>2. CASE SV_SendClientSnapshot
  BY <1>2, SnapshotStep
<1>3. CASE SV_SpawnServer
  BY <1>3, SpawnStep
<1>4. CASE SV_MapRestart_f
  BY <1>4, RestartStep
<1>5. CASE SV_Frame
  BY <1>5, FrameStep
<1>6. CASE CL_ParseServerMessage
  <2>1. CL_ParseGamestate(Head(toClient)) \/ CL_ParseSnapshot(Head(toClient))
    BY <1>6 DEF CL_ParseServerMessage
  <2> QED BY <1>6, <2>1, GamestateStep, SnapshotTaken
<1>7. CASE DownloadEnds
  BY <1>7, DownloadStep
<1>8. CASE CL_MapDownload_Continue
  BY <1>8, MapDownloadStep
<1>9. CASE CL_Vid_Restart_f
  BY <1>9, VideoStep
<1>10. CASE CL_WritePacket
  BY <1>10, WriteStep
<1>11. CASE Lose
  BY <1>11, LoseStep
<1>12. CASE DownloadFails
  BY <1>12, FailStep
<1>13. CASE UNCHANGED vars
  <2>1. GoesOn /\ CountersOK'
    BY <1>13, Steady DEF GameInv, CountersOK, Restarts, vars, serverVars, clientVars
  <2>2. Issues(<<>>)
    BY <1>13, <2>1, Silent DEF GameInv, ClientOK, vars, clientVars
  <2>3. ClientOK'
    BY <1>13, <2>1, ClientStays DEF GameInv, ClientOK, vars, clientVars
  <2>4. MessagesOK'
    BY <1>13, <2>1, MessagesWait DEF GameInv, vars, clientVars
  <2> QED BY <1>13, <2>1, <2>2, <2>3, <2>4, ClientStep DEF vars
<1> QED BY <1>1, <1>2, <1>3, <1>4, <1>5, <1>6, <1>7, <1>8, <1>9, <1>10, <1>11,
           <1>12, <1>13 DEF Next

(* The invariant holds in every state the two programs reach, however many *)
(* maps, restarts and messages there are.                                  *)
THEOREM Invariance == Spec => []GameInv
<1>1. Init => GameInv
  BY GameInit
<1>2. GameInv /\ [Next]_vars => GameInv'
  BY GameNext
<1> QED BY <1>1, <1>2, PTL DEF Spec

(* The variables keep their types: no serverId is above the server's, and  *)
(* no packet or client_t counts a command that was not issued.             *)
THEOREM TypeCorrect == Spec => []TypeOK
<1>1. ASSUME GameInv PROVE TypeOK
  <2>1. CountersOK /\ ClientOK /\ CommandsOK /\ PacketsOK /\ MessagesOK /\ ServerOK
    BY <1>1 DEF GameInv
  <2>2. /\ serverId \in Nat /\ restartedServerId \in Nat /\ systeminfo \in Nat
        /\ restartedServerId <= systeminfo /\ systeminfo <= serverId
        /\ clMap \in Nat /\ clServerId \in Nat /\ clMap <= clServerId
        /\ clServerId <= serverId
    BY <2>1 DEF CountersOK, ClientOK
  <2>3. clServerId \in Ids /\ clMap \in Ids /\ systeminfo \in restartedServerId .. serverId
    BY <2>2 DEF Ids
  <2>4. Len(commands) \in Nat /\ DOMAIN commands = 1 .. Len(commands)
    BY <2>1, LenProperties DEF CommandsOK
  <2> DEFINE C == [name : {"cp", "vdr", "download", "nextdl", "donedl"},
                   serverId : Ids, map : Ids]
             P == [serverId : Ids, ack : Numbers, map : Ids,
                   upto : 0 .. Len(commands)]
             M == [type : {"gamestate"}, number : Numbers,
                   serverId : Ids, map : Ids]
                  \union [type : {"snapshot"}, number : Numbers,
                          active : BOOLEAN, told : Ids]
  <2>5. ASSUME NEW k \in DOMAIN commands PROVE commands[k] \in C
    <3>1. commands[k] \in CommandRecords
      BY <2>1, <2>4, ElementOfSeq DEF CommandsOK
    <3>2. commands[k].map <= clMap /\ commands[k].serverId <= serverId
      BY <2>1 DEF CommandsOK
    <3>3. commands[k].serverId \in Ids /\ commands[k].map \in Ids
      BY <2>2, <3>1, <3>2 DEF CommandRecords, Ids
    <3> QED BY <3>1, <3>3 DEF CommandRecords, CommandNames
  <2>6. commands \in Seq(C)
    <3> HIDE DEF C
    <3>1. commands = [k \in 1 .. Len(commands) |-> commands[k]]
      BY <2>1, <2>4 DEF CommandsOK
    <3>2. commands \in [1 .. Len(commands) -> C]
      BY <2>4, <2>5, <3>1
    <3> QED BY <2>4, <3>2, FunctionIsSeq
  <2>7. ASSUME NEW i \in DOMAIN toServer PROVE toServer[i] \in P
    <3>1. toServer[i] \in Packets /\ PacketOK(toServer[i])
      BY <2>1, ElementOfSeq, LenProperties DEF PacketsOK, PacketsIn
    <3>2. /\ toServer[i].serverId <= serverId /\ toServer[i].map <= clMap
          /\ toServer[i].upto <= Len(commands)
      BY <3>1 DEF PacketOK
    <3>3. /\ toServer[i].serverId \in Ids /\ toServer[i].map \in Ids
          /\ toServer[i].upto \in 0 .. Len(commands)
      BY <2>2, <2>4, <3>1, <3>2 DEF Packets, Ids
    <3> QED BY <3>1, <3>3 DEF Packets
  <2>8. toServer \in Seq(P)
    <3> HIDE DEF P
    <3>1. toServer \in Seq(Packets)
      BY <2>1 DEF PacketsOK, PacketsIn
    <3>2. Len(toServer) \in Nat /\ DOMAIN toServer = 1 .. Len(toServer)
          /\ toServer = [i \in 1 .. Len(toServer) |-> toServer[i]]
      BY <3>1, LenProperties
    <3>3. toServer \in [1 .. Len(toServer) -> P]
      BY <2>7, <3>2
    <3> QED BY <3>2, <3>3, FunctionIsSeq
  <2>9. ASSUME NEW i \in DOMAIN toClient PROVE toClient[i] \in M
    <3>1. toClient[i] \in Gamestates \union Snapshots /\ MessageOK(toClient[i])
      BY <2>1, ElementOfSeq, LenProperties DEF MessagesOK, MessagesIn
    <3>2. CASE toClient[i] \in Gamestates
      <4>1. toClient[i].serverId <= serverId /\ toClient[i].map <= toClient[i].serverId
        BY <3>1, <3>2 DEF MessageOK, Gamestates
      <4>2. toClient[i].serverId \in Ids /\ toClient[i].map \in Ids
        BY <2>2, <3>2, <4>1 DEF Gamestates, Ids
      <4> QED BY <3>2, <4>2 DEF Gamestates
    <3>3. CASE toClient[i] \in Snapshots
      <4>1. toClient[i].told \in Ids
        BY <2>2, <3>1, <3>3 DEF Snapshots, MessageOK, Ids
      <4> QED BY <3>3, <4>1 DEF Snapshots
    <3> QED BY <3>1, <3>2, <3>3
  <2>10. toClient \in Seq(M)
    <3> HIDE DEF M
    <3>1. toClient \in Seq(Gamestates \union Snapshots)
      BY <2>1 DEF MessagesOK, MessagesIn
    <3>2. Len(toClient) \in Nat /\ DOMAIN toClient = 1 .. Len(toClient)
          /\ toClient = [i \in 1 .. Len(toClient) |-> toClient[i]]
      BY <3>1, LenProperties
    <3>3. toClient \in [1 .. Len(toClient) -> M]
      BY <2>9, <3>2
    <3> QED BY <3>2, <3>3, FunctionIsSeq
  <2>11. /\ client \in ClientRecords /\ client.told <= serverId
         /\ client.executed <= Len(commands) /\ client.sends = FALSE
    BY <2>1 DEF ServerOK, RunUpTo
  <2>12. client.told \in Ids /\ client.executed \in 0 .. Len(commands)
    BY <2>2, <2>4, <2>11 DEF ClientRecords, Ids
  <2>13. client \in [state : {"connected", "primed", "active", "zombie"},
                     pureReceived : BOOLEAN, pureAuthentic : BOOLEAN,
                     downloadName : BOOLEAN, told : Ids,
                     executed : 0 .. Len(commands), stray : BOOLEAN,
                     sends : {FALSE}]
    BY <2>11, <2>12 DEF ClientRecords
  <2> QED BY <2>1, <2>3, <2>6, <2>8, <2>10, <2>13
         DEF TypeOK, ClientOK, CountersOK
<1> QED BY <1>1, Invariance, PTL

(* On a pure server no usercmd of another map reaches the game: packets    *)
(* that cross a map change are ignored or wait for the check of the files. *)
THEOREM MovesAreOfThisMap == Spec => []MovesOfThisMap
<1>1. GameInv => MovesOfThisMap
  BY DEF GameInv, ServerOK, RunUpTo, MovesOfThisMap
<1> QED BY <1>1, Invariance, PTL

(* A client in the world of a pure server has the gamestate of its map and *)
(* has proved its files for it.                                            *)
THEOREM ActiveIsProved == Spec => []ActiveHoldsGamestate
<1>1. ASSUME GameInv, Pure, client.state = "active"
      PROVE  client.pureReceived /\ client.pureAuthentic /\ clMap = restartedServerId
  <2>1. /\ client.pureReceived = client.pureAuthentic
        /\ Proved(client.executed)
        /\ ~client.pureReceived
             => /\ client.executed \in DOMAIN commands
                /\ commands[client.executed].name = "vdr"
        /\ Whole(client.executed) /\ client.executed <= Len(commands)
        /\ client.executed \in Nat
    BY <1>1 DEF GameInv, ServerOK, RunUpTo, ClientRecords
  <2>2. client.pureReceived
    BY <2>1 DEF Whole, Proved
  <2>3. PICK k \in 1 .. client.executed : commands[k].map = restartedServerId
    BY <2>1 DEF Proved, ProvesNow
  <2>4. k \in DOMAIN commands
    BY <1>1, <2>1, LenProperties DEF GameInv, CommandsOK
  <2>5. restartedServerId <= clMap /\ clMap <= restartedServerId
    BY <1>1, <2>3, <2>4 DEF GameInv, CommandsOK, ClientOK
  <2>6. clMap \in Nat /\ restartedServerId \in Nat
    BY <1>1 DEF GameInv, CountersOK, ClientOK
  <2> QED BY <2>1, <2>2, <2>5, <2>6
<1>2. GameInv => ActiveHoldsGamestate
  BY <1>1 DEF ActiveHoldsGamestate
<1> QED BY <1>2, Invariance, PTL

(* An honest client is dropped as impure only if it proved its files while *)
(* its serverId was of the map that is running and its gamestate was of    *)
(* another, which takes a map restart.                                     *)
THEOREM HonestStays == Spec => []DroppedOnlyIfMisled
<1>1. GameInv => DroppedOnlyIfMisled
  BY DEF GameInv, CountersOK, ServerOK, RunUpTo, DroppedOnlyIfMisled
<1> QED BY <1>1, Invariance, PTL
=============================================================================
