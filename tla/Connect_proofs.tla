--------------------------- MODULE Connect_proofs ---------------------------
(***************************************************************************)
(* Proofs about how a connection begins and ends: the types, that both     *)
(* ends agree on the connection they are in unless the user began another  *)
(* attempt before the last one had settled, or a connectionless packet     *)
(* overtook a message.                                                     *)
(*                                                                         *)
(* The argument is about the order of packets.  A connect packet is of the *)
(* attempt the client is in, since nothing of an earlier attempt was on    *)
(* its way when it began; so the slot can only become the client's own,    *)
(* what the server wrote before that is in front of its answer, and what   *)
(* the client writes after it is behind its first connect packet.  A late  *)
(* copy of the connect packet sets the slot up for the same connection.    *)
(***************************************************************************)
EXTENDS Connect, SequencesExt, SequenceTheorems, WellFoundedInduction,
        TLAPS

-----------------------------------------------------------------------------
(* Sequences.                                                              *)

(* A function on 1 .. k is a sequence of length k.                         *)
LEMMA FunctionIsSeq ==
  ASSUME NEW S, NEW k \in Nat, NEW f \in [1 .. k -> S]
  PROVE  f \in Seq(S) /\ Len(f) = k
<1>1. f \in Seq(S)
  BY SeqDef
<1>2. DOMAIN f = 1 .. k /\ DOMAIN f = 1 .. Len(f) /\ Len(f) \in Nat
  BY <1>1, LenProperties
<1> QED BY <1>1, <1>2

(* Taking the oldest message.                                              *)
LEMMA TailOfMessages ==
  ASSUME NEW S, NEW s \in Seq(S), s # <<>>
  PROVE  /\ Head(s) = s[1] /\ 1 \in DOMAIN s /\ Tail(s) \in Seq(S)
         /\ \A i \in DOMAIN Tail(s) : i + 1 \in DOMAIN s /\ Tail(s)[i] = s[i + 1]
<1>1. /\ Len(s) \in Nat \ {0} /\ DOMAIN s = 1 .. Len(s)
      /\ Tail(s) \in Seq(S) /\ Len(Tail(s)) = Len(s) - 1
      /\ \A i \in 1 .. Len(Tail(s)) : Tail(s)[i] = s[i + 1]
  BY LenProperties, EmptySeq, HeadTailProperties
<1>2. DOMAIN Tail(s) = 1 .. Len(Tail(s))
  BY <1>1, LenProperties
<1>3. Head(s) = s[1]
  OBVIOUS
<1> QED BY <1>1, <1>2, <1>3

(* A message that is sent comes after those in flight.                     *)
LEMMA AppendedMessage ==
  ASSUME NEW S, NEW s \in Seq(S), NEW e \in S
  PROVE  /\ Append(s, e) \in Seq(S)
         /\ DOMAIN s = 1 .. Len(s) /\ Len(s) \in Nat
         /\ DOMAIN Append(s, e) = 1 .. Len(s) + 1
         /\ \A i \in 1 .. Len(s) : Append(s, e)[i] = s[i]
         /\ Append(s, e)[Len(s) + 1] = e
<1>1. Append(s, e) \in Seq(S) /\ Len(Append(s, e)) = Len(s) + 1
  BY AppendProperties
<1>2. DOMAIN Append(s, e) = 1 .. Len(s) + 1
  BY <1>1, LenProperties
<1>3. DOMAIN s = 1 .. Len(s) /\ Len(s) \in Nat
  BY LenProperties
<1> QED BY <1>1, <1>2, <1>3, AppendProperties

(* A packet that comes once more, at place j.                              *)
LEMMA RepeatIs ==
  ASSUME NEW S, NEW s \in Seq(S), NEW i \in DOMAIN s,
         NEW j \in 1 .. Len(s) + 1, NEW t, t = Repeat(s, i, j)
  PROVE  /\ t \in Seq(S) /\ Len(s) \in Nat /\ DOMAIN s = 1 .. Len(s)
         /\ i \in Nat /\ j \in Nat /\ DOMAIN t = 1 .. Len(s) + 1
         /\ \A m \in DOMAIN t :
              \/ m < j /\ t[m] = s[m]
              \/ m = j /\ t[m] = s[i]
              \/ m > j /\ t[m] = s[m - 1]
<1> DEFINE n == Len(s)
<1>1. /\ n \in Nat /\ DOMAIN s = 1 .. n /\ i \in Nat /\ j \in Nat
      /\ \A k \in 1 .. n : s[k] \in S
  BY LenProperties, ElementOfSeq
<1>2. PICK a : a = SubSeq(s, 1, j - 1)
  OBVIOUS
<1>3. PICK c : c = SubSeq(s, j, n)
  OBVIOUS
<1>4. PICK b \in Seq(S) : b = <<s[i]>>
  <2>1. <<s[i]>> \in Seq(S)
    BY <1>1
  <2> QED BY <2>1
<1>5. Len(b) = 1 /\ b[1] = s[i]
  BY <1>4
<1>6. /\ a \in Seq(S) /\ Len(a) = j - 1
      /\ \A k \in 1 .. j - 1 : a[k] = s[k]
  <2>1. \A k \in 1 .. j - 1 : s[k] \in S
    BY <1>1
  <2>2. /\ a \in Seq(S) /\ Len(a) = IF 1 <= j - 1 THEN (j - 1) - 1 + 1 ELSE 0
        /\ \A k \in 1 .. (j - 1) - 1 + 1 : a[k] = s[1 + k - 1]
    BY <1>1, <1>2, <2>1, SubSeqProperties
  <2> QED BY <1>1, <2>2
<1>7. /\ c \in Seq(S) /\ Len(c) = n - j + 1
      /\ \A k \in 1 .. n - j + 1 : c[k] = s[j + k - 1]
  <2>1. \A k \in j .. n : s[k] \in S
    BY <1>1
  <2>2. /\ c \in Seq(S) /\ Len(c) = IF j <= n THEN n - j + 1 ELSE 0
        /\ \A k \in 1 .. n - j + 1 : c[k] = s[j + k - 1]
    BY <1>1, <1>3, <2>1, SubSeqProperties
  <2> QED BY <1>1, <2>2
<1>8. PICK d : d = a \o b
  OBVIOUS
<1>9. t = d \o c
  BY <1>2, <1>3, <1>4, <1>8 DEF Repeat, InsertAt
<1>10. /\ d \in Seq(S) /\ Len(d) = j
       /\ \A k \in 1 .. j - 1 : d[k] = s[k]
       /\ d[j] = s[i]
  <2>1. /\ d \in Seq(S) /\ Len(d) = Len(a) + Len(b)
        /\ \A k \in 1 .. Len(a) + Len(b) :
             d[k] = IF k <= Len(a) THEN a[k] ELSE b[k - Len(a)]
    BY <1>4, <1>6, <1>8, ConcatProperties
  <2> QED BY <1>1, <1>5, <1>6, <2>1
<1>11. /\ t \in Seq(S) /\ Len(t) = Len(d) + Len(c)
       /\ \A k \in 1 .. Len(d) + Len(c) :
            t[k] = IF k <= Len(d) THEN d[k] ELSE c[k - Len(d)]
  <2>1. c \in Seq(S) /\ d \in Seq(S)
    BY <1>7, <1>10
  <2>2. /\ d \o c \in Seq(S) /\ Len(d \o c) = Len(d) + Len(c)
        /\ \A k \in 1 .. Len(d) + Len(c) :
             (d \o c)[k] = IF k <= Len(d) THEN d[k] ELSE c[k - Len(d)]
    BY <2>1, ConcatProperties
  <2> QED BY <1>9, <2>2, Zenon
<1>12. Len(t) = n + 1 /\ DOMAIN t = 1 .. n + 1
  BY <1>1, <1>7, <1>10, <1>11, LenProperties
<1>13. ASSUME NEW m \in DOMAIN t
       PROVE  \/ m < j /\ t[m] = s[m]
              \/ m = j /\ t[m] = s[i]
              \/ m > j /\ t[m] = s[m - 1]
  <2>1. m \in 1 .. n + 1
    BY <1>12
  <2>2. CASE m <= j
    BY <1>1, <1>7, <1>10, <1>11, <2>1, <2>2
  <2>3. CASE m > j
    <3>1. t[m] = c[m - j] /\ m - j \in 1 .. n - j + 1
      BY <1>1, <1>7, <1>10, <1>11, <2>1, <2>3
    <3>2. c[m - j] = s[m - 1]
      <4>1. PICK k \in 1 .. n - j + 1 : k = m - j
        BY <3>1
      <4>2. j + k - 1 = m - 1
        BY <1>1, <2>1, <4>1
      <4>3. c[k] = s[j + k - 1]
        BY <1>7
      <4> QED BY <4>1, <4>2, <4>3
    <3> QED BY <2>3, <3>1, <3>2
  <2> QED BY <1>1, <2>1, <2>2, <2>3
<1> QED BY <1>1, <1>11, <1>12, <1>13

-----------------------------------------------------------------------------
(* The inductive invariants.                                               *)

IsMessage(p) == p.type = "message"

SlotIsOurs == slot.state = "free" \/ slot.challenge = clcChallenge

(* Connect packets are of the attempt the client is in.                    *)
ConnectsOfAttempt ==
    \A i \in DOMAIN toServer : toServer[i].type = "connect" =>
        /\ clsState # "connecting"
        /\ clsState # "disconnected" => toServer[i].challenge = clcChallenge

(* A connectResponse that the client would obey is about its own slot, and *)
(* only messages of that slot come after it.                               *)
ResponsesOfAttempt ==
    \A i \in DOMAIN toClient : toClient[i].type = "connectResponse" =>
        /\ clsState # "connecting"
        /\ clsState = "challenging" =>
             /\ SlotIsOurs
             /\ \A j \in DOMAIN toClient :
                  i < j /\ IsMessage(toClient[j])
                     => toClient[j].challenge = clcChallenge

ClientInItsSlot ==
    InConnection => /\ SlotIsOurs
                    /\ \A j \in DOMAIN toClient : IsMessage(toClient[j])
                         => toClient[j].challenge = clcChallenge

(* A message is of the slot the server has, or of the one a connect packet *)
(* in front of it sets up.                                                 *)
MessagesOfConnect ==
    \A i, j \in DOMAIN toServer :
        i < j /\ toServer[i].type = "connect" /\ IsMessage(toServer[j])
           => toServer[j].challenge = toServer[i].challenge

MessagesOfSlot ==
    slot.state = "connected" =>
        \A j \in DOMAIN toServer : IsMessage(toServer[j])
           => toServer[j].challenge = slot.challenge

Agreement ==
    /\ ~garbled
    /\ ConnectsOfAttempt /\ ResponsesOfAttempt /\ ClientInItsSlot
    /\ MessagesOfConnect /\ MessagesOfSlot

AgreeInv == TypeOK /\ (overlapped \/ Agreement)

-----------------------------------------------------------------------------
(* The records of challenges.                                              *)

(* A set of numbers that is not empty has a smallest element.              *)
LEMMA SmallestExists ==
  ASSUME NEW S, S \subseteq Nat, S # {}
  PROVE  \E x \in S : \A y \in S : x <= y
<1>1. PICK x \in S : \A y \in S : ~ (<<y, x>> \in OpToRel(<, Nat))
  BY WFMin, NatLessThanWellFounded
<1>2. \A y \in S : ~(y < x)
  BY <1>1 DEF OpToRel
<1> QED BY <1>2

(* FirstRecord finds a record of the set.                                  *)
LEMMA FirstRecordIs ==
  ASSUME NEW R, R \subseteq Records, R # {}
  PROVE  FirstRecord(R) \in R
<1>1. R \subseteq Nat
  BY ChallengesAssumption DEF Records
<1>2. \E x \in R : \A y \in R : x <= y
  BY <1>1, SmallestExists
<1> QED BY <1>2 DEF FirstRecord

(* There is a record to recycle.                                           *)
LEMMA OldestIs ==
  ASSUME TypeOK
  PROVE  Oldest \in Records
<1> DEFINE N == {challenges[i].challenge : i \in Records}
           R == {i \in Records : \A j \in Records :
                    challenges[i].challenge <= challenges[j].challenge}
<1>1. \A i \in Records : challenges[i].challenge \in Nat
  BY DEF TypeOK, Numbers
<1>2. N \subseteq Nat
  BY <1>1
<1>3. 1 \in Records
  BY ChallengesAssumption DEF Records
<1>4. N # {}
  BY <1>3
<1>5. PICK x \in N : \A y \in N : x <= y
  <2> HIDE DEF N
  <2> QED BY <1>2, <1>4, SmallestExists
<1>6. R # {}
  <2>1. PICK i \in Records : x = challenges[i].challenge
    OBVIOUS
  <2>2. \A j \in Records : challenges[i].challenge <= challenges[j].challenge
    BY <1>5, <2>1
  <2> QED BY <2>2
<1>7. FirstRecord(R) \in R
  <2> HIDE DEF R
  <2>1. R \subseteq Records
    BY DEF R
  <2> QED BY <1>6, <2>1, FirstRecordIs
<1> QED BY <1>7 DEF Oldest

(* The types of the parts of the state that the records are.               *)
RecordsOK(chs, n) ==
    chs \in [Records -> [adr : {"none", "client", "other"},
                         challenge : 0 .. n, connected : BOOLEAN]]

(* What is sent with the numbers of today could be sent tomorrow.          *)
LEMMA PacketsGrow ==
  ASSUME issued \in Nat, issued' \in Nat, issued <= issued'
  PROVE  /\ Numbers \subseteq Numbers'
         /\ PacketsToServer \subseteq PacketsToServer'
         /\ PacketsToClient \subseteq PacketsToClient'
<1>1. Numbers \subseteq Numbers'
  BY DEF Numbers
<1>2. PacketsToServer \subseteq PacketsToServer'
  BY <1>1 DEF PacketsToServer
<1>3. PacketsToClient \subseteq PacketsToClient'
  BY <1>1 DEF PacketsToClient
<1> QED BY <1>1, <1>2, <1>3

(* Making a challenge, or finding the one that was made before.            *)
LEMMA GiveRecordTypes ==
  ASSUME TypeOK, NEW adr \in {"client", "other"}, GiveRecord(adr)
  PROVE  /\ issued' \in Nat /\ issued <= issued'
         /\ RecordsOK(challenges, issued) => RecordsOK(challenges', issued')
         /\ NumberFor(adr) \in 0 .. issued'
<1>1. issued \in Nat
  BY DEF TypeOK
<1>2. CASE UnusedBy(adr) # {}
  <2>1. issued' = issued /\ challenges' = challenges
    BY <1>2 DEF GiveRecord
  <2>2. FirstRecord(UnusedBy(adr)) \in Records
    BY <1>2, FirstRecordIs DEF UnusedBy
  <2>3. NumberFor(adr) \in Numbers
    BY <1>2, <2>2 DEF NumberFor, TypeOK
  <2> QED BY <1>1, <2>1, <2>3 DEF Numbers
<1>3. CASE UnusedBy(adr) = {}
  <2>1. /\ issued' = issued + 1
        /\ challenges' = [challenges EXCEPT ![Oldest] =
             [adr |-> adr, challenge |-> issued + 1, connected |-> FALSE]]
    BY <1>3 DEF GiveRecord
  <2>2. NumberFor(adr) = issued + 1
    BY <1>3 DEF NumberFor
  <2>3. RecordsOK(challenges, issued) => RecordsOK(challenges', issued')
    <3>1. ASSUME NEW c \in [adr : {"none", "client", "other"},
                             challenge : 0 .. issued, connected : BOOLEAN]
          PROVE  c \in [adr : {"none", "client", "other"},
                         challenge : 0 .. issued + 1, connected : BOOLEAN]
      BY <1>1
    <3>2. [adr |-> adr, challenge |-> issued + 1, connected |-> FALSE]
            \in [adr : {"none", "client", "other"},
                 challenge : 0 .. issued + 1, connected : BOOLEAN]
      BY <1>1
    <3>3. Oldest \in Records
      BY OldestIs
    <3> QED BY <2>1, <3>1, <3>2, <3>3 DEF RecordsOK
  <2> QED BY <1>1, <2>1, <2>2, <2>3
<1> QED BY <1>2, <1>3

-----------------------------------------------------------------------------
(* The packets.                                                            *)

(* While no challenge is made, the numbers and the packets are the same.   *)
LEMMA SameNumbers ==
  ASSUME issued' = issued
  PROVE  /\ Numbers' = Numbers
         /\ PacketsToServer' = PacketsToServer
         /\ PacketsToClient' = PacketsToClient
BY DEF Numbers, PacketsToServer, PacketsToClient

(* A sequence of packets of today is one of packets of tomorrow.           *)
LEMMA SeqsOfMore ==
  ASSUME NEW S, NEW T, S \subseteq T, NEW s \in Seq(S)
  PROVE  s \in Seq(T)
BY SeqDef

(* What the server receives.                                               *)
LEMMA PacketToServer ==
  ASSUME NEW p \in PacketsToServer
  PROVE  /\ p.type = "connect" => p.challenge \in Numbers
         /\ IsMessage(p) => p.challenge \in Numbers
BY DEF PacketsToServer, IsMessage

(* What the client receives.                                               *)
LEMMA PacketToClient ==
  ASSUME NEW p \in PacketsToClient
  PROVE  /\ p.type = "challengeResponse" => p.challenge \in Numbers
         /\ IsMessage(p) => p.challenge \in Numbers
BY DEF PacketsToClient, IsMessage

(* What the client sends.                                                  *)
LEMMA ClientSends ==
  ASSUME TypeOK
  PROVE  /\ [type |-> "getchallenge"] \in PacketsToServer
         /\ [type |-> "connect", challenge |-> clcChallenge]
               \in PacketsToServer
         /\ InConnection => /\ Message(clcChallenge, "moves") \in PacketsToServer
                            /\ Message(clcChallenge, "disconnect") \in PacketsToServer
<1>1. [type |-> "getchallenge"] \in PacketsToServer
  BY DEF PacketsToServer
<1>2. [type |-> "connect", challenge |-> clcChallenge] \in PacketsToServer
  BY DEF PacketsToServer, TypeOK
<1>3. ASSUME InConnection, NEW c \in {"moves", "disconnect"}
      PROVE  Message(clcChallenge, c) \in PacketsToServer
  <2>1. clcChallenge \in Numbers
    BY DEF TypeOK
  <2> QED BY <2>1 DEF Message, PacketsToServer
<1> QED BY <1>1, <1>2, <1>3

(* What the server sends.                                                  *)
LEMMA ServerSends ==
  ASSUME TypeOK
  PROVE  /\ \A n \in Numbers : Response(n) \in PacketsToClient
         /\ Refusal \in PacketsToClient
         /\ [type |-> "connectResponse"] \in PacketsToClient
         /\ [type |-> "disconnect"] \in PacketsToClient
         /\ \A c \in {"gamestate", "snapshot", "disconnect"} :
              Message(slot.challenge, c) \in PacketsToClient
<1>1. \A n \in Numbers : Response(n) \in PacketsToClient
  BY DEF PacketsToClient, Response
<1>2. /\ Refusal \in PacketsToClient
      /\ [type |-> "connectResponse"] \in PacketsToClient
      /\ [type |-> "disconnect"] \in PacketsToClient
  BY DEF PacketsToClient, Refusal
<1>3. slot.challenge \in Numbers
  BY DEF TypeOK
<1>4. \A c \in {"gamestate", "snapshot", "disconnect"} :
        Message(slot.challenge, c) \in PacketsToClient
  BY <1>3 DEF PacketsToClient, Message
<1> QED BY <1>1, <1>2, <1>4

(* What is written behind a sequence of packets.                           *)
LEMMA WrittenBehind ==
  ASSUME NEW T, NEW s \in Seq(T), NEW w \in Seq(T)
  PROVE  /\ s \o w \in Seq(T) /\ Len(s) \in Nat /\ DOMAIN s = 1 .. Len(s)
         /\ DOMAIN (s \o w) = 1 .. Len(s) + Len(w)
         /\ \A i \in 1 .. Len(s) : (s \o w)[i] = s[i]
         /\ \A i \in Len(s) + 1 .. Len(s) + Len(w) :
              (s \o w)[i] = w[i - Len(s)]
<1>1. /\ s \o w \in Seq(T) /\ Len(s \o w) = Len(s) + Len(w)
      /\ \A i \in 1 .. Len(s) + Len(w) :
           (s \o w)[i] = IF i <= Len(s) THEN s[i] ELSE w[i - Len(s)]
  BY ConcatProperties
<1>2. /\ Len(s) \in Nat /\ Len(w) \in Nat /\ DOMAIN s = 1 .. Len(s)
  BY LenProperties
<1>3. DOMAIN (s \o w) = 1 .. Len(s) + Len(w)
  <2> DEFINE t == s \o w
  <2>1. t \in Seq(T) /\ Len(t) = Len(s) + Len(w)
    BY <1>1
  <2> HIDE DEF t
  <2>2. DOMAIN t = 1 .. Len(s) + Len(w)
    BY <2>1, LenProperties
  <2> QED BY <2>2 DEF t
<1> QED BY <1>1, <1>2, <1>3

(* The farewell of a client that is in a connection; whoever is not says   *)
(* nothing.                                                                *)
LEMMA FarewellSent ==
  ASSUME TypeOK
  PROVE  /\ toServer \o Farewell \in Seq(PacketsToServer)
         /\ DOMAIN toServer = 1 .. Len(toServer) /\ Len(toServer) \in Nat
         /\ ~InConnection => toServer \o Farewell = toServer
         /\ InConnection =>
              /\ DOMAIN (toServer \o Farewell) = 1 .. Len(toServer) + 3
              /\ \A i \in 1 .. Len(toServer) :
                   (toServer \o Farewell)[i] = toServer[i]
              /\ \A i \in Len(toServer) + 1 .. Len(toServer) + 3 :
                   (toServer \o Farewell)[i] = Message(clcChallenge, "disconnect")
<1>1. /\ toServer \in Seq(PacketsToServer)
      /\ DOMAIN toServer = 1 .. Len(toServer) /\ Len(toServer) \in Nat
  BY LenProperties DEF TypeOK
<1>2. CASE ~InConnection
  <2>1. Farewell = <<>>
    BY <1>2 DEF Farewell
  <2> QED BY <1>1, <1>2, <2>1, ConcatEmptySeq
<1>3. CASE InConnection
  <2> DEFINE w == Farewell
             s == toServer \o w
  <2>1. Message(clcChallenge, "disconnect") \in PacketsToServer
    BY <1>3, ClientSends
  <2>2. Farewell = [i \in 1 .. 3 |-> Message(clcChallenge, "disconnect")]
    BY <1>3 DEF Farewell
  <2>3. w \in [1 .. 3 -> PacketsToServer]
    BY <2>1, <2>2
  <2>4. w \in Seq(PacketsToServer) /\ Len(w) = 3
    BY <2>3, FunctionIsSeq
  <2>5. \A i \in 1 .. 3 : w[i] = Message(clcChallenge, "disconnect")
    BY <2>2
  <2> HIDE DEF w
  <2>6. /\ s \in Seq(PacketsToServer) /\ DOMAIN s = 1 .. Len(toServer) + 3
        /\ \A i \in 1 .. Len(toServer) : s[i] = toServer[i]
        /\ \A i \in Len(toServer) + 1 .. Len(toServer) + 3 :
             s[i] = w[i - Len(toServer)]
    <3>1. toServer \in Seq(PacketsToServer) /\ w \in Seq(PacketsToServer)
      BY <1>1, <2>4
    <3>2. /\ s \in Seq(PacketsToServer)
          /\ DOMAIN s = 1 .. Len(toServer) + Len(w)
          /\ \A i \in 1 .. Len(toServer) : s[i] = toServer[i]
          /\ \A i \in Len(toServer) + 1 .. Len(toServer) + Len(w) :
               s[i] = w[i - Len(toServer)]
      BY <3>1, WrittenBehind
    <3> HIDE DEF s
    <3> QED BY <2>4, <3>2
  <2>9. \A i \in Len(toServer) + 1 .. Len(toServer) + 3 :
          s[i] = Message(clcChallenge, "disconnect")
    BY <1>1, <2>5, <2>6
  <2> QED BY <1>1, <1>3, <2>6, <2>9 DEF w
<1> QED BY <1>2, <1>3

-----------------------------------------------------------------------------
(* Types.                                                                  *)

(* The client's steps keep the types.                                      *)
LEMMA ClientStepTypes ==
  ASSUME TypeOK, ClientStep
  PROVE  TypeOK'
<1> USE BoundsAssumption
<1>1. CASE CL_Connect_f
  <2>1. UNCHANGED <<serverVars, toClient, disturbances, garbled>>
    BY <1>1 DEF CL_Connect_f
  <2>2. /\ Numbers' = Numbers /\ PacketsToServer' = PacketsToServer
        /\ PacketsToClient' = PacketsToClient
    BY <2>1, SameNumbers DEF serverVars
  <2>3. toServer' \in Seq(PacketsToServer)
    BY <1>1, FarewellSent DEF CL_Connect_f
  <2>4. attempts' \in 0 .. MaxAttempts /\ MaxAttempts \in Nat
    BY <1>1 DEF CL_Connect_f, TypeOK
  <2>5. 0 \in Numbers
    BY DEF TypeOK, Numbers
  <2>6. overlapped' \in BOOLEAN
    BY <1>1, Zenon DEF CL_Connect_f, TypeOK
  <2>7. /\ clsState' = "connecting" /\ clcChallenge' = 0
        /\ clHeard' = FALSE /\ told' = FALSE
    BY <1>1 DEF CL_Connect_f
  <2>8. /\ issued' = issued /\ challenges' = challenges /\ slot' = slot
        /\ asked' = asked /\ toClient' = toClient
        /\ disturbances' = disturbances /\ garbled' = garbled
    BY <2>1 DEF serverVars
  <2>9. clHeard' \in BOOLEAN /\ told' \in BOOLEAN
    BY <2>7
  <2> QED BY <2>2, <2>3, <2>4, <2>5, <2>6, <2>7, <2>8, <2>9 DEF TypeOK
<1>2. CASE CL_Disconnect_f \/ CL_CheckTimeout
  <2>1. UNCHANGED <<serverVars, toClient, history>> /\ CL_Disconnect
    BY <1>2 DEF CL_Disconnect_f, CL_CheckTimeout
  <2>2. /\ Numbers' = Numbers /\ PacketsToServer' = PacketsToServer
        /\ PacketsToClient' = PacketsToClient
    BY <2>1, SameNumbers DEF serverVars
  <2>3. toServer' \in Seq(PacketsToServer)
    BY <2>1, FarewellSent DEF CL_Disconnect
  <2>4. 0 \in Numbers
    BY DEF TypeOK, Numbers
  <2> QED BY <2>1, <2>2, <2>3, <2>4
          DEF CL_Disconnect, TypeOK, serverVars, history
<1>3. CASE ClientCrashes
  <2>1. UNCHANGED <<serverVars, net, attempts, told, overlapped, garbled>>
    BY <1>3 DEF ClientCrashes
  <2>2. /\ Numbers' = Numbers /\ PacketsToServer' = PacketsToServer
        /\ PacketsToClient' = PacketsToClient
    BY <2>1, SameNumbers DEF serverVars
  <2>3. 0 \in Numbers
    BY DEF TypeOK, Numbers
  <2>4. disturbances' \in 0 .. MaxDisturbances
    BY <1>3 DEF ClientCrashes, Disturb, TypeOK
  <2>5. clsState' = "disconnected" /\ clcChallenge' = 0 /\ clHeard' = FALSE
    BY <1>3 DEF ClientCrashes
  <2> QED BY <2>1, <2>2, <2>3, <2>4, <2>5 DEF TypeOK, serverVars, net
<1>4. CASE CL_CheckForResend \/ CL_WritePacket
  <2>1. UNCHANGED <<clientVars, serverVars, toClient, history>>
    BY <1>4 DEF CL_CheckForResend, CL_WritePacket
  <2>2. /\ Numbers' = Numbers /\ PacketsToServer' = PacketsToServer
        /\ PacketsToClient' = PacketsToClient
    BY <2>1, SameNumbers DEF serverVars
  <2>3. PICK p \in PacketsToServer : toServer' = Append(toServer, p)
    BY <1>4, ClientSends DEF CL_CheckForResend, CL_WritePacket
  <2>4. toServer' \in Seq(PacketsToServer)
    BY <2>3, AppendedMessage DEF TypeOK
  <2> QED BY <2>1, <2>2, <2>4
          DEF TypeOK, clientVars, serverVars, history
<1>5. CASE CL_PacketEvent
  <2> DEFINE p == Head(toClient)
  <2>1. /\ toClient # <<>> /\ toClient' = Tail(toClient)
        /\ UNCHANGED <<serverVars, attempts, disturbances, overlapped>>
        /\ \/ ChallengeResponse(p) \/ ConnectResponse(p)
           \/ DisconnectPacket(p) \/ PrintedPacket(p) \/ ServerMessage(p)
    BY <1>5 DEF CL_PacketEvent
  <2>2. /\ Numbers' = Numbers /\ PacketsToServer' = PacketsToServer
        /\ PacketsToClient' = PacketsToClient
    BY <2>1, SameNumbers DEF serverVars
  <2>3. toClient' \in Seq(PacketsToClient) /\ p \in PacketsToClient
    BY <2>1, HeadTailProperties DEF TypeOK
  <2>4. toServer \o Farewell \in Seq(PacketsToServer)
    BY FarewellSent
  <2>5. p.type = "challengeResponse" => p.challenge \in Numbers
    BY <2>3, PacketToClient
  <2>6. 0 \in Numbers
    BY DEF TypeOK, Numbers
  <2> HIDE DEF p
  <2>7. /\ clsState' \in {"disconnected", "connecting", "challenging",
                           "connected", "primed"}
        /\ clcChallenge' \in Numbers /\ clHeard' \in BOOLEAN
        /\ toServer' \in Seq(PacketsToServer)
    BY <2>1, <2>4, <2>5, <2>6
       DEF ChallengeResponse, ConnectResponse, DisconnectPacket,
           PrintedPacket, ServerMessage, CL_Disconnect, Ignored, HeardNow,
           TypeOK
  <2>8. told' \in BOOLEAN /\ garbled' \in BOOLEAN
    BY <2>1 DEF ChallengeResponse, ConnectResponse, DisconnectPacket,
                PrintedPacket, ServerMessage, TypeOK
  <2> QED BY <2>1, <2>2, <2>3, <2>7, <2>8 DEF TypeOK, serverVars
<1>6. CASE ClientTimePasses
  <2>1. UNCHANGED <<clsState, clcChallenge, serverVars, net, history>>
    BY <1>6 DEF ClientTimePasses
  <2>2. /\ Numbers' = Numbers /\ PacketsToServer' = PacketsToServer
        /\ PacketsToClient' = PacketsToClient
    BY <2>1, SameNumbers DEF serverVars
  <2> QED BY <1>6, <2>1, <2>2
          DEF ClientTimePasses, TypeOK, serverVars, net, history
<1> QED BY <1>1, <1>2, <1>3, <1>4, <1>5, <1>6 DEF ClientStep

(* The server's steps, the answers of the authorize server and what others *)
(* ask keep the types.                                                     *)
LEMMA ServerStepTypes ==
  ASSUME TypeOK,
         ServerStep \/ OtherGetsChallenge
           \/ \E n \in asked, accept \in BOOLEAN :
                SV_AuthorizeIpPacket(n, accept)
  PROVE  TypeOK'
<1> USE BoundsAssumption, ChallengesAssumption
<1>0. /\ issued \in Nat
      /\ \A i \in Records : challenges[i] \in
            [adr : {"none", "client", "other"}, challenge : Numbers,
             connected : BOOLEAN]
      /\ slot \in [state : {"free", "connected", "zombie"},
                   challenge : Numbers, recent : BOOLEAN, heard : BOOLEAN,
                   spoke : BOOLEAN]
      /\ 0 \in Numbers
  BY DEF TypeOK, Numbers
<1>1. NoRecord \in [adr : {"none", "client", "other"}, challenge : Numbers,
                    connected : BOOLEAN]
  BY <1>0 DEF NoRecord
<1>2. FreeSlot \in [state : {"free", "connected", "zombie"},
                   challenge : Numbers, recent : BOOLEAN, heard : BOOLEAN,
                   spoke : BOOLEAN]
  BY <1>0 DEF FreeSlot
<1> DEFINE Chs == [Records -> [adr : {"none", "client", "other"},
                               challenge : Numbers, connected : BOOLEAN]]
           Slots == [state : {"free", "connected", "zombie"},
                     challenge : Numbers, recent : BOOLEAN, heard : BOOLEAN,
                     spoke : BOOLEAN]
(* What a step has to show that makes no challenge.                        *)
<1>3. ASSUME issued' = issued, clientVars' = clientVars,
             challenges' \in Chs, slot' \in Slots, asked' \subseteq Numbers,
             toServer' \in Seq(PacketsToServer),
             toClient' \in Seq(PacketsToClient),
             attempts' = attempts, told' = told, overlapped' = overlapped,
             disturbances' \in 0 .. MaxDisturbances, garbled' \in BOOLEAN
      PROVE  TypeOK'
  <2>1. /\ Numbers' = Numbers /\ PacketsToServer' = PacketsToServer
        /\ PacketsToClient' = PacketsToClient
    BY <1>3, SameNumbers
  <2> QED BY <1>3, <2>1 DEF TypeOK, clientVars
<1>4. ASSUME ReleaseChallenge PROVE challenges' \in Chs
  <2> DEFINE mine == {i \in Records : challenges[i].adr = "client"}
  <2>1. mine # {} => FirstRecord(mine) \in Records
    <3>1. mine \subseteq Records
      OBVIOUS
    <3> HIDE DEF mine
    <3> QED BY <3>1, FirstRecordIs
  <2>2. challenges \in Chs
    BY DEF TypeOK
  <2> QED BY <1>4, <2>1, <2>2 DEF ReleaseChallenge
<1>5. ASSUME NEW q \in PacketsToClient, ToClient(q)
      PROVE  toClient' \in Seq(PacketsToClient)
  BY <1>5, AppendedMessage DEF ToClient, TypeOK
<1>6. ASSUME Disturb PROVE disturbances' \in 0 .. MaxDisturbances
  BY <1>6 DEF Disturb, TypeOK
<1>7. /\ challenges \in Chs /\ slot \in Slots /\ asked \subseteq Numbers
      /\ disturbances \in 0 .. MaxDisturbances /\ garbled \in BOOLEAN
  BY DEF TypeOK
<1>8. toServer \in Seq(PacketsToServer) /\ toClient \in Seq(PacketsToClient)
  BY DEF TypeOK
<1> HIDE DEF Chs, Slots
<1>9. /\ 0 \in Numbers /\ slot.challenge \in Numbers
      /\ FreeSlot \in Slots
      /\ [i \in Records |-> NoRecord] \in Chs
  BY <1>0, <1>1, <1>2 DEF Chs, Slots
<1>10. CASE SV_PacketEvent
  <2> DEFINE p == Head(toServer)
  <2>1. toServer # <<>> /\ toServer' = Tail(toServer)
    BY <1>10 DEF SV_PacketEvent
  <2>2. UNCHANGED <<clientVars, attempts, told, overlapped>>
    BY <1>10 DEF SV_PacketEvent
  <2>3. toServer' \in Seq(PacketsToServer) /\ p \in PacketsToServer
    BY <1>8, <2>1, HeadTailProperties
  <2>4. CASE SV_GetChallenge /\ UNCHANGED disturbances
    <3>1. GiveRecord("client") /\ UNCHANGED <<slot, garbled, disturbances>>
      BY <2>4 DEF SV_GetChallenge
    <3>2. /\ issued' \in Nat /\ issued <= issued'
          /\ RecordsOK(challenges, issued) => RecordsOK(challenges', issued')
          /\ NumberFor("client") \in 0 .. issued'
      BY <3>1, GiveRecordTypes
    <3>3. Response(NumberFor("client")) \in PacketsToClient'
      BY <3>2 DEF Response, PacketsToClient, Numbers
    <3>4. /\ Numbers \subseteq Numbers'
          /\ PacketsToServer \subseteq PacketsToServer'
          /\ PacketsToClient \subseteq PacketsToClient'
      BY <1>0, <3>2, PacketsGrow
    <3>5. /\ toServer' \in Seq(PacketsToServer')
          /\ toClient \in Seq(PacketsToClient')
      BY <1>8, <2>3, <3>4, SeqsOfMore
    <3>6. toClient' \in Seq(PacketsToClient')
      BY <2>4, <3>3, <3>5, AppendedMessage DEF SV_GetChallenge, ToClient
    <3>7. RecordsOK(challenges', issued')
      BY <1>7, <3>2 DEF RecordsOK, Chs, Numbers
    <3>8. asked' \subseteq Numbers'
      BY <1>7, <2>4, <3>2, <3>4 DEF SV_GetChallenge, Numbers
    <3>9. /\ challenges' \in [Records -> [adr : {"none", "client", "other"},
                                           challenge : Numbers',
                                           connected : BOOLEAN]]
          /\ slot' \in [state : {"free", "connected", "zombie"},
                         challenge : Numbers', recent : BOOLEAN,
                         heard : BOOLEAN, spoke : BOOLEAN]
      BY <1>7, <3>1, <3>4, <3>7 DEF RecordsOK, Numbers, Slots
    <3>10. clcChallenge \in Numbers'
      BY <3>4 DEF TypeOK
    <3> QED BY <2>2, <3>1, <3>2, <3>5, <3>6, <3>8, <3>9, <3>10
            DEF TypeOK, clientVars
  <2>5. CASE SV_DirectConnect
    <3> DEFINE n == p.challenge
    <3>1. /\ UNCHANGED <<issued, asked, garbled>>
          /\ n \in Numbers
          /\ RejectConnect(n) \/ AcceptConnect(n)
      BY <2>3, <2>5, PacketToServer DEF SV_DirectConnect
    <3> HIDE DEF n
    <3>2. CASE RejectConnect(n)
      <4>1. UNCHANGED <<challenges, slot, disturbances>>
        BY <3>2 DEF RejectConnect
      <4>2. toClient' \in Seq(PacketsToClient)
        BY <1>5, <1>8, <3>2, ServerSends DEF RejectConnect
      <4> QED BY <1>3, <1>7, <2>2, <2>3, <3>1, <4>1, <4>2
    <3>3. CASE AcceptConnect(n)
      <4> DEFINE i == FirstRecord(HoldersOfClient(n))
                 used == [challenges EXCEPT ![i].connected = TRUE]
      <4>1. i \in Records
        BY <3>3, FirstRecordIs
           DEF AcceptConnect, BadChallenge, HoldersOfClient, HoldersOf
      <4> HIDE DEF i
      <4>2. used \in Chs
        BY <1>7, <4>1 DEF Chs
      <4>3. \A adr \in {"client", "none"} :
              [used EXCEPT ![i].adr = adr] \in Chs
        BY <4>1, <4>2 DEF Chs
      <4>4. NewSlot(n) \in Slots
        BY <3>1 DEF NewSlot, Slots
      <4>5. challenges' \in Chs /\ slot' \in Slots
        BY <1>7, <1>9, <3>3, <4>2, <4>3, <4>4 DEF AcceptConnect, i
      <4>6. toClient' \in Seq(PacketsToClient)
        BY <1>5, <3>3, ServerSends DEF AcceptConnect
      <4>7. disturbances' \in 0 .. MaxDisturbances
        BY <1>6, <1>7, <3>3 DEF AcceptConnect
      <4> QED BY <1>3, <1>7, <2>2, <2>3, <3>1, <4>5, <4>6, <4>7
    <3> QED BY <3>1, <3>2, <3>3
  <2>6. CASE SequencedPacket
    <3>1. /\ UNCHANGED <<issued, asked, disturbances>> /\ IsMessage(p)
          /\ FromUnknown \/ FromZombie \/ FromClient(p)
      BY <2>6 DEF SequencedPacket, IsMessage
    <3> HIDE DEF p
    <3>3. challenges' \in Chs
      BY <1>4, <1>7, <3>1 DEF FromUnknown, FromZombie, FromClient
    <3>4. slot' \in Slots
      BY <1>7, <3>1 DEF FromUnknown, FromZombie, FromClient, Slots
    <3>5. toClient' \in Seq(PacketsToClient)
      BY <1>5, <1>8, <3>1, ServerSends DEF FromUnknown, FromZombie, FromClient
    <3>6. garbled' \in BOOLEAN
      BY <1>7, <3>1 DEF FromUnknown, FromZombie, FromClient
    <3> QED BY <1>3, <1>7, <2>2, <2>3, <3>1, <3>3, <3>4, <3>5, <3>6
  <2> QED BY <1>10, <2>4, <2>5, <2>6 DEF SV_PacketEvent
<1>11. CASE SV_SendClientMessages
  <2>1. UNCHANGED <<clientVars, serverVars, toServer, history>>
    BY <1>11 DEF SV_SendClientMessages
  <2>2. toClient' \in Seq(PacketsToClient)
    BY <1>5, <1>11, ServerSends DEF SV_SendClientMessages
  <2> QED BY <1>3, <1>7, <1>8, <2>1, <2>2 DEF serverVars, history
<1>12. CASE SV_CheckTimeouts
  <2>1. UNCHANGED <<clientVars, issued, asked, net, history>>
    BY <1>12 DEF SV_CheckTimeouts
  <2>2. challenges' \in Chs
    BY <1>4, <1>7, <1>12 DEF SV_CheckTimeouts
  <2>3. slot' \in Slots
    BY <1>7, <1>12 DEF SV_CheckTimeouts, Slots
  <2> QED BY <1>3, <1>7, <1>8, <2>1, <2>2, <2>3 DEF net, history
<1>13. CASE ServerTimePasses
  <2>1. UNCHANGED <<clientVars, challenges, issued, asked, net, history>>
    BY <1>13 DEF ServerTimePasses
  <2>2. slot' \in Slots
    BY <1>7, <1>13 DEF ServerTimePasses, Slots
  <2> QED BY <1>3, <1>7, <1>8, <2>1, <2>2 DEF net, history
<1>14. CASE SV_Kick_f
  <2>1. UNCHANGED <<clientVars, issued, asked, net, attempts, told,
                    overlapped, garbled>>
    BY <1>14 DEF SV_Kick_f
  <2>2. challenges' \in Chs
    BY <1>4, <1>14 DEF SV_Kick_f
  <2>3. slot' \in Slots
    BY <1>7, <1>14 DEF SV_Kick_f, Slots
  <2>4. disturbances' \in 0 .. MaxDisturbances
    BY <1>6, <1>14 DEF SV_Kick_f
  <2> QED BY <1>3, <1>7, <1>8, <2>1, <2>2, <2>3, <2>4 DEF net
<1>15. CASE ServerRestarts
  <2>1. /\ UNCHANGED <<clientVars, issued, net, attempts, told,
                       overlapped, garbled>>
        /\ challenges' = [i \in Records |-> NoRecord]
        /\ slot' = FreeSlot /\ asked' = {}
    BY <1>15 DEF ServerRestarts
  <2>2. disturbances' \in 0 .. MaxDisturbances
    BY <1>6, <1>15 DEF ServerRestarts
  <2> QED BY <1>3, <1>7, <1>8, <1>9, <2>1, <2>2 DEF net
<1>16. CASE OtherGetsChallenge
  <2>1. /\ UNCHANGED <<clientVars, slot, asked, net, attempts, told,
                       overlapped, garbled>>
        /\ GiveRecord("other")
    BY <1>16 DEF OtherGetsChallenge
  <2>2. disturbances' \in 0 .. MaxDisturbances
    BY <1>6, <1>16 DEF OtherGetsChallenge
  <2>3. /\ issued' \in Nat /\ issued <= issued'
        /\ RecordsOK(challenges, issued) => RecordsOK(challenges', issued')
    BY <2>1, GiveRecordTypes
  <2>4. /\ Numbers \subseteq Numbers'
        /\ PacketsToServer \subseteq PacketsToServer'
        /\ PacketsToClient \subseteq PacketsToClient'
    BY <1>0, <2>3, PacketsGrow
  <2>5. /\ toServer' \in Seq(PacketsToServer')
        /\ toClient' \in Seq(PacketsToClient')
    BY <1>8, <2>1, <2>4, SeqsOfMore DEF net
  <2>6. RecordsOK(challenges', issued')
    BY <1>7, <2>3 DEF RecordsOK, Chs, Numbers
  <2>7. /\ challenges' \in [Records -> [adr : {"none", "client", "other"},
                                         challenge : Numbers',
                                         connected : BOOLEAN]]
        /\ slot' \in [state : {"free", "connected", "zombie"},
                       challenge : Numbers', recent : BOOLEAN,
                       heard : BOOLEAN, spoke : BOOLEAN]
    BY <1>7, <2>1, <2>4, <2>6 DEF RecordsOK, Numbers, Slots
  <2>8. clcChallenge \in Numbers' /\ asked' \subseteq Numbers'
    BY <1>7, <2>1, <2>4 DEF TypeOK
  <2> QED BY <2>1, <2>2, <2>3, <2>5, <2>7, <2>8 DEF TypeOK, clientVars
<1>17. ASSUME NEW n \in asked, NEW accept \in BOOLEAN,
              SV_AuthorizeIpPacket(n, accept)
       PROVE  TypeOK'
  <2>1. /\ UNCHANGED <<clientVars, issued, slot, toServer, attempts, told,
                       overlapped, garbled>>
        /\ asked' = asked \ {n}
    BY <1>17 DEF SV_AuthorizeIpPacket
  <2>2. challenges' \in Chs
    <3>1. [i \in Records |-> IF i \in HoldersOf(n) THEN NoRecord
                                                  ELSE challenges[i]] \in Chs
      BY <1>0, <1>1 DEF Chs
    <3> QED BY <1>7, <1>17, <3>1 DEF SV_AuthorizeIpPacket
  <2>3. toClient' \in Seq(PacketsToClient)
    <3>1. Response(n) \in PacketsToClient /\ Refusal \in PacketsToClient
      BY <1>7, ServerSends
    <3> QED BY <1>5, <1>8, <1>17, <3>1 DEF SV_AuthorizeIpPacket
  <2>4. disturbances' \in 0 .. MaxDisturbances
    BY <1>6, <1>7, <1>17 DEF SV_AuthorizeIpPacket
  <2> QED BY <1>3, <1>7, <1>8, <2>1, <2>2, <2>3, <2>4
<1> QED BY <1>10, <1>11, <1>12, <1>13, <1>14, <1>15, <1>16, <1>17
        DEF ServerStep

-----------------------------------------------------------------------------
(* Queues of packets: what is left when the first one is taken, and what   *)
(* is there when one is written.                                           *)

(* The server takes the first packet that is on its way to it.             *)
LEMMA TakenFromServerQueue ==
  ASSUME TypeOK, toServer # <<>>, toServer' = Tail(toServer)
  PROVE  /\ 1 \in DOMAIN toServer /\ Head(toServer) = toServer[1]
         /\ \A i \in DOMAIN toServer : i \in Nat /\ i >= 1
         /\ \A i \in DOMAIN toServer' :
              /\ i \in Nat /\ i >= 1
              /\ i + 1 \in DOMAIN toServer /\ toServer'[i] = toServer[i + 1]
<1>1. toServer \in Seq(PacketsToServer)
  BY DEF TypeOK
<1>2. /\ 1 \in DOMAIN toServer /\ Head(toServer) = toServer[1]
      /\ Tail(toServer) \in Seq(PacketsToServer)
      /\ \A i \in DOMAIN toServer' :
           i + 1 \in DOMAIN toServer /\ toServer'[i] = toServer[i + 1]
  BY <1>1, TailOfMessages
<1>3. DOMAIN toServer = 1 .. Len(toServer) /\ Len(toServer) \in Nat
  BY <1>1, LenProperties
<1>4. DOMAIN toServer' = 1 .. Len(toServer') /\ Len(toServer') \in Nat
  BY <1>2, LenProperties
<1> QED BY <1>2, <1>3, <1>4

(* The client takes the first packet that is on its way to it.             *)
LEMMA TakenFromClientQueue ==
  ASSUME TypeOK, toClient # <<>>, toClient' = Tail(toClient)
  PROVE  /\ 1 \in DOMAIN toClient /\ Head(toClient) = toClient[1]
         /\ \A i \in DOMAIN toClient : i \in Nat /\ i >= 1
         /\ \A i \in DOMAIN toClient' :
              /\ i \in Nat /\ i >= 1
              /\ i + 1 \in DOMAIN toClient /\ toClient'[i] = toClient[i + 1]
<1>1. toClient \in Seq(PacketsToClient)
  BY DEF TypeOK
<1>2. /\ 1 \in DOMAIN toClient /\ Head(toClient) = toClient[1]
      /\ Tail(toClient) \in Seq(PacketsToClient)
      /\ \A i \in DOMAIN toClient' :
           i + 1 \in DOMAIN toClient /\ toClient'[i] = toClient[i + 1]
  BY <1>1, TailOfMessages
<1>3. DOMAIN toClient = 1 .. Len(toClient) /\ Len(toClient) \in Nat
  BY <1>1, LenProperties
<1>4. DOMAIN toClient' = 1 .. Len(toClient') /\ Len(toClient') \in Nat
  BY <1>2, LenProperties
<1> QED BY <1>2, <1>3, <1>4

(* Written: q is s with packets like p behind it.                          *)
Written(q, s, n, p) ==
    /\ n \in Nat /\ DOMAIN s = 1 .. Len(s) /\ Len(s) \in Nat
    /\ DOMAIN q = 1 .. Len(s) + n
    /\ \A i \in DOMAIN s : q[i] = s[i]
    /\ \A i \in DOMAIN q : i \in DOMAIN s \/ q[i] = p

(* One packet is written.                                                  *)
LEMMA WrittenOne ==
  ASSUME NEW S, NEW s \in Seq(S), NEW p \in S
  PROVE  Written(Append(s, p), s, 1, p)
<1>1. /\ DOMAIN s = 1 .. Len(s) /\ Len(s) \in Nat
      /\ DOMAIN Append(s, p) = 1 .. Len(s) + 1
      /\ \A i \in 1 .. Len(s) : Append(s, p)[i] = s[i]
      /\ Append(s, p)[Len(s) + 1] = p
  BY AppendedMessage
<1>2. \A i \in 1 .. Len(s) + 1 : i \in 1 .. Len(s) \/ i = Len(s) + 1
  BY <1>1
<1> QED BY <1>1, <1>2 DEF Written

(* CL_Disconnect writes three packets, or none outside a connection.       *)
LEMMA WrittenFarewell ==
  ASSUME TypeOK, toServer' = toServer \o Farewell
  PROVE  /\ ~InConnection => toServer' = toServer
         /\ InConnection
              => Written(toServer', toServer, 3, Message(clcChallenge, "disconnect"))
<1>1. CASE ~InConnection
  BY <1>1, FarewellSent
<1>2. CASE InConnection
  <2>1. /\ DOMAIN toServer = 1 .. Len(toServer) /\ Len(toServer) \in Nat
        /\ DOMAIN toServer' = 1 .. Len(toServer) + 3
        /\ \A i \in 1 .. Len(toServer) : toServer'[i] = toServer[i]
        /\ \A i \in Len(toServer) + 1 .. Len(toServer) + 3 :
             toServer'[i] = Message(clcChallenge, "disconnect")
    BY <1>2, FarewellSent
  <2>2. \A i \in DOMAIN toServer' :
          i \in DOMAIN toServer \/ i \in Len(toServer) + 1 .. Len(toServer) + 3
    BY <2>1
  <2>3. Written(toServer', toServer, 3, Message(clcChallenge, "disconnect"))
    BY <2>1, <2>2 DEF Written
  <2> QED BY <1>2, <2>3
<1> QED BY <1>1, <1>2

-----------------------------------------------------------------------------
(* Agreement: which connection each end is in.                             *)

(* A step of the server that sets up no connection: it takes a packet or   *)
(* none; the slot is as it was, or given up; and what it sends is no       *)
(* connectResponse, and if it is a message then one of the slot.           *)
QuietSlot ==
    \/ slot'.state = "free"
    \/ /\ slot.state # "free" /\ slot'.challenge = slot.challenge
       /\ slot'.state = "connected" => slot.state = "connected"

QuietPacket(p) ==
    /\ p.type # "connectResponse"
    /\ IsMessage(p) => slot.state # "free" /\ p.challenge = slot.challenge

QuietStep ==
    /\ UNCHANGED <<clsState, clcChallenge, garbled>>
    /\ \/ toServer' = toServer
       \/ toServer # <<>> /\ toServer' = Tail(toServer)
    /\ QuietSlot
    /\ \/ toClient' = toClient
       \/ \E p : QuietPacket(p) /\ toClient' = Append(toClient, p)

(* What the queue of the server tells stays true when a packet is taken.   *)
LEMMA ServerQueueShrinks ==
  ASSUME TypeOK, ConnectsOfAttempt, MessagesOfConnect,
         UNCHANGED <<clsState, clcChallenge>>,
         \/ toServer' = toServer
         \/ toServer # <<>> /\ toServer' = Tail(toServer)
  PROVE  /\ ConnectsOfAttempt' /\ MessagesOfConnect'
         /\ \A i \in DOMAIN toServer' :
              \E j \in DOMAIN toServer : toServer'[i] = toServer[j]
<1>1. CASE toServer' = toServer
  BY <1>1 DEF ConnectsOfAttempt, MessagesOfConnect, IsMessage
<1>2. CASE toServer # <<>> /\ toServer' = Tail(toServer)
  <2>1. \A i \in DOMAIN toServer' :
          /\ i \in Nat /\ i >= 1
          /\ i + 1 \in DOMAIN toServer /\ toServer'[i] = toServer[i + 1]
    BY <1>2, TakenFromServerQueue
  <2>2. ConnectsOfAttempt'
    BY <2>1 DEF ConnectsOfAttempt
  <2>3. ASSUME NEW i \in DOMAIN toServer', NEW j \in DOMAIN toServer',
               i < j, toServer'[i].type = "connect", IsMessage(toServer'[j])
        PROVE  toServer'[j].challenge = toServer'[i].challenge
    <3>1. /\ i + 1 < j + 1 /\ i + 1 \in DOMAIN toServer
          /\ j + 1 \in DOMAIN toServer
      BY <2>1, <2>3
    <3> QED BY <2>1, <2>3, <3>1 DEF MessagesOfConnect
  <2> QED BY <2>1, <2>2, <2>3 DEF MessagesOfConnect, IsMessage
<1> QED BY <1>1, <1>2

(* A step that sets up no connection keeps the agreement.                  *)
LEMMA QuietStepKeepsAgreement ==
  ASSUME TypeOK, Agreement, QuietStep
  PROVE  Agreement'
<1>1. /\ UNCHANGED <<clsState, clcChallenge, garbled>>
      /\ ConnectsOfAttempt' /\ MessagesOfConnect'
      /\ \A i \in DOMAIN toServer' :
           \E j \in DOMAIN toServer : toServer'[i] = toServer[j]
  BY ServerQueueShrinks DEF QuietStep, Agreement
<1>2. MessagesOfSlot'
  BY <1>1 DEF QuietStep, QuietSlot, MessagesOfSlot, Agreement, IsMessage
<1>3. SlotIsOurs => SlotIsOurs'
  BY <1>1 DEF QuietStep, QuietSlot, SlotIsOurs
<1>4. (InConnection' <=> InConnection)
  BY <1>1 DEF InConnection
<1>5. CASE toClient' = toClient
  BY <1>1, <1>2, <1>3, <1>4, <1>5
     DEF Agreement, ResponsesOfAttempt, ClientInItsSlot, IsMessage
<1>6. ASSUME NEW p, QuietPacket(p), toClient' = Append(toClient, p)
      PROVE  Agreement'
  <2>1. Written(toClient', toClient, 1, p)
    <3>1. toClient \in Seq(PacketsToClient \union {p})
      BY SeqsOfMore DEF TypeOK
    <3> QED BY <1>6, <3>1, WrittenOne
  <2>2. ASSUME NEW i \in DOMAIN toClient',
               toClient'[i].type = "connectResponse"
        PROVE  /\ i \in DOMAIN toClient /\ toClient'[i] = toClient[i]
               /\ toClient[i].type = "connectResponse"
    BY <1>6, <2>1, <2>2 DEF Written, QuietPacket
  <2>3. ASSUME NEW j \in DOMAIN toClient', IsMessage(toClient'[j])
        PROVE  \/ /\ j \in DOMAIN toClient /\ toClient'[j] = toClient[j]
                  /\ IsMessage(toClient[j])
               \/ slot.state # "free" /\ toClient'[j].challenge = slot.challenge
    BY <1>6, <2>1, <2>3 DEF Written, QuietPacket
  <2>4. ResponsesOfAttempt'
    BY <1>1, <1>3, <2>2, <2>3
       DEF Agreement, ResponsesOfAttempt, SlotIsOurs, IsMessage
  <2>5. ClientInItsSlot'
    BY <1>1, <1>3, <1>4, <2>3
       DEF Agreement, ClientInItsSlot, SlotIsOurs, IsMessage
  <2> QED BY <1>1, <1>2, <2>4, <2>5 DEF Agreement
<1> QED BY <1>5, <1>6 DEF QuietStep

(* A slot that is set up is the client's: the connect packet is of its     *)
(* attempt, and so are the messages behind it.                             *)
LEMMA AcceptKeepsAgreement ==
  ASSUME TypeOK, Agreement, UNCHANGED <<clsState, clcChallenge, garbled>>,
         toServer # <<>>, toServer' = Tail(toServer),
         Head(toServer).type = "connect",
         slot' = NewSlot(Head(toServer).challenge),
         ToClient([type |-> "connectResponse"])
  PROVE  Agreement'
<1> DEFINE p == [type |-> "connectResponse"]
           n == Head(toServer).challenge
<1>1. /\ ConnectsOfAttempt' /\ MessagesOfConnect'
  BY ServerQueueShrinks DEF Agreement
<1>2. /\ 1 \in DOMAIN toServer /\ Head(toServer) = toServer[1]
      /\ \A i \in DOMAIN toServer' :
           /\ i \in Nat /\ i >= 1
           /\ i + 1 \in DOMAIN toServer /\ toServer'[i] = toServer[i + 1]
  BY TakenFromServerQueue
<1>3. /\ slot'.state = "connected" /\ slot'.challenge = n
      /\ clsState # "connecting"
      /\ clsState # "disconnected" => n = clcChallenge
  BY <1>2 DEF NewSlot, Agreement, ConnectsOfAttempt
<1>4. MessagesOfSlot'
  <2>1. ASSUME NEW j \in DOMAIN toServer', IsMessage(toServer'[j])
        PROVE  toServer'[j].challenge = n
    <3>1. 1 < j + 1 /\ j + 1 \in DOMAIN toServer
      BY <1>2
    <3> QED BY <1>2, <2>1, <3>1 DEF Agreement, MessagesOfConnect
  <2> QED BY <1>3, <2>1 DEF MessagesOfSlot, IsMessage
<1>5. Written(toClient', toClient, 1, p)
  BY ServerSends, WrittenOne DEF TypeOK, ToClient
<1>6. ASSUME NEW j \in DOMAIN toClient', IsMessage(toClient'[j])
      PROVE  /\ j \in DOMAIN toClient /\ toClient'[j] = toClient[j]
             /\ IsMessage(toClient[j])
  BY <1>5, <1>6 DEF Written, IsMessage
<1>7. ResponsesOfAttempt'
  <2>1. ASSUME NEW i \in DOMAIN toClient', NEW j \in DOMAIN toClient',
               clsState = "challenging", i < j, IsMessage(toClient'[j]),
               toClient'[i].type = "connectResponse"
        PROVE  toClient'[j].challenge = clcChallenge
    <3>1. j \in DOMAIN toClient /\ toClient'[j] = toClient[j]
      BY <1>6, <2>1
    <3>2. i \in DOMAIN toClient /\ toClient'[i] = toClient[i]
      BY <1>5, <2>1, <3>1 DEF Written
    <3> QED BY <2>1, <3>1, <3>2 DEF Agreement, ResponsesOfAttempt
  <2> QED BY <1>3, <2>1 DEF ResponsesOfAttempt, SlotIsOurs, IsMessage
<1>8. ClientInItsSlot'
  BY <1>3, <1>6 DEF Agreement, ClientInItsSlot, SlotIsOurs, InConnection,
                    IsMessage
<1> QED BY <1>1, <1>4, <1>7, <1>8 DEF Agreement

(* The steps of the server, of the authorize server and of others.         *)
LEMMA ServerKeepsAgreement ==
  ASSUME TypeOK, Agreement,
         ServerStep \/ OtherGetsChallenge
           \/ \E n \in asked, accept \in BOOLEAN :
                SV_AuthorizeIpPacket(n, accept)
  PROVE  Agreement'
<1>1. \A n : QuietPacket(Response(n))
  BY DEF QuietPacket, Response, IsMessage
<1>2. QuietPacket(Refusal) /\ QuietPacket([type |-> "disconnect"])
  BY DEF QuietPacket, Refusal, IsMessage
<1>3. slot.state # "free" => \A c : QuietPacket(Message(slot.challenge, c))
  BY DEF QuietPacket, Message, IsMessage
<1>4. slot.state \in {"free", "connected", "zombie"} /\ FreeSlot.state = "free"
  BY DEF TypeOK, FreeSlot
<1>5. CASE SV_PacketEvent
  <2> DEFINE p == Head(toServer)
  <2>1. /\ toServer # <<>> /\ toServer' = Tail(toServer)
        /\ UNCHANGED <<clsState, clcChallenge>>
    BY <1>5 DEF SV_PacketEvent, clientVars
  <2>2. CASE SV_GetChallenge
    <3>1. UNCHANGED <<slot, garbled>>
      BY <2>2 DEF SV_GetChallenge
    <3>2. \/ toClient' = toClient
          \/ toClient' = Append(toClient, Response(NumberFor("client")))
      BY <2>2 DEF SV_GetChallenge, ToClient
    <3>3. QuietStep
      BY <1>1, <1>4, <2>1, <3>1, <3>2 DEF QuietStep, QuietSlot
    <3> QED BY <3>3, QuietStepKeepsAgreement
  <2>3. CASE SV_DirectConnect
    <3> DEFINE n == p.challenge
    <3>1. /\ UNCHANGED garbled /\ p.type = "connect"
          /\ RejectConnect(n) \/ AcceptConnect(n)
      BY <2>3 DEF SV_DirectConnect
    <3>2. \/ /\ slot' = NewSlot(n)
             /\ ToClient([type |-> "connectResponse"])
          \/ /\ slot' = slot \/ slot' = FreeSlot
             /\ toClient' = toClient \/ ToClient(Refusal)
      <4> HIDE DEF p
      <4> QED BY <3>1 DEF RejectConnect, AcceptConnect
    <3>3. CASE /\ slot' = slot \/ slot' = FreeSlot
               /\ toClient' = toClient \/ ToClient(Refusal)
      <4>1. QuietStep
        BY <1>2, <1>4, <2>1, <3>1, <3>3 DEF QuietStep, QuietSlot, ToClient
      <4> QED BY <4>1, QuietStepKeepsAgreement
    <3> QED BY <2>1, <3>1, <3>2, <3>3, AcceptKeepsAgreement
  <2>4. CASE SequencedPacket
    <3>1. /\ 1 \in DOMAIN toServer /\ p = toServer[1] /\ IsMessage(p)
          /\ FromUnknown \/ FromZombie \/ FromClient(p)
      BY <2>1, <2>4, TakenFromServerQueue DEF SequencedPacket, IsMessage
    <3>2. slot.state = "connected" => p.challenge = slot.challenge
      BY <3>1 DEF Agreement, MessagesOfSlot
    <3> HIDE DEF p
    <3>3. UNCHANGED garbled /\ QuietSlot
      BY <1>4, <3>1, <3>2
         DEF FromUnknown, FromZombie, FromClient, QuietSlot, TypeOK
    <3>4. \/ toClient' = toClient
          \/ ToClient([type |-> "disconnect"])
          \/ slot.state # "free" /\ ToClient(Message(slot.challenge, "gamestate"))
      BY <3>1 DEF FromUnknown, FromZombie, FromClient
    <3>5. QuietStep
      BY <1>2, <1>3, <2>1, <3>3, <3>4 DEF QuietStep, ToClient
    <3> QED BY <3>5, QuietStepKeepsAgreement
  <2> QED BY <1>5, <2>2, <2>3, <2>4 DEF SV_PacketEvent
<1>6. CASE SV_SendClientMessages
  <2>1. QuietStep
    BY <1>3, <1>4, <1>6
       DEF SV_SendClientMessages, QuietStep, QuietSlot, ToClient, clientVars,
           serverVars, history
  <2> QED BY <2>1, QuietStepKeepsAgreement
<1>7. CASE SV_CheckTimeouts \/ ServerTimePasses \/ SV_Kick_f \/ ServerRestarts
  <2>1. UNCHANGED <<clsState, clcChallenge, garbled, toServer, toClient>>
    BY <1>7 DEF SV_CheckTimeouts, ServerTimePasses, SV_Kick_f, ServerRestarts,
                clientVars, net, history
  <2>2. QuietSlot
    BY <1>4, <1>7 DEF SV_CheckTimeouts, ServerTimePasses, SV_Kick_f,
                ServerRestarts, QuietSlot, TypeOK
  <2>3. QuietStep
    BY <2>1, <2>2 DEF QuietStep
  <2> QED BY <2>3, QuietStepKeepsAgreement
<1>8. CASE OtherGetsChallenge
  <2>1. QuietStep
    BY <1>4, <1>8 DEF OtherGetsChallenge, QuietStep, QuietSlot, clientVars, net
  <2> QED BY <2>1, QuietStepKeepsAgreement
<1>9. ASSUME NEW n \in asked, NEW accept \in BOOLEAN,
             SV_AuthorizeIpPacket(n, accept)
      PROVE  Agreement'
  <2>1. UNCHANGED <<clsState, clcChallenge, garbled, toServer, slot>>
    BY <1>9 DEF SV_AuthorizeIpPacket, clientVars
  <2>2. toClient' = toClient \/ ToClient(Response(n)) \/ ToClient(Refusal)
    BY <1>9 DEF SV_AuthorizeIpPacket
  <2>3. QuietStep
    BY <1>1, <1>2, <1>4, <2>1, <2>2 DEF QuietStep, QuietSlot, ToClient
  <2> QED BY <2>3, QuietStepKeepsAgreement
<1> QED BY <1>5, <1>6, <1>7, <1>8, <1>9 DEF ServerStep

-----------------------------------------------------------------------------
(* The steps of the client.                                                *)

(* A packet of the attempt that is written behind the others.              *)
LEMMA WritingKeepsAgreement ==
  ASSUME TypeOK, Agreement, NEW k, NEW p,
         Written(toServer', toServer, k, p),
         p.type = "connect" => clsState = "challenging"
                                 /\ p.challenge = clcChallenge,
         IsMessage(p) => InConnection /\ p.challenge = clcChallenge
  PROVE  /\ \A i \in DOMAIN toServer' : toServer'[i].type = "connect" =>
               /\ clsState # "connecting"
               /\ clsState # "disconnected"
                    => toServer'[i].challenge = clcChallenge
         /\ MessagesOfConnect'
         /\ slot' = slot => MessagesOfSlot'
<1>1. \A i \in DOMAIN toServer' :
         \/ i \in DOMAIN toServer /\ toServer'[i] = toServer[i]
         \/ toServer'[i] = p
  BY DEF Written
<1>2. \A i \in DOMAIN toServer' : toServer'[i].type = "connect" =>
               /\ clsState # "connecting"
               /\ clsState # "disconnected"
                    => toServer'[i].challenge = clcChallenge
  BY <1>1 DEF Agreement, ConnectsOfAttempt
<1>3. ASSUME NEW i \in DOMAIN toServer', NEW j \in DOMAIN toServer', i < j,
             toServer'[i].type = "connect", IsMessage(toServer'[j])
      PROVE  toServer'[j].challenge = toServer'[i].challenge
  <2>1. CASE j \in DOMAIN toServer
    <3>1. i \in DOMAIN toServer
      BY <1>3, <2>1 DEF Written
    <3>2. toServer'[i] = toServer[i] /\ toServer'[j] = toServer[j]
      BY <2>1, <3>1 DEF Written
    <3> QED BY <1>3, <2>1, <3>1, <3>2 DEF Agreement, MessagesOfConnect
  <2>2. CASE j \notin DOMAIN toServer
    <3>1. toServer'[j] = p
      BY <1>1, <2>2
    <3> QED BY <1>2, <1>3, <3>1 DEF InConnection
  <2> QED BY <2>1, <2>2
<1>4. ASSUME slot' = slot PROVE MessagesOfSlot'
  <2>1. ASSUME slot.state = "connected", NEW j \in DOMAIN toServer',
               IsMessage(toServer'[j])
        PROVE  toServer'[j].challenge = slot.challenge
    <3>1. InConnection => slot.challenge = clcChallenge
      BY <2>1 DEF Agreement, ClientInItsSlot, SlotIsOurs
    <3> QED BY <1>1, <2>1, <3>1 DEF Agreement, MessagesOfSlot
  <2> QED BY <1>4, <2>1 DEF MessagesOfSlot, IsMessage
<1> QED BY <1>2, <1>3, <1>4 DEF MessagesOfConnect, IsMessage

(* A client that leaves a connection says so three times, in messages of   *)
(* the connection; a client that has left obeys nothing.                   *)
LEMMA LeavingKeepsAgreement ==
  ASSUME TypeOK, Agreement, UNCHANGED <<slot, garbled>>,
         toServer' = toServer \/ toServer' = toServer \o Farewell,
         \/ clsState' = "disconnected"
         \/ clsState' = "connecting" /\ Settled /\ toClient' = toClient
  PROVE  Agreement'
<1> DEFINE p == Message(clcChallenge, "disconnect")
<1>1. IsMessage(p) /\ p.type # "connect" /\ p.challenge = clcChallenge
  BY DEF Message, IsMessage
<1>2. /\ MessagesOfConnect' /\ MessagesOfSlot'
      /\ \A i \in DOMAIN toServer' : toServer'[i].type = "connect"
            => \E j \in DOMAIN toServer : toServer[j].type = "connect"
  <2>1. CASE toServer' = toServer
    BY <2>1 DEF Agreement, MessagesOfConnect, MessagesOfSlot, IsMessage
  <2>2. CASE InConnection /\ toServer' = toServer \o Farewell
    <3>1. Written(toServer', toServer, 3, p)
      BY <2>2, WrittenFarewell
    <3> HIDE DEF p
    <3>2. MessagesOfConnect' /\ MessagesOfSlot'
      BY <1>1, <2>2, <3>1, WritingKeepsAgreement
    <3> QED BY <1>1, <3>1, <3>2 DEF Written
  <2> QED BY <2>1, <2>2, WrittenFarewell
<1>3. ~InConnection' /\ clsState' # "challenging"
  BY DEF InConnection
<1>4. ConnectsOfAttempt'
  BY <1>2 DEF ConnectsOfAttempt, Settled
<1>5. ResponsesOfAttempt'
  BY <1>3 DEF ResponsesOfAttempt, Settled
<1>6. ClientInItsSlot' /\ ~garbled'
  BY <1>3 DEF ClientInItsSlot, Agreement
<1> QED BY <1>2, <1>4, <1>5, <1>6 DEF Agreement

(* The client's queue loses its first packet, and nothing else happens.    *)
LEMMA ClientQueueShrinks ==
  ASSUME TypeOK, Agreement, toClient # <<>>, toClient' = Tail(toClient),
         UNCHANGED <<slot, garbled, toServer, clsState, clcChallenge>>
  PROVE  Agreement'
<1>0. \A i \in DOMAIN toClient' :
        /\ i \in Nat /\ i >= 1
        /\ i + 1 \in DOMAIN toClient /\ toClient'[i] = toClient[i + 1]
  BY TakenFromClientQueue
<1>1. /\ ConnectsOfAttempt' /\ MessagesOfConnect' /\ MessagesOfSlot'
      /\ ~garbled'
  BY DEF Agreement, ConnectsOfAttempt, MessagesOfConnect,
                     MessagesOfSlot, IsMessage
<1>2. ClientInItsSlot'
  BY <1>0 DEF Agreement, ClientInItsSlot, InConnection,
                     SlotIsOurs, IsMessage
<1>3. ASSUME NEW i \in DOMAIN toClient',
             toClient'[i].type = "connectResponse"
      PROVE  /\ clsState' # "connecting"
             /\ clsState' = "challenging" =>
                  /\ SlotIsOurs'
                  /\ \A j \in DOMAIN toClient' :
                       i < j /\ IsMessage(toClient'[j])
                          => toClient'[j].challenge = clcChallenge'
  <2>1. /\ i + 1 \in DOMAIN toClient
        /\ toClient[i + 1].type = "connectResponse"
    BY <1>0, <1>3
  <2>2. clsState' # "connecting" /\ (clsState' = "challenging" => SlotIsOurs')
    BY <2>1 DEF Agreement, ResponsesOfAttempt, SlotIsOurs
  <2>3. ASSUME clsState' = "challenging", NEW j \in DOMAIN toClient',
               i < j, IsMessage(toClient'[j])
        PROVE  toClient'[j].challenge = clcChallenge'
    <3>1. i + 1 < j + 1 /\ j + 1 \in DOMAIN toClient
      BY <1>0, <2>3
    <3> QED BY <1>0, <2>1, <2>3, <3>1 DEF Agreement, ResponsesOfAttempt
  <2> QED BY <2>2, <2>3
<1>4. ResponsesOfAttempt'
  BY <1>3 DEF ResponsesOfAttempt, IsMessage
<1> QED BY <1>1, <1>2, <1>4 DEF Agreement

(* The client takes a packet.                                              *)
LEMMA ReadingKeepsAgreement ==
  ASSUME TypeOK, Agreement, CL_PacketEvent
  PROVE  Agreement'
<1> DEFINE p == Head(toClient)
<1>1. /\ toClient # <<>> /\ toClient' = Tail(toClient) /\ slot' = slot
      /\ \/ ChallengeResponse(p) \/ ConnectResponse(p)
         \/ DisconnectPacket(p) \/ PrintedPacket(p) \/ ServerMessage(p)
  BY DEF CL_PacketEvent, serverVars
<1>2. /\ 1 \in DOMAIN toClient /\ p = toClient[1]
      /\ \A i \in DOMAIN toClient' :
           /\ i \in Nat /\ i >= 1
           /\ i + 1 \in DOMAIN toClient /\ toClient'[i] = toClient[i + 1]
  BY <1>1, TakenFromClientQueue
<1> HIDE DEF p
<1>3. UNCHANGED garbled
  <2>1. IsMessage(p) /\ InConnection => p.challenge = clcChallenge
    BY <1>2 DEF Agreement, ClientInItsSlot
  <2>2. ~garbled /\ garbled \in BOOLEAN
    BY DEF Agreement, TypeOK
  <2>3. CASE ServerMessage(p)
    <3>1. /\ garbled' = (garbled \/ (InConnection
                                       /\ p.challenge # clcChallenge))
          /\ IsMessage(p)
      BY <2>3 DEF ServerMessage, IsMessage
    <3> QED BY <2>1, <2>2, <3>1, Zenon
  <2> QED BY <1>1, <2>3
          DEF ChallengeResponse, ConnectResponse, DisconnectPacket,
              PrintedPacket
<1>4. CASE CL_Disconnect
  BY <1>1, <1>3, <1>4, LeavingKeepsAgreement DEF CL_Disconnect
<1>5. CASE /\ toServer' = toServer
           /\ UNCHANGED <<clsState, clcChallenge>>
  BY <1>1, <1>3, <1>5, ClientQueueShrinks
<1>6. CASE /\ clsState = "connecting" /\ clsState' = "challenging"
           /\ toServer' = toServer
  <2>1. /\ MessagesOfConnect' /\ MessagesOfSlot' /\ ~garbled'
    BY <1>1, <1>3, <1>6
       DEF Agreement, MessagesOfConnect, MessagesOfSlot, IsMessage
  <2>2. ConnectsOfAttempt'
    BY <1>6 DEF Agreement, ConnectsOfAttempt
  <2>3. ResponsesOfAttempt'
    BY <1>2, <1>6 DEF Agreement, ResponsesOfAttempt
  <2>4. ClientInItsSlot'
    BY <1>6 DEF ClientInItsSlot, InConnection
  <2> QED BY <2>1, <2>2, <2>3, <2>4 DEF Agreement
<1>7. CASE /\ p.type = "connectResponse" /\ toServer' = toServer
           /\ clsState = "challenging" /\ clsState' = "connected"
           /\ clcChallenge' = clcChallenge
  <2>1. /\ MessagesOfConnect' /\ MessagesOfSlot' /\ ~garbled'
    BY <1>1, <1>3, <1>7
       DEF Agreement, MessagesOfConnect, MessagesOfSlot, IsMessage
  <2>2. ConnectsOfAttempt'
    BY <1>7 DEF Agreement, ConnectsOfAttempt
  <2>3. ResponsesOfAttempt'
    BY <1>7 DEF ResponsesOfAttempt
  <2>4. SlotIsOurs'
    BY <1>1, <1>2, <1>7 DEF Agreement, ResponsesOfAttempt, SlotIsOurs
  <2>5. ASSUME NEW j \in DOMAIN toClient', IsMessage(toClient'[j])
        PROVE  toClient'[j].challenge = clcChallenge'
    <3>1. 1 < j + 1 /\ j + 1 \in DOMAIN toClient
      BY <1>2
    <3> QED BY <1>2, <1>7, <2>5, <3>1 DEF Agreement, ResponsesOfAttempt
  <2> QED BY <2>1, <2>2, <2>3, <2>4, <2>5
          DEF Agreement, ClientInItsSlot, IsMessage
<1>8. CASE /\ InConnection /\ clsState' = "primed" /\ toServer' = toServer
           /\ clcChallenge' = clcChallenge
  <2>1. /\ MessagesOfConnect' /\ MessagesOfSlot' /\ ~garbled'
    BY <1>1, <1>3, <1>8
       DEF Agreement, MessagesOfConnect, MessagesOfSlot, IsMessage
  <2>2. ConnectsOfAttempt'
    BY <1>8 DEF Agreement, ConnectsOfAttempt, InConnection
  <2>3. ResponsesOfAttempt'
    BY <1>8 DEF ResponsesOfAttempt
  <2>4. ClientInItsSlot'
    BY <1>1, <1>2, <1>8
       DEF Agreement, ClientInItsSlot, SlotIsOurs, IsMessage
  <2> QED BY <2>1, <2>2, <2>3, <2>4 DEF Agreement
<1> QED
  BY <1>1, <1>4, <1>5, <1>6, <1>7, <1>8
     DEF ChallengeResponse, ConnectResponse, DisconnectPacket, PrintedPacket,
         ServerMessage, Ignored

(* The steps of the client keep the agreement, unless the user connects    *)
(* again too soon.                                                         *)
LEMMA ClientKeepsAgreement ==
  ASSUME TypeOK, Agreement, ClientStep, ~overlapped'
  PROVE  Agreement'
<1>1. CASE CL_Connect_f
  <2>1. Settled
    BY <1>1 DEF CL_Connect_f
  <2> QED BY <1>1, <2>1, LeavingKeepsAgreement DEF CL_Connect_f, serverVars
<1>2. CASE CL_Disconnect_f \/ CL_CheckTimeout
  BY <1>2, LeavingKeepsAgreement
     DEF CL_Disconnect_f, CL_CheckTimeout, CL_Disconnect, serverVars, history
<1>3. CASE ClientCrashes
  BY <1>3, LeavingKeepsAgreement DEF ClientCrashes, serverVars, net
<1>4. CASE CL_CheckForResend \/ CL_WritePacket
  <2>1. UNCHANGED <<clientVars, serverVars, toClient, history>>
    BY <1>4 DEF CL_CheckForResend, CL_WritePacket
  <2>2. PICK p \in PacketsToServer :
          /\ toServer' = Append(toServer, p)
          /\ p.type = "connect" => clsState = "challenging"
                                     /\ p.challenge = clcChallenge
          /\ IsMessage(p) => InConnection /\ p.challenge = clcChallenge
    BY <1>4, ClientSends
       DEF CL_CheckForResend, CL_WritePacket, Trying, IsMessage, Message
  <2>3. Written(toServer', toServer, 1, p)
    BY <2>2, WrittenOne DEF TypeOK
  <2>4. slot' = slot /\ clsState' = clsState /\ clcChallenge' = clcChallenge
        /\ garbled' = garbled /\ toClient' = toClient
    BY <2>1 DEF clientVars, serverVars, history
  <2>5. /\ \A i \in DOMAIN toServer' : toServer'[i].type = "connect" =>
               /\ clsState # "connecting"
               /\ clsState # "disconnected"
                    => toServer'[i].challenge = clcChallenge
        /\ MessagesOfConnect' /\ MessagesOfSlot'
    BY <2>2, <2>3, <2>4, WritingKeepsAgreement
  <2>6. ConnectsOfAttempt'
    BY <2>4, <2>5 DEF ConnectsOfAttempt
  <2>7. ResponsesOfAttempt' /\ ClientInItsSlot' /\ ~garbled'
    BY <2>4 DEF Agreement, ResponsesOfAttempt, ClientInItsSlot, SlotIsOurs,
                InConnection, IsMessage
  <2> QED BY <2>5, <2>6, <2>7 DEF Agreement
<1>5. CASE CL_PacketEvent
  BY <1>5, ReadingKeepsAgreement
<1>6. CASE ClientTimePasses
  BY <1>6 DEF ClientTimePasses, serverVars, net, history, Agreement,
              ConnectsOfAttempt, ResponsesOfAttempt, ClientInItsSlot,
              MessagesOfConnect, MessagesOfSlot, SlotIsOurs, InConnection,
              IsMessage
<1> QED BY <1>1, <1>2, <1>3, <1>4, <1>5, <1>6 DEF ClientStep

(* The network loses the first packet of a queue.                          *)
LEMMA LosingKeeps ==
  ASSUME TypeOK, Lose
  PROVE  /\ TypeOK'
         /\ Agreement => Agreement'
<1>1. UNCHANGED <<clientVars, serverVars, history>>
  BY DEF Lose
<1>2. /\ Numbers' = Numbers /\ PacketsToServer' = PacketsToServer
      /\ PacketsToClient' = PacketsToClient
  BY <1>1, SameNumbers DEF serverVars
<1>3. CASE toServer # <<>> /\ toServer' = Tail(toServer) /\ toClient' = toClient
  <2>1. toServer' \in Seq(PacketsToServer)
    BY <1>3, HeadTailProperties DEF TypeOK
  <2>2. TypeOK'
    BY <1>1, <1>2, <1>3, <2>1 DEF TypeOK, clientVars, serverVars, history
  <2>4. Agreement => Agreement'
    <3>1. slot.state \in {"free", "connected", "zombie"}
      BY DEF TypeOK
    <3>2. QuietStep
      BY <1>1, <1>3, <3>1
         DEF QuietStep, QuietSlot, clientVars, serverVars, history
    <3> QED BY <3>2, QuietStepKeepsAgreement
  <2> QED BY <2>2, <2>4
<1>4. CASE toClient # <<>> /\ toClient' = Tail(toClient) /\ toServer' = toServer
  <2>1. toClient' \in Seq(PacketsToClient)
    BY <1>4, HeadTailProperties DEF TypeOK
  <2>2. TypeOK'
    BY <1>1, <1>2, <1>4, <2>1 DEF TypeOK, clientVars, serverVars, history
  <2>4. Agreement => Agreement'
    BY <1>1, <1>4, ClientQueueShrinks DEF clientVars, serverVars, history
  <2> QED BY <2>2, <2>4
<1> QED BY <1>3, <1>4 DEF Lose

(* A packet that comes once more: every packet in the queue was in it, and *)
(* if it overtakes no message, then what is in front of a message was.     *)
LEMMA RepeatedPacket ==
  ASSUME NEW S, NEW s \in Seq(S), NEW i \in DOMAIN s,
         NEW j \in 1 .. Len(s) + 1, NEW t, t = Repeat(s, i, j),
         ~IsMessage(s[i]), ~Overtakes(s, i, j)
  PROVE  /\ \A m \in DOMAIN t : \E k \in DOMAIN s : t[m] = s[k]
         /\ \A m, n \in DOMAIN t :
              m < n /\ ~IsMessage(t[m]) /\ IsMessage(t[n])
                => \E k, l \in DOMAIN s :
                     k < l /\ t[m] = s[k] /\ t[n] = s[l]
<1>1. /\ Len(s) \in Nat /\ DOMAIN s = 1 .. Len(s) /\ i \in Nat /\ j \in Nat
      /\ DOMAIN t = 1 .. Len(s) + 1
      /\ \A m \in DOMAIN t :
           \/ m < j /\ t[m] = s[m]
           \/ m = j /\ t[m] = s[i]
           \/ m > j /\ t[m] = s[m - 1]
  BY RepeatIs
<1>2. \A k \in j .. i : ~IsMessage(s[k])
  BY DEF Overtakes, IsMessage
<1>3. \A m \in DOMAIN t : \E k \in DOMAIN s : t[m] = s[k]
  <2>1. ASSUME NEW m \in DOMAIN t PROVE \E k \in DOMAIN s : t[m] = s[k]
    <3>1. CASE m < j /\ t[m] = s[m]
      <4>1. m \in DOMAIN s
        BY <1>1, <3>1
      <4> QED BY <3>1, <4>1
    <3>2. CASE m = j /\ t[m] = s[i]
      BY <3>2
    <3>3. CASE m > j /\ t[m] = s[m - 1]
      <4>1. m - 1 \in DOMAIN s
        BY <1>1, <3>3
      <4> QED BY <3>3, <4>1
    <3> QED BY <1>1, <3>1, <3>2, <3>3
  <2> QED BY <2>1
<1>4. ASSUME NEW m \in DOMAIN t, NEW n \in DOMAIN t, m < n,
             ~IsMessage(t[m]), IsMessage(t[n])
      PROVE  \E k, l \in DOMAIN s : k < l /\ t[m] = s[k] /\ t[n] = s[l]
  <2>1. n # j
    BY <1>1, <1>4
  <2>2. CASE n < j
    <3>1. t[m] = s[m] /\ t[n] = s[n] /\ m \in DOMAIN s /\ n \in DOMAIN s
      BY <1>1, <1>4, <2>2
    <3> QED BY <1>4, <3>1
  <2>3. CASE n > j
    <3>1. t[n] = s[n - 1] /\ n - 1 \in DOMAIN s
      BY <1>1, <1>4, <2>3
    <3>2. CASE m < j
      <4>1. t[m] = s[m] /\ m \in DOMAIN s /\ m < n - 1
        BY <1>1, <1>4, <2>3, <3>2
      <4> QED BY <3>1, <4>1
    <3>3. CASE m = j
      <4>1. t[m] = s[i] /\ IsMessage(s[n - 1]) /\ n - 1 >= j
        BY <1>1, <1>4, <2>3, <3>1, <3>3
      <4>2. ~(n - 1 <= i)
        <5>1. n - 1 \notin j .. i
          BY <1>2, <4>1
        <5> QED BY <1>1, <4>1, <5>1
      <4>3. i < n - 1
        BY <1>1, <4>2
      <4> QED BY <3>1, <4>1, <4>3
    <3>4. CASE m > j
      <4>1. t[m] = s[m - 1] /\ m - 1 \in DOMAIN s /\ m - 1 < n - 1
        BY <1>1, <1>4, <3>4
      <4> QED BY <3>1, <4>1
    <3> QED BY <1>1, <3>2, <3>3, <3>4
  <2> QED BY <1>1, <2>1, <2>2, <2>3
<1> QED BY <1>3, <1>4

(* The network repeats a connectionless packet.                            *)
LEMMA RepeatingKeeps ==
  ASSUME TypeOK, RepeatPacket
  PROVE  /\ TypeOK'
         /\ Agreement /\ ~overlapped' => Agreement'
<1>1. UNCHANGED <<clientVars, serverVars, attempts, told, garbled>>
  BY DEF RepeatPacket
<1>2. /\ Numbers' = Numbers /\ PacketsToServer' = PacketsToServer
      /\ PacketsToClient' = PacketsToClient
  BY <1>1, SameNumbers DEF serverVars
<1>3. disturbances' \in 0 .. MaxDisturbances
  BY BoundsAssumption DEF RepeatPacket, Disturb, TypeOK
<1>4. CASE RepeatIn(toServer, toServer') /\ toClient' = toClient
  <2>1. PICK i \in DOMAIN toServer, j \in 1 .. Len(toServer) + 1 :
          /\ ~IsMessage(toServer[i]) /\ toServer' = Repeat(toServer, i, j)
          /\ overlapped' = (overlapped \/ Overtakes(toServer, i, j))
    BY <1>4 DEF RepeatIn, IsMessage
  <2>2. toServer' \in Seq(PacketsToServer)
    BY <2>1, RepeatIs DEF TypeOK
  <2>3. overlapped' \in BOOLEAN
    BY <2>1, Zenon DEF TypeOK
  <2>4. TypeOK'
    BY <1>1, <1>2, <1>3, <1>4, <2>2, <2>3 DEF TypeOK, clientVars, serverVars
  <2>5. ASSUME Agreement, ~overlapped' PROVE Agreement'
    <3>1. /\ \A m \in DOMAIN toServer' :
               \E k \in DOMAIN toServer : toServer'[m] = toServer[k]
          /\ \A m, n \in DOMAIN toServer' :
               m < n /\ ~IsMessage(toServer'[m]) /\ IsMessage(toServer'[n])
                 => \E k, l \in DOMAIN toServer :
                      k < l /\ toServer'[m] = toServer[k]
                            /\ toServer'[n] = toServer[l]
      <4>1. /\ toServer \in Seq(PacketsToServer)
            /\ ~IsMessage(toServer[i]) /\ ~Overtakes(toServer, i, j)
        BY <2>1, <2>5 DEF TypeOK
      <4>2. PICK t : t = toServer'
        OBVIOUS
      <4>3. t = Repeat(toServer, i, j)
        BY <2>1, <4>2
      <4>4. /\ \A m \in DOMAIN t : \E k \in DOMAIN toServer : t[m] = toServer[k]
            /\ \A m, n \in DOMAIN t :
                 m < n /\ ~IsMessage(t[m]) /\ IsMessage(t[n])
                   => \E k, l \in DOMAIN toServer :
                        k < l /\ t[m] = toServer[k] /\ t[n] = toServer[l]
        BY <4>1, <4>3, RepeatedPacket
      <4> QED BY <4>2, <4>4
    <3>2. ConnectsOfAttempt' /\ MessagesOfSlot'
      BY <1>1, <2>5, <3>1 DEF Agreement, ConnectsOfAttempt, MessagesOfSlot,
                              IsMessage, clientVars, serverVars
    <3>3. MessagesOfConnect'
      BY <2>5, <3>1 DEF Agreement, MessagesOfConnect, IsMessage
    <3>4. ResponsesOfAttempt' /\ ClientInItsSlot' /\ ~garbled'
      BY <1>1, <1>4, <2>5
         DEF Agreement, ResponsesOfAttempt, ClientInItsSlot, SlotIsOurs,
             InConnection, IsMessage, clientVars, serverVars
    <3> QED BY <3>2, <3>3, <3>4 DEF Agreement
  <2> QED BY <2>4, <2>5
<1>5. CASE RepeatIn(toClient, toClient') /\ toServer' = toServer
  <2>1. PICK i \in DOMAIN toClient, j \in 1 .. Len(toClient) + 1 :
          /\ ~IsMessage(toClient[i]) /\ toClient' = Repeat(toClient, i, j)
          /\ overlapped' = (overlapped \/ Overtakes(toClient, i, j))
    BY <1>5 DEF RepeatIn, IsMessage
  <2>2. toClient' \in Seq(PacketsToClient)
    BY <2>1, RepeatIs DEF TypeOK
  <2>3. overlapped' \in BOOLEAN
    BY <2>1, Zenon DEF TypeOK
  <2>4. TypeOK'
    BY <1>1, <1>2, <1>3, <1>5, <2>2, <2>3 DEF TypeOK, clientVars, serverVars
  <2>5. ASSUME Agreement, ~overlapped' PROVE Agreement'
    <3>1. /\ \A m \in DOMAIN toClient' :
               \E k \in DOMAIN toClient : toClient'[m] = toClient[k]
          /\ \A m, n \in DOMAIN toClient' :
               m < n /\ ~IsMessage(toClient'[m]) /\ IsMessage(toClient'[n])
                 => \E k, l \in DOMAIN toClient :
                      k < l /\ toClient'[m] = toClient[k]
                            /\ toClient'[n] = toClient[l]
      <4>1. /\ toClient \in Seq(PacketsToClient)
            /\ ~IsMessage(toClient[i]) /\ ~Overtakes(toClient, i, j)
        BY <2>1, <2>5 DEF TypeOK
      <4>2. PICK t : t = toClient'
        OBVIOUS
      <4>3. t = Repeat(toClient, i, j)
        BY <2>1, <4>2
      <4>4. /\ \A m \in DOMAIN t : \E k \in DOMAIN toClient : t[m] = toClient[k]
            /\ \A m, n \in DOMAIN t :
                 m < n /\ ~IsMessage(t[m]) /\ IsMessage(t[n])
                   => \E k, l \in DOMAIN toClient :
                        k < l /\ t[m] = toClient[k] /\ t[n] = toClient[l]
        BY <4>1, <4>3, RepeatedPacket
      <4> QED BY <4>2, <4>4
    <3>2. ClientInItsSlot'
      BY <1>1, <2>5, <3>1
         DEF Agreement, ClientInItsSlot, SlotIsOurs, InConnection, IsMessage,
             clientVars, serverVars
    <3>3. ResponsesOfAttempt'
      BY <1>1, <2>5, <3>1
         DEF Agreement, ResponsesOfAttempt, SlotIsOurs, IsMessage,
             clientVars, serverVars
    <3>4. /\ ConnectsOfAttempt' /\ MessagesOfSlot' /\ MessagesOfConnect'
          /\ ~garbled'
      BY <1>1, <1>5, <2>5
         DEF Agreement, ConnectsOfAttempt, MessagesOfSlot, MessagesOfConnect,
             IsMessage, clientVars, serverVars
    <3> QED BY <3>2, <3>3, <3>4 DEF Agreement
  <2> QED BY <2>4, <2>5
<1> QED BY <1>4, <1>5 DEF RepeatPacket

-----------------------------------------------------------------------------
(* The theorems.                                                           *)

(* The invariant holds at first: nothing is on its way.                    *)
LEMMA InitAgrees == Init => AgreeInv
<1> SUFFICES ASSUME Init PROVE AgreeInv
  OBVIOUS
<1> USE DEF Init
<1>1. /\ toServer \in Seq(PacketsToServer) /\ toClient \in Seq(PacketsToClient)
      /\ DOMAIN toServer = {} /\ DOMAIN toClient = {}
  OBVIOUS
<1>2. TypeOK
  <2>1. /\ issued \in Nat /\ 0 \in Numbers
        /\ attempts \in 0 .. MaxAttempts /\ 0 \in 0 .. MaxAttempts
        /\ disturbances \in 0 .. MaxDisturbances
    BY BoundsAssumption DEF Numbers
  <2>2. NoRecord \in [adr : {"none", "client", "other"}, challenge : Numbers,
                     connected : BOOLEAN]
    BY <2>1 DEF NoRecord
  <2>3. slot \in [state : {"free", "connected", "zombie"},
                 challenge : Numbers, recent : BOOLEAN, heard : BOOLEAN,
                 spoke : BOOLEAN]
    BY <2>1 DEF FreeSlot
  <2>4. /\ clsState = "disconnected" /\ clcChallenge = 0
        /\ clHeard \in BOOLEAN /\ told \in BOOLEAN
        /\ overlapped \in BOOLEAN /\ garbled \in BOOLEAN
        /\ challenges = [i \in Records |-> NoRecord] /\ asked = {}
    OBVIOUS
  <2> USE ONLY <2>1, <2>2, <2>3, <2>4, <1>1
  <2> HIDE DEF Init
  <2> QED BY DEF TypeOK
<1>4. Agreement
  BY <1>1 DEF Agreement, ConnectsOfAttempt, ResponsesOfAttempt,
              ClientInItsSlot, MessagesOfConnect, MessagesOfSlot, FreeSlot,
              InConnection
<1> QED BY <1>2, <1>4 DEF AgreeInv

(* The invariant is about the state alone.                                 *)
LEMMA StutterAgrees ==
  ASSUME AgreeInv, UNCHANGED vars
  PROVE  AgreeInv'
<1>1. UNCHANGED <<clsState, clcChallenge, clHeard, challenges, issued, slot,
                  asked, toServer, toClient, attempts, disturbances, told,
                  overlapped, garbled>>
  BY DEF vars, clientVars, serverVars, net, history
<1>2. TypeOK'
  <2>1. /\ Numbers' = Numbers /\ PacketsToServer' = PacketsToServer
        /\ PacketsToClient' = PacketsToClient
    BY <1>1, SameNumbers
  <2> QED BY <1>1, <2>1 DEF AgreeInv, TypeOK
<1>4. Agreement => Agreement'
  BY <1>1 DEF Agreement, ConnectsOfAttempt, ResponsesOfAttempt,
              ClientInItsSlot, MessagesOfConnect, MessagesOfSlot, SlotIsOurs,
              InConnection, IsMessage
<1> QED BY <1>1, <1>2, <1>4 DEF AgreeInv

(* Once attempts have overlapped they have.                                *)
LEMMA OverlappedStays ==
  ASSUME Next, overlapped
  PROVE  overlapped'
BY DEF Next, ClientStep, CL_Connect_f, CL_Disconnect_f, ClientCrashes,
       CL_CheckForResend, CL_WritePacket, CL_PacketEvent, CL_CheckTimeout,
       ClientTimePasses, ServerStep, SV_PacketEvent, SV_SendClientMessages,
       SV_CheckTimeouts, ServerTimePasses, SV_Kick_f, ServerRestarts, Lose,
       RepeatPacket, RepeatIn, OtherGetsChallenge, SV_AuthorizeIpPacket,
       history

(* Every step keeps the invariant.                                         *)
LEMMA NextAgrees ==
  ASSUME AgreeInv, [Next]_vars
  PROVE  AgreeInv'
<1>1. TypeOK /\ (overlapped \/ Agreement)
  BY DEF AgreeInv
<1>2. CASE ClientStep
  <2>1. TypeOK'
    BY <1>1, <1>2, ClientStepTypes
  <2>2. overlapped => overlapped'
    BY <1>2, OverlappedStays DEF Next
  <2>3. Agreement /\ ~overlapped' => Agreement'
    BY <1>1, <1>2, ClientKeepsAgreement
  <2> QED BY <1>1, <2>1, <2>2, <2>3 DEF AgreeInv
<1>3. CASE Lose
  <2>1. overlapped => overlapped'
    BY <1>3, OverlappedStays DEF Next
  <2> QED BY <1>1, <1>3, <2>1, LosingKeeps DEF AgreeInv
<1>4. CASE RepeatPacket
  <2>1. overlapped => overlapped'
    BY <1>4, OverlappedStays DEF Next
  <2> QED BY <1>1, <1>4, <2>1, RepeatingKeeps DEF AgreeInv
<1>5. CASE \/ ServerStep \/ OtherGetsChallenge
           \/ \E n \in asked, accept \in BOOLEAN :
                SV_AuthorizeIpPacket(n, accept)
  <2>1. TypeOK' /\ (Agreement => Agreement')
    BY <1>1, <1>5, ServerStepTypes, ServerKeepsAgreement
  <2>2. overlapped => overlapped'
    BY <1>5, OverlappedStays DEF Next
  <2> QED BY <1>1, <2>1, <2>2 DEF AgreeInv
<1>6. CASE UNCHANGED vars
  BY <1>6, StutterAgrees
<1> QED BY <1>2, <1>3, <1>4, <1>5, <1>6 DEF Next

(* The inductive invariant: types, and agreement for as long as nothing    *)
(* has crossed.                                                            *)
THEOREM Invariance == Spec => []AgreeInv
<1>1. Init => AgreeInv
  BY InitAgrees
<1>2. AgreeInv /\ [Next]_vars => AgreeInv'
  BY NextAgrees
<1> QED BY <1>1, <1>2, PTL DEF Spec

(* The types of both ends, of the slot and of the packets between them.    *)
THEOREM TypeCorrect == Spec => []TypeOK
<1>1. AgreeInv => TypeOK
  BY DEF AgreeInv
<1> QED BY <1>1, Invariance, PTL

(* For any number of challenge records, of attempts, of losses and repeats *)
(* and of packets in flight: unless an attempt began before an earlier one *)
(* had settled, or a connectionless packet overtook a message, neither end *)
(* unscrambles a message with the wrong challenge.                         *)
THEOREM ConnectionsKept == Spec => []ConnectionsAgree
<1>1. AgreeInv => ConnectionsAgree
  BY DEF AgreeInv, Agreement, ConnectionsAgree
<1> QED BY <1>1, Invariance, PTL
=============================================================================
