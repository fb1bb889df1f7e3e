----------------------------- MODULE FrameLoop -----------------------------
(***************************************************************************)
(* The frame of a program that is server and client in one: the event      *)
(* queue and the events pushed back into it, the loopback rings between    *)
(* the two, and errors that abandon the frame (code/qcommon/common.cpp,    *)
(* net_chan.cpp; code/linux/linux_shared.cpp).                             *)
(*                                                                         *)
(* What handlers and commands do is left open, apart from what touches     *)
(* this machinery: sending loopback packets, asking for the time, running  *)
(* the event loop inside a handler, starting and stopping the server and   *)
(* calling Com_Error.  Left out: demos, the contents of the command buffer *)
(* (any command may run where Com_Frame runs the buffer), and the change   *)
(* of "dedicated" while the program runs.                                  *)
(***************************************************************************)
EXTENDS Naturals, Sequences, FiniteSets, SequencesExt

CONSTANTS
    MAX_QUED_EVENTS,     \* slots of the system's event queue
    MAX_PUSHED_EVENTS,   \* slots of the ring of pushed events
    MAX_LOOPBACK,        \* slots of a loopback ring
    MaxEvents,           \* bound: events that arrive
    MaxPackets,          \* bound: loopback packets in a direction
    MaxErrors,           \* bound: calls of Com_Error
    MaxDepth             \* bound: event loops inside each other

ASSUME RingsAssumption ==
    {MAX_QUED_EVENTS, MAX_PUSHED_EVENTS, MAX_LOOPBACK} \subseteq Nat \ {0}

ASSUME BoundsAssumption ==
    /\ {MaxEvents, MaxPackets, MaxErrors} \subseteq Nat
    /\ MaxDepth \in Nat \ {0}

VARIABLES
    phase,          \* where Com_Frame is
    loops,          \* the event loops that run, the innermost last
    pumped,         \* CL_Frame has run an event loop in this frame
    eventQue,       \* eventQue, eventHead, eventTail
    pushed,         \* com_pushedEvents and its Head and Tail
    loopbacks,      \* the packets on their way to the client and the server
    sv_running,     \* com_sv_running
    arrived,        \* history: events that have arrived
    handled,        \* history: events handled, in order
    freed,          \* history: events whose data was freed, in order
    leaked,         \* history: events an error took from their handler
    heard,          \* history: packets the two ends have handled
    marks,          \* history: counts of packets, see Init
    errors          \* history: calls of Com_Error

eventVars == <<eventQue, pushed, arrived, freed, leaked>>
packetVars == <<loopbacks, heard>>
frameVars == <<phase, loops, pumped, sv_running, marks, errors>>
vars == <<eventVars, handled, packetVars, frameVars>>

Ring(size) == [slots |-> [i \in 0 .. size - 1 |-> 0], head |-> 0, tail |-> 0]

(* An event loop: where it is, whose code it has called, the event it      *)
(* holds, and whether that code has run an event loop of its own.          *)
Com_EventLoop == [at |-> "event", code |-> "none", event |-> 0, nested |-> FALSE]

(* marks: packets to the client when SV_Frame last ended; packets to the   *)
(* server when the frame began, and when the frame that started the server *)
(* began.                                                                  *)
Init ==
    /\ phase = "events" /\ loops = <<Com_EventLoop>> /\ pumped = FALSE
    /\ eventQue = Ring(MAX_QUED_EVENTS) /\ pushed = Ring(MAX_PUSHED_EVENTS)
    /\ loopbacks = [client |-> Ring(MAX_LOOPBACK), server |-> Ring(MAX_LOOPBACK)]
    /\ sv_running \in BOOLEAN
    /\ arrived = 0 /\ handled = <<>> /\ freed = <<>> /\ leaked = {}
    /\ heard = [client |-> <<>>, server |-> <<>>]
    /\ marks = [svFrame |-> 0, frame |-> 0, start |-> 0]
    /\ errors = 0

-----------------------------------------------------------------------------
(* The two rings of events, of which a full one loses its oldest event.    *)

IsEmpty(ring) == ring.head = ring.tail
First(ring, size) == ring.slots[ring.tail % size]
Next1(ring) == [ring EXCEPT !.tail = @ + 1]
Waiting(ring, size) ==
    [i \in 1 .. ring.head - ring.tail |-> ring.slots[(ring.tail + i - 1) % size]]

(* The slots when the events have been put into theirs, the last one over  *)
(* the others.                                                             *)
SlotsWith(ring, events, size) ==
    LET put == [i \in 0 .. size - 1 |->
                  {k \in DOMAIN events : (ring.head + k - 1) % size = i}]
    IN [i \in 0 .. size - 1 |->
          IF put[i] = {} THEN ring.slots[i] ELSE events[Max(put[i])]]

AddOverOldest(q, events, size) ==  \* mutant: the tail stays behind
    [ring |-> [slots |-> SlotsWith(q.ring, events, size),
               head |-> q.ring.head + Len(events), tail |-> q.ring.tail],
     freed |-> q.freed]

(* Lin_QueEvent and Com_PushEvent, for the events one after the other.     *)
AddEvents(q, events, size) ==
    LET all == Waiting(q.ring, size) \o events
        lost == IF Len(all) > size THEN Len(all) - size ELSE 0
    IN [ring |-> [slots |-> SlotsWith(q.ring, events, size),
                  head |-> q.ring.head + Len(events),
                  tail |-> q.ring.tail + lost],
        freed |-> q.freed \o SubSeq(all, 1, lost)]

QueEvents(ring, count) ==
    AddEvents([ring |-> ring, freed |-> freed],
              [i \in 1 .. count |-> arrived + i], MAX_QUED_EVENTS)

PushEvents(frees, events) ==
    AddEvents([ring |-> pushed, freed |-> frees], events, MAX_PUSHED_EVENTS)

-----------------------------------------------------------------------------
(* Whose code is running, and where in the frame.                          *)

Top == loops[Len(loops)]
SetTop(field, value) == [loops EXCEPT ![Len(loops)][field] = value]

InCommands == phase \in {"commands", "commands again"}

Runs(code) ==
    IF loops # <<>> THEN Top.code = code ELSE InCommands \/ phase = code

ServerRuns == sv_running /\ Runs("server")
AnythingRuns == Runs("client") \/ ServerRuns

NoSecondLoop ==                    \* mutant: straight to the client
    CASE phase = "events" -> {"events", "commands"}
      [] phase = "commands" -> {"server"}
      [] phase = "server" -> {"commands again"}
      [] phase = "events again" -> {"commands again"}
      [] phase = "commands again" -> {"client"}
      [] phase = "client" -> {"events"}

(* Com_FrameSleep runs the event loop until it is time for the frame.      *)
PhasesAfter ==
    CASE phase = "events" -> {"events", "commands"}
      [] phase = "commands" -> {"server"}
      [] phase = "server" -> {"events again"}
      [] phase = "events again" -> {"commands again"}
      [] phase = "commands again" -> {"client"}
      [] phase = "client" -> {"events"}

NewFrame == marks' = [marks EXCEPT !.frame = loopbacks'.server.head]

(* Com_Frame goes on.                                                      *)
Com_Frame ==
    /\ phase' \in PhasesAfter
    /\ pumped' = FALSE
    /\ loops' = IF phase' \in {"events", "events again"}
                  THEN <<Com_EventLoop>> ELSE <<>>

-----------------------------------------------------------------------------
(* The event loop.                                                         *)

RealFirst ==                       \* mutant: pushed ones when nothing arrives
    ~IsEmpty(pushed) /\ arrived = MaxEvents

TakesPushed == pushed.head > pushed.tail

(* An event is given to the server or the client; a line for the command   *)
(* buffer is as if given to a client that does nothing.                    *)
Handle(event) ==
    /\ \E code \in IF sv_running THEN {"client", "server"} ELSE {"client"} :
           loops' = [loops EXCEPT ![Len(loops)] =
                       [@ EXCEPT !.code = code, !.event = event]]
    /\ handled' = Append(handled, event)

Com_GetEvent ==
    /\ loops # <<>> /\ Top.at = "event" /\ Top.code = "none"
    /\ IF TakesPushed
         THEN /\ Handle(First(pushed, MAX_PUSHED_EVENTS))
              /\ pushed' = Next1(pushed)
              /\ UNCHANGED <<eventQue, arrived, freed>>
         ELSE \E count \in 0 .. IF IsEmpty(eventQue) THEN MaxEvents - arrived
                                                     ELSE 0 :
              LET polled == QueEvents(eventQue, count) IN
              /\ arrived' = arrived + count /\ freed' = polled.freed
              /\ UNCHANGED pushed
              /\ IF IsEmpty(polled.ring)
                   THEN /\ loops' = SetTop("at", "client")
                        /\ UNCHANGED <<handled, eventQue>>
                   ELSE /\ Handle(First(polled.ring, MAX_QUED_EVENTS))
                        /\ eventQue' = Next1(polled.ring)
    /\ UNCHANGED <<leaked, packetVars, phase, pumped, sv_running, marks,
                   errors>>

(* The handler of an event returns.                                        *)
EventHandled ==
    /\ loops # <<>> /\ Top.at = "event" /\ Top.code # "none"
    /\ loops' = [loops EXCEPT ![Len(loops)] = Com_EventLoop]
    /\ freed' = Append(freed, Top.event)
    /\ UNCHANGED <<eventQue, pushed, arrived, leaked, packetVars, phase,
                   pumped, sv_running, marks, errors, handled>>

OldestSent(ring) == ring.tail      \* mutant: although it was overwritten

OldestKept(ring) ==
    IF ring.head - ring.tail > MAX_LOOPBACK THEN ring.head - MAX_LOOPBACK
                                            ELSE ring.tail

HasPacket(ring) == OldestKept(ring) < ring.head

(* The next packet in the ring of that end, as its number and contents.    *)
Got(end) ==
    LET oldest == OldestKept(loopbacks[end])
    IN [sequence |-> oldest + 1,
        data |-> loopbacks[end].slots[oldest % MAX_LOOPBACK]]

NET_GetLoopPacket(end) ==
    /\ HasPacket(loopbacks[end])
    /\ loopbacks' = [loopbacks EXCEPT ![end].tail = OldestKept(loopbacks[end]) + 1]

CL_PacketEvent ==
    /\ loops # <<>> /\ Top.at = "client" /\ Top.code = "none"
    /\ NET_GetLoopPacket("client")
    /\ heard' = [heard EXCEPT !.client = Append(@, Got("client"))]
    /\ loops' = SetTop("code", "client")
    /\ UNCHANGED <<eventVars, handled, phase, pumped, sv_running, marks,
                   errors>>

OnlyWithServer == sv_running /\ HasPacket(loopbacks.server)  \* mutant: not flushed
ReadsPacket == HasPacket(loopbacks.server)

(* A packet is flushed when no server runs.                                *)
SV_PacketEvent ==
    /\ loops # <<>> /\ Top.at = "server" /\ Top.code = "none"
    /\ ReadsPacket
    /\ NET_GetLoopPacket("server")
    /\ IF sv_running
         THEN /\ heard' = [heard EXCEPT !.server = Append(@, Got("server"))]
              /\ loops' = SetTop("code", "server")
         ELSE UNCHANGED <<heard, loops>>
    /\ UNCHANGED <<eventVars, handled, phase, pumped, sv_running, marks,
                   errors>>

PacketHandled ==
    /\ loops # <<>> /\ Top.at # "event" /\ Top.code # "none"
    /\ loops' = [loops EXCEPT ![Len(loops)] = [Com_EventLoop EXCEPT !.at = Top.at]]
    /\ UNCHANGED <<eventVars, packetVars, handled, phase, pumped, sv_running,
                   marks, errors>>

ToClientDone ==
    /\ loops # <<>> /\ Top.at = "client" /\ Top.code = "none"
    /\ ~HasPacket(loopbacks.client)
    /\ loops' = SetTop("at", "server")
    /\ UNCHANGED <<eventVars, packetVars, handled, phase, pumped, sv_running,
                   marks, errors>>

(* The innermost event loop returns, to a handler or to Com_Frame.         *)
EventLoopReturns ==
    /\ loops # <<>> /\ Top.at = "server" /\ Top.code = "none"
    /\ ~ReadsPacket
    /\ IF Len(loops) > 1 \/ phase = "client"
         THEN loops' = Front(loops) /\ UNCHANGED <<phase, pumped>>
         ELSE Com_Frame
    /\ UNCHANGED <<eventVars, packetVars, handled, sv_running, marks, errors>>

-----------------------------------------------------------------------------
(* Commands.                                                               *)

Cbuf_ExecuteReturns ==
    /\ InCommands
    /\ Com_Frame
    /\ UNCHANGED <<eventVars, packetVars, handled, sv_running, marks, errors>>

SV_Startup ==
    /\ InCommands /\ ~sv_running
    /\ sv_running' = TRUE
    /\ marks' = [marks EXCEPT !.start = marks.frame]
    /\ UNCHANGED <<eventVars, packetVars, handled, phase, loops, pumped,
                   errors>>

(* By a command, one received by rcon, or SV_Frame.                        *)
SV_Shutdown ==
    /\ ServerRuns
    /\ sv_running' = FALSE
    /\ UNCHANGED <<eventVars, packetVars, handled, phase, loops, pumped, marks,
                   errors>>

-----------------------------------------------------------------------------
(* What any handler may do.                                                *)

(* NET_SendLoopPacket.                                                     *)
LoopSend(ring, packet) ==
    [slots |-> [ring.slots EXCEPT ![ring.head % MAX_LOOPBACK] = packet],
     head |-> ring.head + 1, tail |-> ring.tail]

SendTo(end) ==
    /\ loopbacks[end].head < MaxPackets
    /\ loopbacks' = [loopbacks EXCEPT ![end] = LoopSend(@, @.head + 1)]
    /\ UNCHANGED heard

NET_SendPacket ==
    /\ \/ Runs("client") /\ SendTo("server")
       \/ ServerRuns /\ SendTo("client")
    /\ UNCHANGED <<eventVars, frameVars, handled>>

(* All events up to the time are read and pushed back.                     *)
Com_Milliseconds ==
    /\ AnythingRuns
    /\ \E count \in 0 .. MaxEvents - arrived :
       LET polled == QueEvents([eventQue EXCEPT !.tail = eventQue.head], count)
           events == Waiting(eventQue, MAX_QUED_EVENTS)
                       \o Waiting(polled.ring, MAX_QUED_EVENTS)
       IN /\ events # <<>>
          /\ arrived' = arrived + count
          /\ eventQue' = [polled.ring EXCEPT !.tail = polled.ring.head]
          /\ freed' = PushEvents(polled.freed, events).freed
          /\ pushed' = PushEvents(polled.freed, events).ring
    /\ UNCHANGED <<leaked, packetVars, frameVars, handled>>

(* CL_DownloadsComplete, called for a packet and by CL_Frame.              *)
PumpEvents ==
    /\ Runs("client") /\ ~InCommands /\ Len(loops) < MaxDepth
    /\ IF loops = <<>>
         THEN ~pumped /\ pumped' = TRUE /\ loops' = <<Com_EventLoop>>
         ELSE /\ ~Top.nested /\ UNCHANGED pumped
              /\ loops' = Append(SetTop("nested", TRUE), Com_EventLoop)
    /\ UNCHANGED <<eventVars, packetVars, handled, phase, sv_running, marks,
                   errors>>

(* Com_Error( ERR_DROP ): the server shuts down, the client disconnects,   *)
(* telling a server that may be this one (in three packets, here in one),  *)
(* and the frame is abandoned.  ERR_SERVERDISCONNECT, of a client that was *)
(* dropped, leaves a server running that may be this one.                  *)
Com_Error ==
    /\ AnythingRuns
    /\ errors < MaxErrors /\ errors' = errors + 1
    /\ \/ sv_running' = FALSE
       \/ Runs("client") /\ UNCHANGED sv_running
    /\ SendTo("server") \/ UNCHANGED packetVars
    /\ phase' = "events" /\ loops' = <<Com_EventLoop>> /\ pumped' = FALSE
    /\ leaked' = leaked \union ({loops[i].event : i \in DOMAIN loops} \ {0})
    /\ NewFrame
    /\ UNCHANGED <<eventQue, pushed, arrived, freed, handled>>

-----------------------------------------------------------------------------
SV_FrameReturns ==
    /\ phase = "server"
    /\ marks' = [marks EXCEPT !.svFrame = loopbacks.client.head]
    /\ Com_Frame
    /\ UNCHANGED <<eventVars, packetVars, handled, sv_running, errors>>

CL_FrameReturns ==
    /\ phase = "client" /\ loops = <<>>
    /\ Com_Frame
    /\ UNCHANGED <<eventVars, packetVars, handled, sv_running, errors>>
    /\ NewFrame

Next ==
    \/ Com_GetEvent \/ EventHandled
    \/ CL_PacketEvent \/ SV_PacketEvent \/ PacketHandled
    \/ ToClientDone \/ EventLoopReturns
    \/ Cbuf_ExecuteReturns \/ SV_FrameReturns \/ CL_FrameReturns
    \/ SV_Startup \/ SV_Shutdown
    \/ NET_SendPacket \/ Com_Milliseconds \/ PumpEvents \/ Com_Error

Spec == Init /\ [][Next]_vars

-----------------------------------------------------------------------------
TypeOK ==
    /\ phase \in {"events", "commands", "server", "events again",
                  "commands again", "client"}
    /\ Len(loops) <= MaxDepth
    /\ \A i \in DOMAIN loops :
         /\ loops[i].at \in {"event", "client", "server"}
         /\ loops[i].code \in {"none", "client", "server"}
         /\ loops[i].event \in 0 .. arrived
    /\ \A ring \in {eventQue, pushed} : ring.tail <= ring.head
    /\ \A end \in {"client", "server"} :
         loopbacks[end].tail <= loopbacks[end].head

(* Events are handled in the order in which they arrived, although every   *)
(* call of Com_Milliseconds reads ahead and an event loop may run inside   *)
(* the handler of an earlier event (Com_GetEvent, Com_PushEvent).          *)
EventsInOrder ==
    \A i, j \in DOMAIN handled : i < j => handled[i] < handled[j]

(* The data of an event is in one place: in one of the two rings, with the *)
(* handler, freed once, or lost to an error in the handler; no ring that   *)
(* is full leaks it or frees it twice (Lin_QueEvent, "we are discarding an *)
(* event, but don't leak memory", and Com_PushEvent).                      *)
DataFreedOnce ==
    LET places == freed \o Waiting(eventQue, MAX_QUED_EVENTS)
                        \o Waiting(pushed, MAX_PUSHED_EVENTS)
                        \o [i \in DOMAIN loops |-> loops[i].event]
    IN \A e \in 1 .. arrived :
         Cardinality({k \in DOMAIN places : places[k] = e})
           = IF e \in leaked THEN 0 ELSE 1

(* When the client's part of the frame begins, nothing the server sent in  *)
(* its part is still on its way: the event loop runs "a second time to get *)
(* server to client packets without a frame of latency" (Com_Frame).       *)
SentThisFrameHeard ==
    phase = "client" => OldestKept(loopbacks.client) >= marks.svFrame

(* A server that starts does not hear what the client sent to an earlier   *)
(* one before the frame it started in: "if the server just shut down,      *)
(* flush the events" (Com_EventLoop).                                      *)
NewServerHearsNoOld ==
    [][heard'.server # heard.server =>
         Last(heard'.server).sequence > marks.start]_vars

(* A loopback ring is a message channel: a packet that is overwritten is   *)
(* lost, one that is read is whole, new, and later than all before it      *)
(* (NET_SendLoopPacket, NET_GetLoopPacket).                                *)
ToClient == INSTANCE MessageChannel WITH
    Messages <- 1 .. MaxPackets,
    sent <- [i \in 1 .. loopbacks.client.head |-> i],
    delivered <- heard.client
ToServer == INSTANCE MessageChannel WITH
    Messages <- 1 .. MaxPackets,
    sent <- [i \in 1 .. loopbacks.server.head |-> i],
    delivered <- heard.server
LoopbackIsChannel == ToClient!Spec /\ ToServer!Spec
=============================================================================
