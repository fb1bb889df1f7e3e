--------------------------- MODULE MessageChannel ---------------------------
(***************************************************************************)
(* What a netchan (code/qcommon/net_chan.cpp) promises to the layer above  *)
(* it: messages are numbered in the order they are handed over; a message  *)
(* that arrives arrives whole, at most once, and never after a later one.  *)
(* Nothing promises that it arrives.                                       *)
(***************************************************************************)
EXTENDS Naturals, Sequences

CONSTANT Messages    \* what the layer above can send

VARIABLES
    sent,            \* the messages handed over, in order
    delivered        \* the numbered messages handed up at the other end

vars == <<sent, delivered>>

Init == sent = <<>> /\ delivered = <<>>

Send(m) == sent' = Append(sent, m) /\ UNCHANGED delivered

Deliver(s) ==
    /\ \A i \in DOMAIN delivered : delivered[i].sequence < s
    /\ delivered' = Append(delivered, [sequence |-> s, data |-> sent[s]])
    /\ UNCHANGED sent

Next == \/ \E m \in Messages : Send(m)
        \/ \E s \in DOMAIN sent : Deliver(s)

Spec == Init /\ [][Next]_vars
=============================================================================
