---------------------------- MODULE MCSvNetChan ----------------------------
(* SvNetChan with one message that fits a packet and two that take two and *)
(* four of them: a message can be stacked on the four in the middle.       *)
EXTENDS SvNetChan

MCByte == {"a", "b", "c"}
MCMessages == {<<"a">>, <<"b", "b">>, <<"c", "c", "c", "c", "c", "c", "c">>}
=============================================================================
