----------------------------- MODULE MCNetChan -----------------------------
(* NetChan with fragments of two bytes and messages of every length that   *)
(* matters around them: none, short, one and two full fragments, and a     *)
(* remainder; two messages of the same length have different bytes.        *)
EXTENDS NetChan

MCByte == {"a", "b"}
MCMessages == {<<>>, <<"a">>, <<"a", "b">>, <<"b", "b", "a">>,
               <<"b", "a", "b">>, <<"a", "a", "b", "a">>}
=============================================================================
