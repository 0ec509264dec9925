------------------------------- MODULE MCHub -------------------------------
(* Hub for TLC: names are sequences of symbols, so that a key built from a *)
(* name and an id can be compared with another name.                       *)
EXTENDS Hub

OneName == {<<"ws">>}
=============================================================================
