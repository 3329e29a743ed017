------------------------------- MODULE MCLog -------------------------------
(* A ring of eight characters under counters of 32 values, which wrap, and   *)
(* messages with and without a level, a line end in the middle, no line end, *)
(* and what only looks like a level.                                         *)
EXTENDS Log

MCMessage == { <<"a", "nl">>, <<"a">>, <<"<", "7", ">", "a", "nl">>,
               <<"nl", "a", "nl">>, <<"<", "9", ">", "nl">>, <<"a", "<", "0", "nl">>,
               <<"nl", "<">> }
=============================================================================
