----------------------------- MODULE MC_Gateway -----------------------------
(* Gateway for TLC: what the clients of the instance send.                 *)
EXTENDS Gateway

(* NEW 1 1 0 12 3; a line that is no command; QUOTE 2, which is not        *)
(* registered; and PING without the end of its line.                       *)
Trader ==
    << Word("NEW"), Number(<< 1 >>), Number(<< 1 >>), Number(<< 0 >>), Number(<< 1, 2 >>), Number(<< 3 >>), NL,
       Word("junk"), NL, Word("QUOTE"), Number(<< 2 >>), NL, Word("PING") >>

(* MODIFY 1 2 70 -12, where 70 is too large; an empty line; CANCEL -1 2,   *)
(* which has no sign; and PING.                                            *)
Modifier ==
    << Word("MODIFY"), Number(<< 1 >>), Number(<< 2 >>), Number(<< 7, 0 >>), Negative(<< 1, 2 >>), NL,
       NL, Word("CANCEL"), Negative(<< 1 >>), Number(<< 2 >>), NL, Word("PING"), NL >>

(* QUOTE 1 and CANCEL 1 13.                                                *)
Second ==
    << Word("QUOTE"), Number(<< 1 >>), NL, Word("CANCEL"), Number(<< 1 >>), Number(<< 1, 3 >>), NL >>

MCStreams == << {Trader, Modifier}, {Second} >>
=============================================================================
