---------------------------- MODULE MCStreamHub -----------------------------
(* One tab, two turns on the same hub (a second POST /init), one interrupt   *)
(* and one DELETE, in every order.                                           *)
EXTENDS StreamHub

MCSub == {"tab"}
MCTurn == {"first", "second"}
MCIntr == {"cancel"}
MCDel == {"delete"}
=============================================================================
