----------------------------- MODULE MCCliAuth -----------------------------
(* Two logins, two users who approve, and two tokens: a second approval of *)
(* one login and an approval of the other can all happen in one behaviour.   *)
EXTENDS CliAuth

MCFlow == {"laptop", "server"}
MCEmail == {"ann", "bob"}
MCToken == {"t1", "t2"}
=============================================================================
