--------------------------- MODULE MCCloudUpdates ---------------------------
(* One deployment, one hourly cron and one "Push now" on a Worker that was  *)
(* deployed with migrations.                                                *)
EXTENDS CloudUpdates, TLC

CONSTANTS d1, c1, cron1, click1

MCOwner  == d1 :> c1
MCScenes == {[fleet |-> {d1}, ladder |-> <<1, 1>>, faults |-> 1, edits |-> 1, acts |-> 0,
              pushers |-> {cron1, click1}, tokens |-> {1}]}
=============================================================================
