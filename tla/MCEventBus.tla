----------------------------- MODULE MCEventBus -----------------------------
(* Two subscribers, two kinds of event and a replay buffer of two: the       *)
(* buffer overflows, is replayed full, part full and empty.                  *)
EXTENDS EventBusSpec

MCSub == {"tab1", "tab2"}
MCEvent == {"note", "done"}
=============================================================================
