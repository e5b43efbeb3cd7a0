---------------------------- MODULE AgentWorker ----------------------------
(***************************************************************************)
(* Six parts of the agent's Worker that share its isolates and no state:   *)
(* the stream of a turn, the turns of the conductor, the rail's index, the *)
(* spending cap, the agent's own source and the notices to its owner; and  *)
(* the bridge on the owner's machine that its streams may go to.  A step   *)
(* is a step of one of them, so a behaviour of one, taken by itself, is a  *)
(* behaviour of the whole; "part" says of which.                           *)
(***************************************************************************)
EXTENDS FrameStream, Conductor, ChatIndex, Spending, Artifacts, CodexBridge, Notices

CONSTANT Part   \* the parts to look at

VARIABLE part

vars == <<stream, turns, index, spend, fork, bridge, notice, part>>

TypeOK ==
    /\ part \in Part
    /\ StreamTypeOK /\ ConductorTypeOK /\ IndexTypeOK /\ SpendTypeOK /\ ForkTypeOK
    /\ BridgeTypeOK /\ NoticeTypeOK

Init ==
    /\ part \in Part
    /\ StreamInit /\ ConductorInit /\ IndexInit /\ SpendInit /\ ForkInit
    /\ BridgeInit /\ NoticeInit

Next ==
    \/ /\ part = "stream" /\ StreamNext
       /\ UNCHANGED <<turns, index, spend, fork, bridge, notice, part>>
    \/ /\ part = "turns" /\ ConductorNext
       /\ UNCHANGED <<stream, index, spend, fork, bridge, notice, part>>
    \/ /\ part = "index" /\ IndexNext
       /\ UNCHANGED <<stream, turns, spend, fork, bridge, notice, part>>
    \/ /\ part = "spend" /\ SpendNext
       /\ UNCHANGED <<stream, turns, index, fork, bridge, notice, part>>
    \/ /\ part = "fork" /\ ForkNext
       /\ UNCHANGED <<stream, turns, index, spend, bridge, notice, part>>
    \/ /\ part = "bridge" /\ BridgeNext
       /\ UNCHANGED <<stream, turns, index, spend, fork, notice, part>>
    \/ /\ part = "notices" /\ NoticeNext
       /\ UNCHANGED <<stream, turns, index, spend, fork, bridge, part>>

StreamAlone == UNCHANGED <<turns, index, spend, fork, bridge, notice, part>>

(* The caller of a stream goes on with its loop, and timers fire.           *)
Fairness == WF_vars((Pulls \/ Leaves) /\ StreamAlone) /\ WF_vars(TimesOut /\ StreamAlone)

Spec == Init /\ [][Next]_vars /\ Fairness
=============================================================================
