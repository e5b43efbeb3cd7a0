------------------------------ MODULE Spending ------------------------------
(***************************************************************************)
(* src/costTracking.ts and the provider plugins that call it: the cap on   *)
(* what the model calls of a day may cost.                                 *)
(*                                                                         *)
(* A plugin reads the costs of today, awaits its provider, and then adds   *)
(* what the call has cost; nothing holds a place under the cap meanwhile.  *)
(* The rows of a day are keyed by provider but only ever summed by the     *)
(* cap, so one number stands for them.                                     *)
(***************************************************************************)
EXTENDS Naturals, FiniteSets

CONSTANTS Caller,     \* skill calls that run at one time
          Cap,        \* DAILY_SPEND_CAP_USD
          MaxPrice,   \* the dearest call
          MaxDay      \* bound: days that pass

ASSUME SpendingAssumption ==
    /\ IsFiniteSet(Caller)
    /\ Cap \in Nat \ {0}
    /\ MaxPrice \in Nat
    /\ MaxDay \in Nat

Day == 0 .. MaxDay

VARIABLES
    today,     \* the UTC day
    cost,      \* cost_daily: cost[d], the sum of the rows of day d
    call,      \* call[c]: what a skill call is at, and the day it records on
    rollup,    \* the days whose logs a rollup has fetched and is to write
    rolled     \* (history) days the rollup has rewritten

spend == <<today, cost, call, rollup, rolled>>

Idle == [at |-> "idle", on |-> 0, price |-> 0]

SpendTypeOK ==
    /\ today \in Day
    /\ cost \in [Day -> Nat]
    /\ call \in [Caller -> [at : {"idle", "calling", "recording"}, on : Day,
                            price : 0 .. MaxPrice]]
    /\ rollup \subseteq Day
    /\ rolled \subseteq Day

SpendInit ==
    /\ today = 0
    /\ cost = [d \in Day |-> 0]
    /\ call = [c \in Caller |-> Idle]
    /\ rollup = {}
    /\ rolled = {}
-----------------------------------------------------------------------------
\* Mutation: a day that has just reached the cap is still open.
AllowedAtCap == cost[today] <= Cap

(* enforceSpendingCap, on the costs of today.                               *)
Allowed == cost[today] < Cap

(* A chat action: a call that is refused ends there.                        *)
Asks(c) ==
    /\ call[c].at = "idle"
    /\ Allowed
    /\ call' = [call EXCEPT ![c] = [Idle EXCEPT !.at = "calling"]]
    /\ UNCHANGED <<today, cost, rollup, rolled>>

(* The provider fails, or its answer has no usage: nothing is recorded.     *)
Fails(c) ==
    /\ call[c].at = "calling"
    /\ call' = [call EXCEPT ![c] = Idle]
    /\ UNCHANGED <<today, cost, rollup, rolled>>

(* It answers, and recordSpend takes the day before it writes.              *)
Answers(c) ==
    /\ call[c].at = "calling"
    /\ \E price \in 0 .. MaxPrice :
         call' = [call EXCEPT ![c] = [at |-> "recording", on |-> today, price |-> price]]
    /\ UNCHANGED <<today, cost, rollup, rolled>>

(* The upsert adds to the row of that day.                                  *)
Records(c) ==
    /\ call[c].at = "recording"
    /\ cost' = [cost EXCEPT ![call[c].on] = @ + call[c].price]
    /\ call' = [call EXCEPT ![c] = Idle]
    /\ UNCHANGED <<today, rollup, rolled>>

(* It fails, which the plugins swallow.                                     *)
RecordFails(c) ==
    /\ call[c].at = "recording"
    /\ call' = [call EXCEPT ![c] = Idle]
    /\ UNCHANGED <<today, cost, rollup, rolled>>

Midnight ==
    /\ today < MaxDay
    /\ today' = today + 1
    /\ UNCHANGED <<cost, call, rollup, rolled>>
-----------------------------------------------------------------------------
(* rollupAiGatewayCosts, when the cron fires: the logs of yesterday are     *)
(* fetched, ...                                                             *)
RollupFetches ==
    /\ today > 0
    /\ rollup' = rollup \cup {today - 1}
    /\ UNCHANGED <<today, cost, call, rolled>>

(* ... and a failed fetch or an empty log ends it; ...                      *)
RollupEnds(d) ==
    /\ rollup' = rollup \ {d}
    /\ UNCHANGED <<today, cost, call, rolled>>

(* ... otherwise the row of each provider in them is set to what the        *)
(* gateway says (external: any sum), over what the plugins have added.      *)
RollupWrites(d) ==
    /\ \E sum \in 0 .. Cap : cost' = [cost EXCEPT ![d] = sum]
    /\ rolled' = rolled \cup {d}
    /\ UNCHANGED <<today, call, rollup>>

SpendNext ==
    \/ \E c \in Caller : Asks(c) \/ Fails(c) \/ Answers(c) \/ Records(c) \/ RecordFails(c)
    \/ Midnight
    \/ RollupFetches
    \/ \E d \in rollup : RollupEnds(d) \/ RollupWrites(d)

SpendSpec == SpendInit /\ [][SpendNext]_spend
-----------------------------------------------------------------------------
(* Calls that overlap all pass a cap that only one of them fits under, and  *)
(* a call may be asked on one day and recorded on the next; still no day    *)
(* ends more than one call per caller beyond the cap (until the rollup      *)
(* rewrites the day).                                                       *)
OvershootBounded ==
    \A d \in Day \ rolled : cost[d] <= Cap - 1 + MaxPrice * Cardinality(Caller)
=============================================================================
