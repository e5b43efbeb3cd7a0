---------------------------- MODULE MCHelmCloud ----------------------------
(* Scenes that bring each hazard about, each with as few actors as it takes. *)
EXTENDS HelmCloud, TLC

CONSTANTS w1, w2, w3, c1, c2, cron1, cron2, click1, f1, f2, s1, s2

MCOwner == w1 :> c1 @@ w2 :> c1 @@ w3 :> c2
MCEmail == c1 :> "a" @@ c2 :> "a"

Tries(n) == c1 :> n @@ c2 :> 0

Quiet == [fleet |-> {}, ladder |-> <<0, 0>>, tokens |-> {1}, faults |-> 0,
          edits |-> 0, acts |-> 0, pushers |-> {cron1}, tries |-> Tries(0),
          events |-> {}, known |-> {c1}, setups |-> {}]

(* A cron and a click push one deployment while its owner edits the row.    *)
Managed == [Quiet EXCEPT !.fleet = {w1}, !.tokens = {1, 2}, !.faults = 1, !.edits = 2,
                         !.pushers = {cron1, click1}]
(* Two runs of the cron overlap on the deployments of two customers.        *)
Overlap == [Quiet EXCEPT !.fleet = {w1, w3}, !.edits = 1, !.pushers = {cron1, cron2}]
(* The agent in the Worker deploys and updates itself meanwhile.            *)
SelfManaged == [Quiet EXCEPT !.fleet = {w1}, !.faults = 1, !.acts = 2]
(* A subscriber deploys while the cron runs and a bundle comes out, ...     *)
Subscribes == [Quiet EXCEPT !.tries = Tries(1), !.faults = 1]
(* ... or once more, onto the Worker of the first time, ...                 *)
Redeploys == [Quiet EXCEPT !.fleet = {w1}, !.ladder = <<1, 2>>, !.tries = Tries(1),
                           !.faults = 1]
(* ... or twice at once.                                                    *)
ClicksTwice == [Quiet EXCEPT !.ladder = <<1>>, !.tries = Tries(2),
                             !.pushers = {}]
(* The customer revokes the token in the middle of a deploy.                *)
DropsToken == [Quiet EXCEPT !.fleet = {w1}, !.ladder = <<1>>, !.tries = Tries(1),
                            !.edits = 1, !.pushers = {}]
(* The deploy does not wait for the webhook that enters the customer.       *)
TooSoon == [Quiet EXCEPT !.ladder = <<0>>, !.tries = Tries(1), !.known = {},
                         !.events = {<<"checkout", c1>>}]
(* Stripe delivers the events of a customer, each twice, ...                *)
Billing == [Quiet EXCEPT !.faults = 1, !.known = {}, !.pushers = {},
                         !.events = {"checkout", "updated", "canceled"} \X {c1}]
(* ... and a cancellation in the middle of a run.                           *)
Cancels == [Quiet EXCEPT !.fleet = {w1, w2}, !.events = {<<"canceled", c1>>}]

(* The agent sets up its Worker while the cron pushes, ...                  *)
SetsUp == [Quiet EXCEPT !.fleet = {w1}, !.faults = 1, !.setups = {s1}]
(* ... while it updates itself, ...                                         *)
SetsUpUpdating == [Quiet EXCEPT !.fleet = {w1}, !.ladder = <<0>>, !.acts = 1, !.faults = 1,
                                !.setups = {s1}, !.pushers = {}]
(* ... twice at once, ...                                                   *)
SetsUpTwice == [Quiet EXCEPT !.fleet = {w1}, !.ladder = <<0>>, !.faults = 1,
                             !.setups = {s1, s2}, !.pushers = {}]
(* ... and while its owner deploys once more.                               *)
SetsUpRedeploying == [Quiet EXCEPT !.fleet = {w1}, !.ladder = <<0>>, !.tries = Tries(1),
                                   !.setups = {s1}, !.pushers = {}]

MCScenes == {Managed, Overlap, SelfManaged, Subscribes, Redeploys, ClicksTwice,
             DropsToken, TooSoon, Billing, Cancels,
             SetsUp, SetsUpUpdating, SetsUpTwice, SetsUpRedeploying}
=============================================================================
