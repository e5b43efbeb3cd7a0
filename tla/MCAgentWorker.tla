--------------------------- MODULE MCAgentWorker ---------------------------
EXTENDS AgentWorker, TLC

CONSTANTS s1, q1, t1, t2, p1, p2, c1, c2, c3, m1, m2, db, ai, key, k1, k2,
          r1, r2, r3, w1, w2, f1, d1, d2, box

(* One request goes round its loop twice, one has two calls in a batch.     *)
MCMaxIter == m1 :> 2 @@ m2 :> 1
MCMaxBatch == m1 :> 1 @@ m2 :> 2

MCPart == {"stream", "turns", "index", "spend", "fork", "bridge", "notices"}
OnlyFork == {"fork"}
(* A rename, a move into the project, and one into the archive.             *)
MCBody == {[field |-> "title", to |-> "own"], [field |-> "project", to |-> q1],
           [field |-> "archived", to |-> TRUE]}

Scenario(there, first, second, bindings, edits, losses) ==
    [made |-> there, todo |-> k1 :> first @@ k2 :> second, bound |-> bindings,
     edits |-> edits, losses |-> losses]

(* A file is written beside the workflow that applies drift; reconcile; a   *)
(* release is pulled; the repository is made by two at once.                *)
MCScene ==
    {Scenario(TRUE, <<"write">>, <<"check", "sync">>, {db, key}, 1, 1),
     Scenario(TRUE, <<"check", "deploy", "sync">>, <<"write">>, {db, key}, 2, 0),
     Scenario(TRUE, <<"upstream">>, <<"write">>, {}, 3, 0),
     Scenario(FALSE, <<"init", "write">>, <<"init", "check">>, {}, 1, 0)}

(* The step that tells the owner may be run again twice, the others once.   *)
MCLimit == [s \in Steps |-> IF s = "send" THEN 2 ELSE 1]

(* The other parts need only one of the scenes in the background.           *)
MCInit == Init /\ (part # "fork" => ~repo.made)
MCSpec == MCInit /\ [][Next]_vars /\ Fairness
=============================================================================
