------------------------- MODULE AgentWorkerProofs -------------------------
(***************************************************************************)
(* The theorems about the parts of the agent's Worker, for any number of   *)
(* frames, requests, sessions, callers, skills and firings, and any cap.   *)
(* Each part has an inductive invariant of its own: Artifacts, CodexBridge *)
(* and Notices first, the other parts after them, and the composition at   *)
(* the end.                                                                *)
(***************************************************************************)
EXTENDS AgentWorker, FiniteSetTheorems, TLAPS

(***************************************************************************)
(* Artifacts.  What a skill reports as pushed stays in the history, for any*)
(* number of skills and any todo lists.                                    *)
(***************************************************************************)
Commits0 == 0 .. Len(repo.commits)
Numbers == 1 .. Len(repo.commits)

\* The past of a commit holds the commit, and the past of each commit in it.
GoodHistory ==
    \A i \in Numbers : /\ i \in Past(i) /\ Past(i) \subseteq Numbers
                       /\ \A j \in Past(i) : Past(j) \subseteq Past(i)

\* What names a commit names one that is there.
Shared ==
    /\ repo \in [commits : Seq([tree : Tree, past : SUBSET Nat]), upstream : Nat, origin : Nat,
                 made : BOOLEAN]
    /\ clone \in [head : Nat, tree : Tree, index : Tree]
    /\ bound \subseteq Name
    /\ bounds \in [edits : Nat, losses : Nat, removed : SUBSET Name]
    /\ GoodHistory
    /\ clone.head \in Commits0 /\ repo.origin \in Commits0 /\ repo.upstream \in Numbers
    /\ ~repo.made => repo.origin = 0

Pushing == {"sync", "write", "upstream"}
PushesLast(todo) == \A i \in 1 .. Len(todo) - 1 : todo[i] \notin Pushing

\* The place of a skill says what it is doing.
Busy(r) ==
    /\ PushesLast(r.todo)
    /\ r.at \notin {"idle", "over"} => r.todo # <<>>
    /\ r.at \in {"edit", "stage", "commit"} => Head(r.todo) = "write"
    /\ r.at \in {"fetch", "merge"} => Head(r.todo) = "upstream"
    /\ r.at = "push" => Head(r.todo) \in {"write", "upstream"}
    /\ r.up # 0 => r.at \in {"merge", "push", "over"}
    /\ r.at = "merge" => r.up # 0
    /\ r.pushed => r.at = "over"

\* Two skills under way know of each other.
Beside == \A s, k \in Running : s # k => k \in skill[s].beside

\* A skill that is alone finds its work where it has put it, or the clone gone.
Kept(s) ==
    LET r == skill[s]
        Has(tree) == In(Target(s), tree) = Content(s)
    IN  r.beside = {} =>
          /\ r.at = "stage" => clone.head = 0 \/ Has(clone.tree)
          /\ r.at = "commit" => clone.head = 0 \/ Has(clone.index)
          /\ r.at = "push" => \/ clone.head = 0
                              \/ IF r.up # 0 THEN r.up \in Past(clone.head)
                                 ELSE Has(TreeOf(clone.head))

ForkInv ==
    /\ Shared /\ skill \in [Skill -> Invocation] /\ Beside
    /\ \A s \in Skill : skill[s].up \in Commits0 /\ Busy(skill[s]) /\ Kept(s)
    /\ PushedStays
-----------------------------------------------------------------------------
(***************************************************************************)
(* Trees and the history.                                                  *)
(***************************************************************************)
LEMMA TreesTyped == Shared => \A i \in Commits0 : TreeOf(i) \in Tree
<1> SUFFICES ASSUME Shared, NEW i \in Commits0 PROVE TreeOf(i) \in Tree
    OBVIOUS
<1>1. CASE i = 0
    BY <1>1 DEF TreeOf, NoTree, Tree, Author
<1>2. CASE i # 0
    <2> DEFINE C == [tree : Tree, past : SUBSET Nat]
    <2>1. repo.commits \in Seq(C)
        BY DEF Shared
    <2>2. repo.commits[i] \in C
        <3> HIDE DEF C
        <3> QED BY <1>2, <2>1 DEF Commits0
    <2> QED BY <1>2, <2>2 DEF TreeOf
<1> QED BY <1>1, <1>2

LEMMA JoinedTyped ==
    ASSUME NEW base, NEW one \in Tree, NEW two \in Tree
    PROVE  Joined(base, one, two) \in Tree
BY DEF Joined, Tree, In

LEMMA WithTyped ==
    ASSUME NEW tree \in Tree, NEW f \in File, NEW content,
           IF f = "toml" THEN content \in SUBSET Name ELSE content \in Author
    PROVE  /\ With(tree, f, content) \in Tree
           /\ In(f, With(tree, f, content)) = content
BY DEF With, Tree, In, File

LEMMA MovesTyped ==
    ASSUME Shared, NEW i \in Nat, NEW tree \in Tree
    PROVE  MovedTo(i, tree) \in [head : Nat, tree : Tree, index : Tree]
BY TreesTyped, JoinedTyped DEF Shared, MovedTo

\* The history only grows.
Grown ==
    /\ Len(repo.commits) <= Len(repo'.commits)
    /\ \A i \in Numbers : repo'.commits[i] = repo.commits[i]
    /\ Past(repo.origin) \subseteq Past(repo.origin)'

\* A commit on top of a closed set of earlier ones.
LEMMA CommitAdded ==
    ASSUME Shared, NEW t \in Tree, NEW n, n = New,
           NEW past \in SUBSET Numbers, \A j \in past : Past(j) \subseteq past,
           repo'.commits = Append(repo.commits, Commit(t, past \cup {n}))
    PROVE  /\ n \in Nat \ {0} /\ Len(repo.commits) + 1 = n /\ Len(repo'.commits) = n
           /\ repo'.commits \in Seq([tree : Tree, past : SUBSET Nat])
           /\ \A i \in Numbers : repo'.commits[i] = repo.commits[i]
           /\ repo'.commits[n] = Commit(t, past \cup {n})
           /\ GoodHistory'
<1> DEFINE C == [tree : Tree, past : SUBSET Nat]
<1>1. repo.commits \in Seq(C)
    BY DEF Shared
<1>2. n \in Nat \ {0} /\ n = Len(repo.commits) + 1 /\ Len(repo.commits) \in Nat
    BY <1>1 DEF New
<1>3. Commit(t, past \cup {n}) \in C
    <2>1. past \cup {n} \in SUBSET Nat
        <3>1. past \subseteq Nat
            BY <1>2 DEF Numbers
        <3> QED BY <1>2, <3>1
    <2> QED BY <2>1 DEF Commit
<1>4. /\ repo'.commits \in Seq(C) /\ Len(repo'.commits) = n
      /\ \A i \in Numbers : repo'.commits[i] = repo.commits[i]
      /\ repo'.commits[n] = Commit(t, past \cup {n})
    <2> HIDE DEF C
    <2> QED BY <1>1, <1>2, <1>3 DEF Numbers
<1>5. Numbers' = Numbers \cup {n} /\ n \notin Numbers /\ 0 \notin Numbers
    BY <1>1, <1>2, <1>4 DEF Numbers
<1>6. \A i \in Numbers : Past(i)' = Past(i)
    BY <1>4, <1>5 DEF Past
<1>7. Past(n)' = past \cup {n}
    BY <1>2, <1>4 DEF Past, Commit
<1>8. GoodHistory'
    <2> SUFFICES ASSUME NEW i \in Numbers'
                 PROVE  /\ i \in Past(i)' /\ Past(i)' \subseteq Numbers'
                        /\ \A j \in Past(i)' : Past(j)' \subseteq Past(i)'
        BY DEF GoodHistory
    <2>1. CASE i \in Numbers
        BY <2>1, <1>5, <1>6 DEF Shared, GoodHistory
    <2>2. CASE i = n
        BY <2>2, <1>5, <1>6, <1>7
    <2> QED BY <2>1, <2>2, <1>5
<1> QED BY <1>2, <1>4, <1>8
-----------------------------------------------------------------------------
(***************************************************************************)
(* The end of a phase.                                                     *)
(***************************************************************************)
LEMMA NothingLeft == <<>> \in Seq(Phase) /\ PushesLast(<<>>)
BY DEF PushesLast

\* A skill that has nothing left to do.
LEMMA IsOver ==
    ASSUME NEW r \in Invocation, NEW ok \in BOOLEAN,
           NEW e, e = [r EXCEPT !.todo = <<>>, !.at = "over", !.ok = ok]
    PROVE  /\ e \in Invocation /\ e.at = "over" /\ e.todo = <<>>
           /\ e.beside = r.beside /\ e.up = r.up /\ e.text = r.text /\ e.pushed = r.pushed
<1> DEFINE none == <<>>
<1>1. none \in Seq(Phase)
    BY NothingLeft
<1>2. e = [r EXCEPT !.todo = none, !.at = "over", !.ok = ok]
    OBVIOUS
<1> HIDE DEF none
<1>3. /\ e \in Invocation /\ e.at = "over" /\ e.todo = none
      /\ e.beside = r.beside /\ e.up = r.up /\ e.text = r.text /\ e.pushed = r.pushed
    BY <1>1, <1>2 DEF Invocation
<1> QED BY <1>3 DEF none

LEMMA DoneGoes ==
    ASSUME NEW r \in Invocation, PushesLast(r.todo), r.todo # <<>>
    PROVE  LET e == Done(r) IN
           /\ e \in Invocation /\ PushesLast(e.todo) /\ e.at \in {"pull", "over"}
           /\ e.at = "pull" => e.todo # <<>>
           /\ Head(r.todo) \in Pushing => e.at = "over"
           /\ e.beside = r.beside /\ e.up = r.up /\ e.text = r.text /\ e.pushed = r.pushed
<1>1. r.todo \in Seq(Phase) /\ Len(r.todo) \in Nat \ {0}
    BY DEF Invocation
<1>2. CASE Len(r.todo) > 1
    <2> DEFINE t == Tail(r.todo)
    <2>1. /\ t \in Seq(Phase) /\ Len(t) = Len(r.todo) - 1
          /\ \A i \in 1 .. Len(r.todo) - 1 : t[i] = r.todo[i + 1]
          /\ Head(r.todo) = r.todo[1]
        BY <1>1, <1>2
    <2>2. Done(r) = [r EXCEPT !.todo = t, !.at = "pull"]
        BY <1>2 DEF Done
    <2> HIDE DEF t
    <2>3. PushesLast(t) /\ t # <<>>
        <3>1. ASSUME NEW i \in 1 .. Len(t) - 1 PROVE t[i] \notin Pushing
            <4>1. i + 1 \in 1 .. Len(r.todo) - 1 /\ i \in 1 .. Len(r.todo) - 1
                BY <1>1, <1>2, <2>1
            <4> QED BY <2>1, <4>1 DEF PushesLast
        <3>2. t # <<>>
            BY <1>1, <1>2, <2>1
        <3> QED BY <3>1, <3>2 DEF PushesLast
    <2>4. Head(r.todo) \notin Pushing
        BY <1>1, <1>2, <2>1 DEF PushesLast
    <2> QED BY <2>1, <2>2, <2>3, <2>4 DEF Invocation
<1>3. CASE ~(Len(r.todo) > 1)
    <2>1. Done(r) = [r EXCEPT !.todo = <<>>, !.at = "over", !.ok = r.ok]
        BY <1>3 DEF Done, Invocation
    <2>2. r.ok \in BOOLEAN
        BY DEF Invocation
    <2>3. /\ Done(r) \in Invocation /\ Done(r).at = "over" /\ Done(r).todo = <<>>
          /\ Done(r).beside = r.beside /\ Done(r).up = r.up /\ Done(r).text = r.text
          /\ Done(r).pushed = r.pushed
        BY <2>1, <2>2, IsOver
    <2> QED BY <2>3, NothingLeft
<1> QED BY <1>2, <1>3

\* A phase that ends leaves a skill that has pushed nothing.
LEMMA PhaseEnds ==
    ASSUME NEW r \in Invocation, Busy(r), r.at \notin {"idle", "over"},
           NEW e, e = Done(r) \/ e = Failed(r)
    PROVE  /\ e \in Invocation /\ Busy(e) /\ e.at \in {"pull", "over"} /\ ~e.pushed
           /\ e.beside = r.beside /\ e.up = r.up /\ e.text = r.text
<1>1. PushesLast(r.todo) /\ r.todo # <<>> /\ ~r.pushed
    BY DEF Busy
<1>2. r.up # 0 => Head(r.todo) \in Pushing
    BY DEF Busy, Pushing
<1>3. LET d == Done(r) IN
      /\ d \in Invocation /\ Busy(d) /\ d.at \in {"pull", "over"} /\ ~d.pushed
      /\ d.beside = r.beside /\ d.up = r.up /\ d.text = r.text
    BY <1>1, <1>2, DoneGoes DEF Busy, Invocation
<1>4. CASE e = Done(r)
    BY <1>3, <1>4
<1>5. CASE e = [Done(r) EXCEPT !.ok = FALSE]
    BY <1>3, <1>5 DEF Busy, Invocation
<1>6. CASE e = [r EXCEPT !.todo = <<>>, !.at = "over", !.ok = FALSE]
    <2>1. /\ e \in Invocation /\ e.at = "over" /\ e.todo = <<>> /\ e.pushed = r.pushed
          /\ e.beside = r.beside /\ e.up = r.up /\ e.text = r.text
        BY <1>6, IsOver
    <2> QED BY <1>1, <2>1, NothingLeft DEF Busy
<1> QED BY <1>4, <1>5, <1>6 DEF Failed
-----------------------------------------------------------------------------
(***************************************************************************)
(* A step of one skill keeps the invariant if what it does is in order.    *)
(***************************************************************************)
LEMMA HistoryStays ==
    ASSUME Shared, Shared', Grown
    PROVE  /\ \A i \in Numbers : i \in Numbers' /\ TreeOf(i)' = TreeOf(i) /\ Past(i)' = Past(i)
           /\ \A i \in Commits0 : i \in Commits0'
           /\ \A s \in Skill : InHistory(s) /\ skill'[s] = skill[s] => InHistory(s)'
<1>1. Len(repo.commits) \in Nat /\ Len(repo'.commits) \in Nat
    BY DEF Shared
<1>2. \A i \in Commits0 : i \in Commits0'
    BY <1>1 DEF Grown, Commits0
<1>3. \A i \in Numbers : i \in Numbers' /\ i # 0
    BY <1>1 DEF Grown, Numbers
<1>4. \A i \in Numbers : TreeOf(i)' = TreeOf(i) /\ Past(i)' = Past(i)
    BY <1>3 DEF Grown, TreeOf, Past
<1>5. Past(repo.origin) \subseteq Numbers
    <2>1. repo.origin = 0 \/ repo.origin \in Numbers
        BY <1>1 DEF Shared, Commits0, Numbers
    <2> QED BY <2>1 DEF Shared, GoodHistory, Past
<1>6. ASSUME NEW s \in Skill, InHistory(s), skill'[s] = skill[s]
      PROVE  InHistory(s)'
    <2>1. CASE skill[s].up # 0
        BY <1>6, <2>1 DEF InHistory, Grown
    <2>2. CASE skill[s].up = 0
        <3>1. PICK i \in Past(repo.origin) : In(Target(s), TreeOf(i)) = Content(s)
            BY <1>6, <2>2 DEF InHistory
        <3>2. i \in Past(repo.origin)' /\ TreeOf(i)' = TreeOf(i)
            BY <1>4, <1>5 DEF Grown
        <3>3. Target(s)' = Target(s) /\ Content(s)' = Content(s)
            BY <1>6 DEF Target, Content
        <3>4. In(Target(s), TreeOf(i))' = Content(s)'
            BY <3>1, <3>2, <3>3 DEF In
        <3> QED BY <1>6, <2>2, <3>2, <3>4 DEF InHistory
    <2> QED BY <2>1, <2>2
<1> QED BY <1>2, <1>3, <1>4, <1>6

LEMMA StepOfOne ==
    ASSUME ForkInv, Shared', Grown, NEW s \in Running,
           NEW e \in Invocation, Becomes(s, e), e.at # "idle", e.beside = skill[s].beside,
           Busy(e), e.up \in Commits0', Kept(s)', e.pushed /\ e.beside = {} => InHistory(s)'
    PROVE  ForkInv'
<1>1. /\ s \in Skill /\ skill' \in [Skill -> Invocation] /\ skill'[s] = e
      /\ \A k \in Skill \ {s} : skill'[k] = skill[k]
    BY DEF ForkInv, Running, Becomes
<1>2. Running' \subseteq Running
    BY <1>1 DEF Running
<1>3. Beside'
    <2> SUFFICES ASSUME NEW a \in Running', NEW b \in Running', a # b
                 PROVE  b \in skill'[a].beside
        BY DEF Beside
    <2>1. a \in Skill /\ skill'[a].beside = skill[a].beside
        BY <1>1, <1>2 DEF Running
    <2> QED BY <1>2, <2>1 DEF ForkInv, Beside
<1>4. \A k \in Skill : skill'[k].up \in Commits0' /\ Busy(skill'[k])
    BY <1>1, HistoryStays DEF ForkInv
<1>5. ASSUME NEW k \in Skill PROVE Kept(k)'
    <2>1. CASE k # s /\ k \in Running
        <3>1. skill'[k].beside # {}
            BY <1>1, <2>1 DEF ForkInv, Beside
        <3> QED BY <3>1 DEF Kept
    <2>2. CASE k # s /\ k \notin Running
        <3>1. skill'[k].at \in {"idle", "over"}
            BY <1>1, <2>2 DEF Running
        <3> QED BY <3>1 DEF Kept
    <2> QED BY <2>1, <2>2
<1>6. PushedStays'
    <2> SUFFICES ASSUME NEW k \in Skill, skill'[k].pushed, skill'[k].beside = {}
                 PROVE  InHistory(k)'
        BY DEF PushedStays
    <2> QED BY <1>1, HistoryStays DEF ForkInv, PushedStays
<1> QED BY <1>1, <1>3, <1>4, <1>5, <1>6 DEF ForkInv

LEMMA NothingGrows ==
    ASSUME Shared, UNCHANGED <<repo, clone, bound, bounds>>
    PROVE  Shared' /\ Grown /\ Commits0' = Commits0
BY DEF Shared, GoodHistory, Past, Numbers, Commits0, Grown

\* A step from one place to another that changes nothing else.
LEMMA StepOn ==
    ASSUME ForkInv, NEW s \in Running, UNCHANGED <<repo, clone, bound, bounds>>,
           NEW e \in Invocation, Becomes(s, e), e.beside = skill[s].beside, Busy(e),
           e.at \notin {"idle", "stage", "commit", "push"}, e.up \in Commits0, ~e.pushed
    PROVE  ForkInv'
<1>1. Shared' /\ Grown /\ Commits0' = Commits0
    BY NothingGrows DEF ForkInv
<1>2. skill'[s] = e
    BY DEF ForkInv, Running, Becomes
<1>3. Kept(s)'
    BY <1>2 DEF Kept
<1> QED BY <1>1, <1>3, StepOfOne

LEMMA StepEnds ==
    ASSUME ForkInv, NEW s \in Running, UNCHANGED <<repo, clone, bound, bounds>>,
           Becomes(s, Done(skill[s])) \/ Becomes(s, Failed(skill[s]))
    PROVE  ForkInv'
<1>1. PICK e : (e = Done(skill[s]) \/ e = Failed(skill[s])) /\ Becomes(s, e)
    OBVIOUS
<1>2. /\ s \in Skill /\ skill[s] \in Invocation /\ Busy(skill[s]) /\ skill[s].up \in Commits0
      /\ skill[s].at \notin {"idle", "over"}
    BY DEF ForkInv, Running
<1>3. /\ e \in Invocation /\ Busy(e) /\ e.at \in {"pull", "over"} /\ ~e.pushed
      /\ e.beside = skill[s].beside /\ e.up = skill[s].up
    BY <1>1, <1>2, PhaseEnds
<1> QED BY <1>1, <1>2, <1>3, StepOn
-----------------------------------------------------------------------------
(***************************************************************************)
(* The actions.                                                            *)
(***************************************************************************)
LEMMA ForkStarts == ForkInit => ForkInv
<1> SUFFICES ASSUME ForkInit PROVE ForkInv
    OBVIOUS
<1>1. PICK sc \in Scene :
        /\ repo = [commits |-> <<Commit([toml |-> {}, code |-> "first"], {1})>>,
                   upstream |-> 1, origin |-> IF sc.made THEN 1 ELSE 0, made |-> sc.made]
        /\ clone = NoClone /\ bound = sc.bound
        /\ skill = [k \in Skill |-> Invoked(sc.todo[k])]
        /\ bounds = [edits |-> sc.edits, losses |-> sc.losses, removed |-> {}]
    BY DEF ForkInit
<1>2. NoTree \in Tree
    BY DEF NoTree, Tree, Author
<1> DEFINE C == [tree : Tree, past : SUBSET Nat]
           first == Commit([toml |-> {}, code |-> "first"], {1})
<1>3. first \in C /\ first.past = {1}
    BY <1>2 DEF NoTree, Commit
<1>4. repo.commits \in Seq(C) /\ Len(repo.commits) = 1 /\ repo.commits[1].past = {1}
    <2> HIDE DEF C, first
    <2>1. repo.commits = <<first>>
        BY <1>1 DEF first
    <2> QED BY <1>3, <2>1
<1>5. Numbers = {1} /\ Commits0 = {0, 1} /\ Past(1) = {1}
    BY <1>4 DEF Numbers, Commits0, Past
<1>6. Shared
    <2>1. sc.made \in BOOLEAN /\ sc.bound \subseteq Name /\ sc.edits \in Nat /\ sc.losses \in Nat
        BY ArtifactsAssumption
    <2>2. GoodHistory
        BY <1>5 DEF GoodHistory
    <2>3. repo \in [commits : Seq(C), upstream : Nat, origin : Nat, made : BOOLEAN]
        <3> HIDE DEF C
        <3> QED BY <1>1, <1>4, <2>1
    <2>4. clone \in [head : Nat, tree : Tree, index : Tree] /\ clone.head = 0
        BY <1>1, <1>2 DEF NoClone
    <2>5. /\ repo.origin \in Commits0 /\ repo.upstream \in Numbers
          /\ ~repo.made => repo.origin = 0
        BY <1>1, <1>5
    <2> QED BY <1>1, <1>5, <2>1, <2>2, <2>3, <2>4, <2>5 DEF Shared
<1>7. ASSUME NEW k \in Skill
      PROVE  /\ skill[k] \in Invocation /\ Busy(skill[k])
             /\ skill[k].at = "idle" /\ skill[k].up = 0 /\ ~skill[k].pushed
    <2>1. skill[k] = Invoked(sc.todo[k])
        BY <1>1
    <2>2. sc.todo[k] \in Seq(Phase)
        BY ArtifactsAssumption
    <2>3. PushesLast(sc.todo[k])
        BY ArtifactsAssumption DEF PushesLast, Pushing
    <2> QED BY <2>1, <2>2, <2>3 DEF Invoked, Invocation, Busy
<1>8. Running = {}
    BY <1>7 DEF Running
<1>9. skill \in [Skill -> Invocation]
    BY <1>1, <1>7
<1>10. Beside /\ PushedStays /\ \A k \in Skill : Kept(k)
    BY <1>7, <1>8 DEF Beside, PushedStays, Kept
<1> QED BY <1>5, <1>6, <1>7, <1>9, <1>10 DEF ForkInv

LEMMA StartsStep ==
    ASSUME ForkInv, NEW s \in Skill, Starts(s)
    PROVE  ForkInv'
<1>1. /\ skill[s].at = "idle" /\ skill[s].todo # <<>>
      /\ UNCHANGED <<repo, clone, bound, bounds>>
      /\ skill' = [k \in Skill |->
                     IF k = s THEN [skill[s] EXCEPT !.beside = Running,
                                      !.at = IF Doing(s, "init") THEN "probe" ELSE "pull"]
                     ELSE IF k \in Running THEN [skill[k] EXCEPT !.beside = @ \cup {s}]
                     ELSE skill[k]]
    BY DEF Starts, IsAt
<1>2. Shared' /\ Grown /\ Commits0' = Commits0
    BY <1>1, NothingGrows DEF ForkInv
<1>3. s \notin Running /\ Running \subseteq Skill
    BY <1>1 DEF Running
<1>4. \A k \in Skill : skill[k] \in Invocation /\ Busy(skill[k]) /\ skill[k].up \in Commits0
    BY DEF ForkInv
<1>5. /\ skill'[s] \in Invocation /\ Busy(skill'[s]) /\ skill'[s].up = 0 /\ ~skill'[s].pushed
      /\ skill'[s].at \in {"probe", "pull"} /\ skill'[s].beside = Running
    <2>1. PICK p \in {"probe", "pull"} : skill'[s] = [skill[s] EXCEPT !.beside = Running, !.at = p]
        BY <1>1
    <2>2. skill[s] \in Invocation /\ Busy(skill[s]) /\ skill[s].at = "idle"
        BY <1>1, <1>4
    <2>3. /\ skill'[s] \in Invocation /\ skill'[s].at = p /\ skill'[s].beside = Running
          /\ skill'[s].todo = skill[s].todo /\ skill'[s].up = skill[s].up
          /\ skill'[s].pushed = skill[s].pushed
        BY <1>3, <2>1, <2>2 DEF Invocation
    <2> QED BY <1>1, <2>2, <2>3 DEF Busy
<1>6. ASSUME NEW k \in Running
      PROVE  /\ skill'[k] \in Invocation /\ Busy(skill'[k]) /\ skill'[k].at = skill[k].at
             /\ skill'[k].up = skill[k].up
             /\ skill'[k].beside = skill[k].beside \cup {s}
    <2>1. skill'[k] = [skill[k] EXCEPT !.beside = @ \cup {s}]
        BY <1>1, <1>3
    <2> QED BY <1>3, <1>4, <2>1 DEF Invocation, Busy
<1>7. \A k \in Skill \ (Running \cup {s}) : skill'[k] = skill[k]
    BY <1>1
<1>8. Running' = Running \cup {s}
    BY <1>3, <1>5, <1>6, <1>7 DEF Running
<1>9. skill' \in [Skill -> Invocation]
    <2>1. \A k \in Skill : skill'[k] \in Invocation
        BY <1>3, <1>4, <1>5, <1>6, <1>7
    <2> HIDE DEF Invocation
    <2> QED BY <1>1, <2>1
<1>10. Beside'
    BY <1>3, <1>5, <1>6, <1>8 DEF Beside, ForkInv
<1>11. \A k \in Skill : skill'[k].up \in Commits0' /\ Busy(skill'[k])
    <2>1. 0 \in Commits0
        BY DEF ForkInv, Shared, Commits0
    <2> QED BY <1>2, <1>3, <1>4, <1>5, <1>6, <1>7, <2>1
<1>12. ASSUME NEW k \in Skill PROVE Kept(k)'
    <2>1. CASE k \in Running
        BY <2>1, <1>6 DEF Kept
    <2>2. CASE k = s
        BY <2>2, <1>5 DEF Kept
    <2>3. CASE k \notin Running \cup {s}
        <3>1. skill'[k].at \in {"idle", "over"}
            BY <1>7, <2>3 DEF Running
        <3> QED BY <3>1 DEF Kept
    <2> QED BY <2>1, <2>2, <2>3
<1>13. PushedStays'
    <2> SUFFICES ASSUME NEW k \in Skill, skill'[k].pushed, skill'[k].beside = {}
                 PROVE  InHistory(k)'
        BY DEF PushedStays
    <2>1. k \notin Running \cup {s}
        BY <1>5, <1>6
    <2> QED BY <1>2, <1>7, <2>1, HistoryStays DEF ForkInv, PushedStays
<1> QED BY <1>2, <1>9, <1>10, <1>11, <1>12, <1>13 DEF ForkInv

\* What a skill under way is known to be.
LEMMA UnderWay ==
    ASSUME ForkInv, NEW s \in Skill, skill[s].at \notin {"idle", "over"}
    PROVE  /\ s \in Running /\ skill[s] \in Invocation /\ Busy(skill[s])
           /\ skill[s].up \in Commits0 /\ ~skill[s].pushed /\ Shared
           /\ 0 \in Commits0 /\ Numbers \subseteq Commits0 /\ 0 \notin Numbers
           /\ Commits0 \subseteq Nat /\ \A i \in Commits0 : i = 0 \/ i \in Numbers
BY DEF ForkInv, Running, Busy, Shared, Commits0, Numbers

LEMMA InitSteps ==
    ASSUME ForkInv, NEW s \in Skill, Probes(s) \/ Makes(s) \/ Strands(s) \/ UpToDate(s)
    PROVE  ForkInv'
<1>1. skill[s].at \notin {"idle", "over"} /\ bounds' = bounds
    BY DEF Probes, Makes, Strands, UpToDate, IsAt
<1>2. /\ s \in Running /\ skill[s] \in Invocation /\ Busy(skill[s])
      /\ skill[s].up \in Commits0 /\ ~skill[s].pushed /\ Shared
    BY <1>1, UnderWay
<1>3. CASE Breaks(s)
    BY <1>1, <1>2, <1>3, StepEnds DEF Breaks
<1>4. CASE Probes(s)
    <2>1. UNCHANGED <<repo, clone, bound, bounds>> /\ skill[s].at = "probe"
        BY <1>4 DEF Probes, IsAt
    <2>2. CASE Becomes(s, Done(skill[s]))
        BY <1>2, <2>1, <2>2, StepEnds
    <2>3. CASE Becomes(s, [skill[s] EXCEPT !.at = "make"])
        <3> DEFINE e == [skill[s] EXCEPT !.at = "make"]
        <3>1. /\ e \in Invocation /\ Busy(e) /\ e.at = "make" /\ e.beside = skill[s].beside
              /\ e.up = skill[s].up /\ ~e.pushed
            BY <1>2, <2>1 DEF Invocation, Busy
        <3> HIDE DEF e
        <3> QED BY <1>2, <2>1, <2>3, <3>1, StepOn DEF e
    <2> QED BY <1>4, <2>2, <2>3 DEF Probes
<1>5. CASE Makes(s) /\ ~Breaks(s)
    <2>1. /\ skill[s].at = "make" /\ Becomes(s, Done(skill[s])) /\ UNCHANGED <<clone, bound, bounds>>
          /\ ~repo.made
          /\ \/ repo' = [repo EXCEPT !.made = TRUE, !.origin = repo.upstream]
             \/ repo' = [repo EXCEPT !.made = TRUE]
        BY <1>5 DEF Makes, IsAt
    <2>2. PICK e : e = Done(skill[s])
        OBVIOUS
    <2>3. /\ e \in Invocation /\ Busy(e) /\ e.at \in {"pull", "over"} /\ ~e.pushed
          /\ e.beside = skill[s].beside /\ e.up = skill[s].up
        BY <1>1, <1>2, <2>2, PhaseEnds
    <2>4. repo'.commits = repo.commits /\ Commits0' = Commits0 /\ Numbers' = Numbers
        BY <1>2, <2>1 DEF Shared, Commits0, Numbers
    <2>5. \A i : Past(i)' = Past(i)
        BY <2>4 DEF Past
    <2>6. Shared'
        <3>1. GoodHistory'
            BY <1>2, <2>4, <2>5 DEF GoodHistory, Shared
        <3>2. Numbers \subseteq Commits0
            BY <1>1, UnderWay
        <3> DEFINE C == Seq([tree : Tree, past : SUBSET Nat])
        <3>3. /\ repo' \in [commits : C, upstream : Nat, origin : Nat, made : BOOLEAN]
              /\ repo'.origin \in {repo.origin, repo.upstream} /\ repo'.upstream = repo.upstream
              /\ repo'.made
            <4>1. repo \in [commits : C, upstream : Nat, origin : Nat, made : BOOLEAN]
                BY <1>2 DEF Shared
            <4> HIDE DEF C
            <4> QED BY <2>1, <4>1
        <3> QED BY <1>2, <2>1, <2>4, <3>1, <3>2, <3>3 DEF Shared
    <2>7. Grown
        <3>1. Past(repo.origin) = {}
            BY <1>2, <2>1 DEF Shared, Past
        <3> QED BY <1>2, <2>4, <3>1 DEF Grown, Shared
    <2>8. Kept(s)'
        <3>1. skill'[s] = e
            BY <1>2, <2>1, <2>2 DEF Becomes, ForkInv
        <3> QED BY <2>3, <3>1 DEF Kept
    <2> QED BY <1>2, <2>1, <2>2, <2>3, <2>4, <2>6, <2>7, <2>8, StepOfOne
<1>6. CASE UpToDate(s)
    BY <1>1, <1>2, <1>6, StepEnds DEF UpToDate
<1> QED BY <1>3, <1>4, <1>5, <1>6 DEF Strands

\* A step that leaves the commits alone.
LEMMA RepoSame ==
    ASSUME Shared, UNCHANGED <<repo, bounds>>,
           clone' \in [head : Nat, tree : Tree, index : Tree], clone'.head \in Commits0,
           bound' \subseteq Name
    PROVE  /\ Shared' /\ Grown /\ Commits0' = Commits0
           /\ \A i : Past(i)' = Past(i) /\ TreeOf(i)' = TreeOf(i)
BY DEF Shared, GoodHistory, Past, TreeOf, Numbers, Commits0, Grown

\* A step of a skill from one place to another.
LEMMA PlaceGoes ==
    ASSUME NEW r \in Invocation, Busy(r), r.at \notin {"idle", "over", "merge", "push"},
           NEW to \in {"settings", "edit", "stage", "commit", "push", "deploy", "fetch", "read"},
           \/ to \in {"settings", "read", "deploy"}
           \/ to \in {"edit", "stage", "commit", "push"} /\ Head(r.todo) = "write"
           \/ to = "fetch" /\ Head(r.todo) = "upstream",
           NEW e, e = [r EXCEPT !.at = to]
    PROVE  /\ e \in Invocation /\ Busy(e) /\ e.at = to /\ e.beside = r.beside /\ e.up = r.up
           /\ e.up = 0 /\ e.text = r.text /\ ~e.pushed
<1>1. /\ e \in Invocation /\ e.at = to /\ e.beside = r.beside /\ e.up = r.up
      /\ e.text = r.text /\ e.pushed = r.pushed /\ e.todo = r.todo
    BY DEF Invocation
<1> QED BY <1>1 DEF Busy

LEMMA ClonesStep ==
    ASSUME ForkInv, NEW s \in Skill, Clones(s)
    PROVE  ForkInv'
<1>1. skill[s].at = "pull" /\ bounds' = bounds
    BY DEF Clones, IsAt
<1>2. /\ s \in Running /\ skill[s] \in Invocation /\ Busy(skill[s])
      /\ skill[s].up \in Commits0 /\ ~skill[s].pushed /\ Shared /\ Commits0 \subseteq Nat
    BY <1>1, UnderWay
<1>3. CASE Breaks(s)
    BY <1>1, <1>2, <1>3, StepEnds DEF Breaks
<1>4. CASE ~Breaks(s)
    <2>1. /\ clone' = Pulled /\ UNCHANGED <<repo, bound>>
          /\ \/ Becomes(s, Done(skill[s]))
             \/ Doing(s, "write") /\ Becomes(s, [skill[s] EXCEPT !.at = "edit"])
             \/ Becomes(s, [skill[s] EXCEPT !.at = "deploy"])
             \/ Doing(s, "upstream") /\ Becomes(s, [skill[s] EXCEPT !.at = "fetch"])
             \/ Becomes(s, [skill[s] EXCEPT !.at = "read"])
        BY <1>4 DEF Clones
    <2>2. clone' \in [head : Nat, tree : Tree, index : Tree] /\ clone'.head \in Commits0
        <3>1. repo.origin \in Nat /\ repo.origin \in Commits0 /\ TreeOf(repo.origin) \in Tree
            BY <1>2, TreesTyped DEF Shared
        <3>2. MovedTo(repo.origin, TreeOf(repo.origin)) \in [head : Nat, tree : Tree, index : Tree]
            BY <1>2, <3>1, MovesTyped
        <3>3. MovedTo(repo.origin, TreeOf(repo.origin)).head = repo.origin
            BY DEF MovedTo
        <3> QED BY <1>2, <2>1, <3>1, <3>2, <3>3 DEF Pulled, Shared
    <2>3. Shared' /\ Grown /\ Commits0' = Commits0
        BY <1>1, <1>2, <2>1, <2>2, RepoSame DEF Shared
    <2>4. PICK e : /\ Becomes(s, e)
                   /\ \/ e = Done(skill[s])
                      \/ Doing(s, "write") /\ e = [skill[s] EXCEPT !.at = "edit"]
                      \/ e = [skill[s] EXCEPT !.at = "deploy"]
                      \/ Doing(s, "upstream") /\ e = [skill[s] EXCEPT !.at = "fetch"]
                      \/ e = [skill[s] EXCEPT !.at = "read"]
        BY <2>1
    <2>5. /\ e \in Invocation /\ Busy(e) /\ e.at \in {"pull", "over", "edit", "deploy", "fetch", "read"}
          /\ e.beside = skill[s].beside /\ e.up = skill[s].up /\ ~e.pushed
        <3>1. CASE e = Done(skill[s])
            BY <1>1, <1>2, <3>1, PhaseEnds
        <3>2. CASE e # Done(skill[s])
            <4>1. PICK to \in {"edit", "deploy", "fetch", "read"} :
                     /\ e = [skill[s] EXCEPT !.at = to]
                     /\ to = "edit" => Head(skill[s].todo) = "write"
                     /\ to = "fetch" => Head(skill[s].todo) = "upstream"
                BY <2>4, <3>2 DEF Doing
            <4> QED BY <1>1, <1>2, <4>1, PlaceGoes
        <3> QED BY <3>1, <3>2
    <2>6. Kept(s)'
        <3>1. skill'[s] = e
            BY <1>2, <2>4 DEF Becomes, ForkInv
        <3> QED BY <2>5, <3>1 DEF Kept
    <2> QED BY <1>2, <2>3, <2>4, <2>5, <2>6, StepOfOne
<1> QED BY <1>3, <1>4

LEMMA Plans ==
    \A q \in {<<"check">>, <<"check", "deploy">>, <<"check", "sync">>,
             <<"check", "deploy", "sync">>, <<"write">>} :
        q \in Seq(Phase) /\ PushesLast(q) /\ q # <<>>
<1>1. LET q == <<"check">> IN q \in Seq(Phase) /\ PushesLast(q) /\ q # <<>>
    BY DEF Phase, PushesLast
<1>2. LET q == <<"write">> IN q \in Seq(Phase) /\ PushesLast(q) /\ q # <<>>
    BY DEF Phase, PushesLast
<1>3. LET q == <<"check", "deploy">> IN q \in Seq(Phase) /\ PushesLast(q) /\ q # <<>>
    BY DEF Phase, PushesLast, Pushing
<1>4. LET q == <<"check", "sync">> IN q \in Seq(Phase) /\ PushesLast(q) /\ q # <<>>
    BY DEF Phase, PushesLast, Pushing
<1>5. LET q == <<"check", "deploy", "sync">> IN q \in Seq(Phase) /\ PushesLast(q) /\ q # <<>>
    BY DEF Phase, PushesLast, Pushing
<1> QED BY <1>1, <1>2, <1>3, <1>4, <1>5

LEMMA ReadSteps ==
    ASSUME ForkInv, NEW s \in Skill, Reads(s) \/ Compares(s) \/ Fetches(s)
    PROVE  ForkInv'
<1>1. skill[s].at \in {"read", "settings", "fetch"} /\ UNCHANGED <<repo, clone, bound, bounds>>
    BY DEF Reads, Compares, Fetches, IsAt, Breaks
<1>2. /\ s \in Running /\ skill[s] \in Invocation /\ Busy(skill[s])
      /\ skill[s].up \in Commits0 /\ ~skill[s].pushed /\ Shared
      /\ Numbers \subseteq Commits0 /\ 0 \notin Numbers /\ 0 \in Commits0
    BY <1>1, UnderWay
<1>3. skill[s].up = 0 /\ PushesLast(skill[s].todo) /\ skill[s].todo # <<>>
    BY <1>1, <1>2 DEF Busy
<1>4. CASE Becomes(s, Done(skill[s])) \/ Becomes(s, Failed(skill[s]))
    BY <1>1, <1>2, <1>4, StepEnds
<1>5. CASE Reads(s)
    <2> DEFINE e == [skill[s] EXCEPT !.at = "settings", !.text = clone.tree.toml]
    <2>1. clone.tree.toml \in SUBSET Name
        BY <1>2 DEF Shared, Tree
    <2>2. /\ e \in Invocation /\ e.at = "settings" /\ e.beside = skill[s].beside
          /\ e.up = skill[s].up /\ e.todo = skill[s].todo /\ e.pushed = skill[s].pushed
        BY <1>2, <2>1 DEF Invocation
    <2>3. Becomes(s, e)
        BY <1>5 DEF Reads
    <2> HIDE DEF e
    <2>4. Busy(e)
        BY <1>2, <1>3, <2>2 DEF Busy
    <2> QED BY <1>1, <1>2, <2>2, <2>3, <2>4, StepOn
<1>6. CASE Fetches(s)
    <2> DEFINE e == [skill[s] EXCEPT !.at = "merge", !.up = repo.upstream]
    <2>1. repo.upstream \in Nat /\ repo.upstream \in Numbers
        BY <1>2 DEF Shared
    <2>2. /\ e \in Invocation /\ e.at = "merge" /\ e.beside = skill[s].beside
          /\ e.up = repo.upstream /\ e.todo = skill[s].todo /\ e.pushed = skill[s].pushed
        BY <1>2, <2>1 DEF Invocation
    <2>3. Becomes(s, e) /\ Head(skill[s].todo) = "upstream"
        BY <1>2, <1>6 DEF Fetches, IsAt, Busy
    <2> HIDE DEF e
    <2>4. Busy(e)
        BY <1>2, <1>3, <2>1, <2>2, <2>3 DEF Busy
    <2> QED BY <1>1, <1>2, <2>1, <2>2, <2>3, <2>4, StepOn
<1>7. CASE Compares(s) /\ ~Becomes(s, Done(skill[s])) /\ ~Becomes(s, Failed(skill[s]))
    <2> DEFINE r == skill[s]
               lacks == Undeclared(r.text)
               plan == Plan(r.text)
    <2>1. skill[s].at = "settings" /\ lacks \in SUBSET Name
        BY <1>2, <1>7 DEF Compares, IsAt, Undeclared, Shared
    <2>2. \/ Becomes(s, Done([r EXCEPT !.todo = plan, !.saw = lacks \cap Block]))
          \/ Becomes(s, Done([r EXCEPT !.todo = <<"check">>]))
          \/ /\ Head(r.todo) = "sync"
             /\ Becomes(s, [r EXCEPT !.todo = <<"write">>, !.at = "pull",
                                     !.text = @ \cup lacks])
        BY <1>7 DEF Compares, Breaks, Doing
    <2>3. CASE \/ Becomes(s, Done([r EXCEPT !.todo = plan, !.saw = lacks \cap Block]))
               \/ Becomes(s, Done([r EXCEPT !.todo = <<"check">>]))
        <3>1. plan \in {<<"check">>, <<"check", "deploy">>, <<"check", "sync">>,
                        <<"check", "deploy", "sync">>}
            BY DEF Plan
        <3>2. PICK todo \in {<<"check">>, <<"check", "deploy">>, <<"check", "sync">>,
                             <<"check", "deploy", "sync">>}, saw \in SUBSET Name :
                 Becomes(s, Done([r EXCEPT !.todo = todo, !.saw = saw]))
            <4>1. r.saw \in SUBSET Name /\ lacks \cap Block \in SUBSET Name
                BY <1>2, <2>1 DEF Invocation
            <4>2. [r EXCEPT !.todo = <<"check">>] = [r EXCEPT !.todo = <<"check">>, !.saw = r.saw]
                BY <1>2 DEF Invocation
            <4>3. CASE Becomes(s, Done([r EXCEPT !.todo = plan, !.saw = lacks \cap Block]))
                <5> HIDE DEF plan, lacks, r
                <5> QED BY <3>1, <4>1, <4>3
            <4>4. CASE Becomes(s, Done([r EXCEPT !.todo = <<"check">>]))
                <5>1. Becomes(s, Done([r EXCEPT !.todo = <<"check">>, !.saw = r.saw]))
                    BY <4>2, <4>4
                <5> HIDE DEF r
                <5> QED BY <4>1, <5>1
            <4> QED BY <2>3, <4>3, <4>4
        <3>3. todo \in Seq(Phase) /\ PushesLast(todo) /\ todo # <<>>
            BY <3>2, Plans
        <3>4. PICK q : q = [r EXCEPT !.todo = todo, !.saw = saw]
            OBVIOUS
        <3>5. /\ q \in Invocation /\ q.todo = todo /\ q.beside = r.beside /\ q.up = r.up
              /\ q.pushed = r.pushed
            BY <1>2, <3>3, <3>4 DEF Invocation
        <3>6. PICK e : e = Done(q)
            OBVIOUS
        <3>7. /\ e \in Invocation /\ PushesLast(e.todo) /\ e.at \in {"pull", "over"}
              /\ e.at = "pull" => e.todo # <<>>
              /\ e.beside = r.beside /\ e.up = r.up /\ e.pushed = r.pushed
            BY <3>3, <3>5, <3>6, DoneGoes
        <3>8. Busy(e) /\ ~e.pushed /\ e.up \in Commits0
            BY <1>2, <1>3, <3>7 DEF Busy
        <3> QED BY <1>1, <1>2, <3>2, <3>4, <3>6, <3>7, <3>8, StepOn
    <2>4. CASE /\ Head(r.todo) = "sync"
               /\ Becomes(s, [r EXCEPT !.todo = <<"write">>, !.at = "pull",
                                       !.text = @ \cup lacks])
        <3>2. PICK todo : todo = <<"write">>
            OBVIOUS
        <3>3. todo \in Seq(Phase) /\ PushesLast(todo) /\ todo # <<>>
            BY <3>2, Plans
        <3>4. PICK e : e = [r EXCEPT !.todo = todo, !.at = "pull", !.text = @ \cup lacks]
            OBVIOUS
        <3>5. /\ e \in Invocation /\ e.at = "pull" /\ e.todo = todo /\ e.beside = r.beside
              /\ e.up = r.up /\ e.pushed = r.pushed
            <4> HIDE DEF lacks
            <4> QED BY <1>2, <2>1, <3>3, <3>4 DEF Invocation
        <3>6. Becomes(s, e)
            BY <2>4, <3>2, <3>4
        <3>7. Busy(e) /\ ~e.pushed /\ e.up \in Commits0
            BY <1>2, <1>3, <3>3, <3>5 DEF Busy
        <3> QED BY <1>1, <1>2, <3>5, <3>6, <3>7, StepOn
    <2> QED BY <2>2, <2>3, <2>4
<1> QED BY <1>4, <1>5, <1>6, <1>7

\* The file and the content a skill has to do with stay while its text does.
LEMMA SameWork ==
    ASSUME NEW s \in Skill, skill'[s].text = skill[s].text
    PROVE  Target(s)' = Target(s) /\ Content(s)' = Content(s)
BY DEF Target, Content

LEMMA TargetTyped ==
    ASSUME NEW s \in Skill, skill[s] \in Invocation
    PROVE  /\ Target(s) \in File
           /\ IF Target(s) = "toml" THEN Content(s) \in SUBSET Name ELSE Content(s) \in Author
BY DEF Target, Content, File, Invocation, Author

LEMMA WriteSteps ==
    ASSUME ForkInv, NEW s \in Skill, Edits(s) \/ Stages(s)
    PROVE  ForkInv'
<1>1. PICK to \in {"stage", "commit"} :
        /\ skill[s].at \in {"edit", "stage"} /\ UNCHANGED <<repo, bound, bounds>>
        /\ clone.head # 0 /\ Becomes(s, [skill[s] EXCEPT !.at = to])
        /\ \/ to = "stage" /\ clone' = [clone EXCEPT !.tree = With(@, Target(s), Content(s))]
           \/ /\ to = "commit" /\ skill[s].at = "stage"
              /\ clone' = [clone EXCEPT !.index = With(@, Target(s), In(Target(s), clone.tree))]
    BY DEF Edits, Stages, IsAt
<1>2. /\ s \in Running /\ skill[s] \in Invocation /\ Busy(skill[s])
      /\ skill[s].up \in Commits0 /\ ~skill[s].pushed /\ Shared /\ skill[s].at \in {"edit", "stage"}
    BY <1>1, UnderWay
<1>3. PICK e : e = [skill[s] EXCEPT !.at = to] /\ Becomes(s, e)
    BY <1>1
<1>4. /\ e \in Invocation /\ Busy(e) /\ e.at = to /\ e.beside = skill[s].beside /\ ~e.pushed
      /\ e.up = skill[s].up /\ e.text = skill[s].text
    <2>1. Head(skill[s].todo) = "write"
        BY <1>2 DEF Busy
    <2> QED BY <1>1, <1>2, <1>3, <2>1, PlaceGoes
<1>5. /\ clone.tree \in Tree /\ clone.index \in Tree
      /\ clone \in [head : Nat, tree : Tree, index : Tree]
    BY <1>2 DEF Shared
<1>6. /\ Target(s) \in File
      /\ IF Target(s) = "toml" THEN Content(s) \in SUBSET Name ELSE Content(s) \in Author
    BY <1>2, TargetTyped
<1>7. /\ skill'[s] = e /\ Target(s)' = Target(s) /\ Content(s)' = Content(s)
    <2>1. skill'[s] = e
        BY <1>1, <1>2, <1>3 DEF ForkInv, Becomes
    <2> QED BY <1>4, <2>1, SameWork
<1>8. CASE to = "stage"
    <2>1. PICK tree : tree = With(clone.tree, Target(s), Content(s))
        OBVIOUS
    <2>2. tree \in Tree /\ In(Target(s), tree) = Content(s)
        BY <1>5, <1>6, <2>1, WithTyped
    <2>3. clone' = [clone EXCEPT !.tree = tree]
        BY <1>1, <1>8, <2>1
    <2>4. /\ clone' \in [head : Nat, tree : Tree, index : Tree] /\ clone'.head = clone.head
          /\ clone'.tree = tree
        BY <1>5, <2>2, <2>3
    <2>5. Shared' /\ Grown /\ Commits0' = Commits0
        BY <1>1, <1>2, <2>4, RepoSame DEF Shared
    <2>6. Kept(s)'
        BY <1>4, <1>7, <1>8, <2>2, <2>4 DEF Kept, In
    <2>7. e.at # "idle" /\ e.up \in Commits0'
        BY <1>2, <1>4, <1>8, <2>5
    <2> QED BY <1>2, <1>3, <1>4, <2>5, <2>6, <2>7, StepOfOne
<1>9. CASE to = "commit"
    <2>1. PICK tree : tree = With(clone.index, Target(s), In(Target(s), clone.tree))
        OBVIOUS
    <2>2. IF Target(s) = "toml" THEN In(Target(s), clone.tree) \in SUBSET Name
          ELSE In(Target(s), clone.tree) \in Author
        BY <1>5 DEF In, Tree
    <2>3. tree \in Tree /\ In(Target(s), tree) = In(Target(s), clone.tree)
        BY <1>5, <1>6, <2>1, <2>2, WithTyped
    <2>4. clone' = [clone EXCEPT !.index = tree] /\ skill[s].at = "stage"
        BY <1>1, <1>9, <2>1
    <2>5. /\ clone' \in [head : Nat, tree : Tree, index : Tree] /\ clone'.head = clone.head
          /\ clone'.index = tree
        BY <1>5, <2>3, <2>4
    <2>6. Shared' /\ Grown /\ Commits0' = Commits0
        BY <1>1, <1>2, <2>5, RepoSame DEF Shared
    <2>7. skill[s].beside = {} => In(Target(s), clone.tree) = Content(s)
        BY <1>1, <2>4 DEF ForkInv, Kept
    <2>8. Kept(s)'
        BY <1>4, <1>7, <1>9, <2>3, <2>5, <2>7 DEF Kept, In
    <2>9. e.at # "idle" /\ e.up \in Commits0'
        BY <1>2, <1>4, <1>9, <2>6
    <2> QED BY <1>2, <1>3, <1>4, <2>6, <2>8, <2>9, StepOfOne
<1> QED BY <1>8, <1>9

LEMMA CommitsStep ==
    ASSUME ForkInv, NEW s \in Skill, Commits(s)
    PROVE  ForkInv'
<1>1. skill[s].at = "commit" /\ UNCHANGED <<bound, bounds>> /\ clone.head # 0
    BY DEF Commits, IsAt
<1>2. /\ s \in Running /\ skill[s] \in Invocation /\ Busy(skill[s])
      /\ skill[s].up \in Commits0 /\ ~skill[s].pushed /\ Shared
      /\ \A i \in Commits0 : i = 0 \/ i \in Numbers
    BY <1>1, UnderWay
<1>3. CASE /\ UNCHANGED <<repo, clone>>
           /\ Becomes(s, Done(skill[s])) \/ Becomes(s, Failed(skill[s]))
    BY <1>1, <1>2, <1>3, StepEnds
<1>4. CASE /\ repo' = [repo EXCEPT !.commits =
                         Append(@, Commit(clone.index, Past(clone.head) \cup {New}))]
           /\ clone' = [clone EXCEPT !.head = New]
           /\ Becomes(s, [skill[s] EXCEPT !.at = "push"])
    <2>1. PICK n : n = New
        OBVIOUS
    <2>2. PICK past : past = Past(clone.head)
        OBVIOUS
    <2>3. past \in SUBSET Numbers /\ (\A j \in past : Past(j) \subseteq past)
        BY <1>1, <1>2, <2>2 DEF Shared, GoodHistory
    <2>4. clone.index \in Tree /\ repo'.commits = Append(repo.commits, Commit(clone.index, past \cup {n}))
        BY <1>2, <1>4, <2>1, <2>2 DEF Shared
    <2>5. /\ n \in Nat \ {0} /\ Len(repo.commits) + 1 = n /\ Len(repo'.commits) = n
          /\ repo'.commits \in Seq([tree : Tree, past : SUBSET Nat])
          /\ \A i \in Numbers : repo'.commits[i] = repo.commits[i]
          /\ repo'.commits[n] = Commit(clone.index, past \cup {n})
          /\ GoodHistory'
        BY <1>2, <2>1, <2>3, <2>4, CommitAdded
    <2>6. /\ repo'.upstream = repo.upstream /\ repo'.origin = repo.origin /\ repo'.made = repo.made
          /\ repo' \in [commits : Seq([tree : Tree, past : SUBSET Nat]), upstream : Nat,
                        origin : Nat, made : BOOLEAN]
        <3> DEFINE C == Seq([tree : Tree, past : SUBSET Nat])
        <3>1. repo \in [commits : C, upstream : Nat, origin : Nat, made : BOOLEAN]
            BY <1>2 DEF Shared
        <3>2. repo' = [repo EXCEPT !.commits = repo'.commits] /\ repo'.commits \in C
            BY <1>2, <1>4, <2>5, <3>1
        <3> HIDE DEF C
        <3>3. /\ repo'.upstream = repo.upstream /\ repo'.origin = repo.origin
              /\ repo'.made = repo.made
              /\ repo' \in [commits : C, upstream : Nat, origin : Nat, made : BOOLEAN]
            BY <3>1, <3>2
        <3> QED BY <3>3 DEF C
    <2>7. /\ clone' \in [head : Nat, tree : Tree, index : Tree] /\ clone'.head = n
          /\ clone'.index = clone.index
        BY <1>2, <1>4, <2>1, <2>5 DEF Shared
    <2>8. Shared'
        <3>1. /\ n \in Commits0' /\ (\A i \in Commits0 : i \in Commits0')
              /\ (\A i \in Numbers : i \in Numbers')
            BY <2>5 DEF Commits0, Numbers
        <3> QED BY <1>1, <1>2, <2>5, <2>6, <2>7, <3>1 DEF Shared
    <2>9. Grown
        <3>1. Past(repo.origin)' = Past(repo.origin)
            BY <1>2, <2>5, <2>6 DEF Shared, Past
        <3> QED BY <2>5, <3>1 DEF Grown
    <2>10. PICK e : e = [skill[s] EXCEPT !.at = "push"] /\ Becomes(s, e)
        BY <1>4
    <2>11. /\ e \in Invocation /\ Busy(e) /\ e.at = "push" /\ e.beside = skill[s].beside
           /\ ~e.pushed /\ e.up = skill[s].up /\ e.up = 0 /\ e.text = skill[s].text
        <3>1. Head(skill[s].todo) = "write"
            BY <1>1, <1>2 DEF Busy
        <3> QED BY <1>1, <1>2, <2>10, <3>1, PlaceGoes
    <2>12. skill'[s] = e /\ Target(s)' = Target(s) /\ Content(s)' = Content(s)
        <3>1. skill'[s] = e
            BY <1>2, <2>10 DEF ForkInv, Becomes
        <3> QED BY <2>11, <3>1, SameWork
    <2>13. Kept(s)'
        <3>1. skill[s].beside = {} => In(Target(s), clone.index) = Content(s)
            BY <1>1 DEF ForkInv, Kept
        <3>2. TreeOf(clone.head)' = clone.index
            BY <2>5, <2>7 DEF TreeOf, Commit
        <3> QED BY <2>11, <2>12, <3>1, <3>2 DEF Kept, In
    <2>14. e.up \in Commits0'
        BY <1>2, <2>8, <2>9, <2>11, HistoryStays
    <2> QED BY <1>2, <2>8, <2>9, <2>10, <2>11, <2>13, <2>14, StepOfOne
<1> QED BY <1>3, <1>4 DEF Commits

LEMMA PushesStep ==
    ASSUME ForkInv, NEW s \in Skill, Pushes(s)
    PROVE  ForkInv'
<1>1. skill[s].at = "push" /\ UNCHANGED <<clone, bound, bounds>>
    BY DEF Pushes, PushFails, IsAt
<1>2. /\ s \in Running /\ skill[s] \in Invocation /\ Busy(skill[s])
      /\ skill[s].up \in Commits0 /\ ~skill[s].pushed /\ Shared
      /\ \A i \in Commits0 : i = 0 \/ i \in Numbers
    BY <1>1, UnderWay
<1>3. CASE PushFails(s)
    BY <1>1, <1>2, <1>3, StepEnds DEF PushFails
<1>4. CASE /\ clone.head # 0 /\ repo.origin \in Past(clone.head)
           /\ repo' = [repo EXCEPT !.origin = clone.head]
           /\ Becomes(s, Done([skill[s] EXCEPT !.pushed = TRUE]))
    <2>1. /\ repo'.commits = repo.commits /\ repo'.upstream = repo.upstream
          /\ repo'.origin = clone.head /\ repo'.made = repo.made
          /\ repo' \in [commits : Seq([tree : Tree, past : SUBSET Nat]), upstream : Nat,
                        origin : Nat, made : BOOLEAN]
        <3> DEFINE C == Seq([tree : Tree, past : SUBSET Nat])
        <3>1. repo \in [commits : C, upstream : Nat, origin : Nat, made : BOOLEAN]
              /\ clone.head \in Nat
            BY <1>2 DEF Shared
        <3> HIDE DEF C
        <3>2. /\ repo'.commits = repo.commits /\ repo'.upstream = repo.upstream
              /\ repo'.origin = clone.head /\ repo'.made = repo.made
              /\ repo' \in [commits : C, upstream : Nat, origin : Nat, made : BOOLEAN]
            BY <1>4, <3>1
        <3> QED BY <3>2 DEF C
    <2>2. /\ Commits0' = Commits0 /\ Numbers' = Numbers
          /\ \A i : Past(i)' = Past(i) /\ TreeOf(i)' = TreeOf(i)
        BY <2>1 DEF Commits0, Numbers, Past, TreeOf
    <2>3. clone.head \in Numbers /\ Past(clone.head) \subseteq Numbers /\ clone.head \in Past(clone.head)
          /\ Past(repo.origin) \subseteq Past(clone.head) /\ repo.origin \in Numbers
        BY <1>2, <1>4 DEF Shared, GoodHistory
    <2>4. repo.made
        <3>1. 0 \notin Numbers
            BY <1>1, UnderWay
        <3> QED BY <1>2, <2>3, <3>1 DEF Shared
    <2>5. Shared'
        <3>1. GoodHistory'
            BY <1>2, <2>2 DEF GoodHistory, Shared
        <3> QED BY <1>1, <1>2, <2>1, <2>2, <2>4, <3>1 DEF Shared
    <2>6. Grown
        BY <1>2, <2>1, <2>2, <2>3 DEF Grown, Shared
    <2>7. PICK q : q = [skill[s] EXCEPT !.pushed = TRUE]
        OBVIOUS
    <2>8. /\ q \in Invocation /\ q.todo = skill[s].todo /\ q.beside = skill[s].beside
          /\ q.up = skill[s].up /\ q.text = skill[s].text /\ q.pushed
        BY <1>2, <2>7 DEF Invocation
    <2>9. /\ PushesLast(skill[s].todo) /\ skill[s].todo # <<>> /\ Head(skill[s].todo) \in Pushing
        BY <1>1, <1>2 DEF Busy, Pushing
    <2>10. PICK e : e = Done(q) /\ Becomes(s, e)
        BY <1>4, <2>7
    <2>11. /\ e \in Invocation /\ PushesLast(e.todo) /\ e.at = "over" /\ e.beside = skill[s].beside
           /\ e.up = skill[s].up /\ e.text = skill[s].text
        BY <2>8, <2>9, <2>10, DoneGoes
    <2>12. Busy(e)
        BY <2>11 DEF Busy
    <2>13. skill'[s] = e /\ Target(s)' = Target(s) /\ Content(s)' = Content(s)
        <3>1. skill'[s] = e
            BY <1>2, <2>10 DEF ForkInv, Becomes
        <3> QED BY <2>11, <3>1, SameWork
    <2>14. Kept(s)'
        BY <2>11, <2>13 DEF Kept
    <2>15. ASSUME e.beside = {} PROVE InHistory(s)'
        <3>1. IF skill[s].up # 0 THEN skill[s].up \in Past(clone.head)
              ELSE In(Target(s), TreeOf(clone.head)) = Content(s)
            BY <1>1, <1>4, <2>11, <2>15 DEF ForkInv, Kept
        <3>2. Past(repo.origin)' = Past(clone.head)
            BY <2>1 DEF Past
        <3>3. TreeOf(clone.head)' = TreeOf(clone.head)
            BY <1>1, <2>1 DEF TreeOf
        <3>4. CASE skill[s].up # 0
            BY <2>11, <2>13, <3>1, <3>2, <3>4 DEF InHistory
        <3>5. CASE skill[s].up = 0
            <4>1. PICK i \in Past(clone.head) : i = clone.head
                BY <2>3
            <4>2. TreeOf(i)' = TreeOf(clone.head)
                BY <2>2, <4>1
            <4>3. In(Target(s), TreeOf(i))' = Content(s)'
                BY <2>13, <3>1, <3>5, <4>2 DEF In
            <4> QED BY <2>11, <2>13, <3>2, <3>5, <4>1, <4>3 DEF InHistory
        <3> QED BY <3>4, <3>5
    <2> QED BY <1>2, <2>2, <2>5, <2>6, <2>10, <2>11, <2>12, <2>14, <2>15, StepOfOne
<1> QED BY <1>3, <1>4 DEF Pushes

LEMMA DeploysStep ==
    ASSUME ForkInv, NEW s \in Skill, Deploys(s)
    PROVE  ForkInv'
<1>1. /\ skill[s].at = "deploy" /\ UNCHANGED <<repo, clone, bounds>>
      /\ bound' = (clone.tree.toml \cap Block) \cup (bound \cap Comment)
    BY DEF Deploys, IsAt
<1>2. /\ s \in Running /\ skill[s] \in Invocation /\ Busy(skill[s])
      /\ skill[s].up \in Commits0 /\ Shared
    BY <1>1, UnderWay
<1>3. Shared' /\ Grown /\ Commits0' = Commits0
    BY <1>1, <1>2, RepoSame DEF Shared, Name
<1>4. PICK e : e = Done(skill[s]) /\ Becomes(s, e)
    BY DEF Deploys
<1>5. /\ e \in Invocation /\ Busy(e) /\ e.at \in {"pull", "over"} /\ ~e.pushed
      /\ e.beside = skill[s].beside /\ e.up = skill[s].up
    BY <1>1, <1>2, <1>4, PhaseEnds
<1>6. Kept(s)'
    <2>1. skill'[s] = e
        BY <1>2, <1>4 DEF Becomes, ForkInv
    <2> QED BY <1>5, <2>1 DEF Kept
<1> QED BY <1>2, <1>3, <1>4, <1>5, <1>6, StepOfOne

IsRecord(r) ==
    r = [commits |-> r.commits, upstream |-> r.upstream, origin |-> r.origin, made |-> r.made]

\* A commit on a closed past, to which one of the two heads may move.
LEMMA CommitStep ==
    ASSUME Shared, NEW t \in Tree, NEW n, n = New,
           NEW past \in SUBSET Numbers, \A j \in past : Past(j) \subseteq past,
           repo'.commits = Append(repo.commits, Commit(t, past \cup {n})),
           repo'.upstream \in {repo.upstream, n}, repo'.origin \in {repo.origin, n},
           repo'.made = repo.made, IsRecord(repo'),
           repo'.origin = n => repo.made /\ Past(repo.origin) \subseteq past,
           clone' \in [head : Nat, tree : Tree, index : Tree],
           clone'.head \in Commits0 \cup {n}, bound' = bound,
           bounds' \in [edits : Nat, losses : Nat, removed : SUBSET Name]
    PROVE  Shared' /\ Grown /\ TreeOf(n)' = t /\ Past(n)' = past \cup {n}
<1>1. /\ n \in Nat \ {0} /\ Len(repo.commits) + 1 = n /\ Len(repo'.commits) = n
      /\ repo'.commits \in Seq([tree : Tree, past : SUBSET Nat])
      /\ \A i \in Numbers : repo'.commits[i] = repo.commits[i]
      /\ repo'.commits[n] = Commit(t, past \cup {n})
      /\ GoodHistory'
    <2>1. /\ Shared /\ t \in Tree /\ n = New /\ past \in SUBSET Numbers
          /\ \A j \in past : Past(j) \subseteq past
          /\ repo'.commits = Append(repo.commits, Commit(t, past \cup {n}))
        OBVIOUS
    <2> QED BY ONLY <2>1, CommitAdded
<1>2. repo' \in [commits : Seq([tree : Tree, past : SUBSET Nat]), upstream : Nat, origin : Nat,
                 made : BOOLEAN]
    <2> DEFINE C == Seq([tree : Tree, past : SUBSET Nat])
    <2>1. repo \in [commits : C, upstream : Nat, origin : Nat, made : BOOLEAN]
        BY DEF Shared
    <2>2. repo'.commits \in C
        BY <1>1
    <2> HIDE DEF C
    <2>3. /\ repo'.commits \in C /\ repo'.upstream \in Nat /\ repo'.origin \in Nat
          /\ repo'.made \in BOOLEAN
        BY <1>1, <2>1, <2>2
    <2>4. repo' \in [commits : C, upstream : Nat, origin : Nat, made : BOOLEAN]
        BY <2>3 DEF IsRecord
    <2> QED BY <2>4 DEF C
<1>3. /\ n \in Commits0' /\ n \in Numbers'
      /\ (\A i \in Commits0 : i \in Commits0') /\ (\A i \in Numbers : i \in Numbers' /\ i # n)
      /\ 0 \notin Numbers
    BY <1>1 DEF Commits0, Numbers
<1>4. Shared'
    BY <1>1, <1>2, <1>3 DEF Shared
<1>5. TreeOf(n)' = t /\ Past(n)' = past \cup {n}
    BY <1>1 DEF TreeOf, Past, Commit
<1>6. Past(repo.origin) \subseteq Past(repo.origin)'
    <2>1. CASE repo'.origin = n
        BY <1>1, <1>5, <2>1 DEF Past
    <2>2. CASE repo'.origin = repo.origin
        <3>1. repo.origin = 0 \/ repo.origin \in Numbers
            BY <1>1 DEF Shared, Commits0, Numbers
        <3> QED BY <1>1, <2>2, <3>1 DEF Past
    <2> QED BY <2>1, <2>2
<1>7. Grown
    <2>1. Len(repo.commits) \in Nat
        BY DEF Shared
    <2>2. Len(repo.commits) <= Len(repo'.commits)
        BY <1>1, <2>1
    <2>3. \A i \in Numbers : repo'.commits[i] = repo.commits[i]
        BY <1>1
    <2> QED BY <1>6, <2>2, <2>3, Zenon DEF Grown
<1> QED BY <1>4, <1>5, <1>7

LEMMA MergesStep ==
    ASSUME ForkInv, NEW s \in Skill, Merges(s)
    PROVE  ForkInv'
<1> DEFINE up == skill[s].up
           head == clone.head
           tree == Merged(head, up)
<1>1. skill[s].at = "merge" /\ UNCHANGED <<bound, bounds>> /\ head # 0
    BY DEF Merges, IsAt
<1>2. /\ s \in Running /\ skill[s] \in Invocation /\ Busy(skill[s])
      /\ up \in Commits0 /\ ~skill[s].pushed /\ Shared
      /\ Numbers \subseteq Commits0 /\ Commits0 \subseteq Nat
      /\ \A i \in Commits0 : i = 0 \/ i \in Numbers
    BY <1>1, UnderWay
<1>3. head \in Numbers /\ up \in Numbers /\ up # 0
    BY <1>1, <1>2 DEF Busy, Shared
<1>4. TreeOf(head) \in Tree /\ TreeOf(up) \in Tree /\ tree \in Tree
    BY <1>2, <1>3, TreesTyped, JoinedTyped DEF Merged
<1>5. /\ up \in Past(up) /\ Past(up) \subseteq Numbers /\ Past(head) \subseteq Numbers
      /\ \A j \in Past(up) : Past(j) \subseteq Past(up)
      /\ \A j \in Past(head) : Past(j) \subseteq Past(head)
    BY <1>2, <1>3 DEF Shared, GoodHistory
<1>6. CASE /\ UNCHANGED <<repo, clone>>
           /\ Becomes(s, Done(skill[s])) \/ Becomes(s, Failed(skill[s]))
    BY <1>1, <1>2, <1>6, StepEnds
<1>7. ASSUME Shared', Grown, clone'.head # 0, up \in Past(clone.head)',
             Becomes(s, [skill[s] EXCEPT !.at = "push"])
      PROVE  ForkInv'
    <2>1. PICK e : e = [skill[s] EXCEPT !.at = "push"]
        OBVIOUS
    <2>2. /\ e \in Invocation /\ e.at = "push" /\ e.beside = skill[s].beside /\ e.up = up
          /\ e.pushed = skill[s].pushed /\ e.todo = skill[s].todo
        BY <1>2, <2>1 DEF Invocation
    <2>3. Busy(e)
        BY <1>1, <1>2, <2>2 DEF Busy
    <2>4. skill'[s] = e
        BY <1>2, <1>7, <2>1 DEF ForkInv, Becomes
    <2>5. Kept(s)'
        BY <1>3, <1>7, <2>2, <2>4 DEF Kept
    <2>6. e.up \in Commits0' /\ ~e.pushed /\ e.at # "idle"
        BY <1>2, <1>7, <2>2, HistoryStays
    <2> QED BY <1>2, <1>7, <2>1, <2>2, <2>3, <2>5, <2>6, StepOfOne
<1>8. CASE /\ clone' = MovedTo(up, TreeOf(up)) /\ UNCHANGED repo
           /\ Becomes(s, [skill[s] EXCEPT !.at = "push"])
    <2>1. clone' \in [head : Nat, tree : Tree, index : Tree] /\ clone'.head = up
        <3>1. clone'.head = up
            BY <1>8 DEF MovedTo
        <3> QED BY <1>2, <1>3, <1>4, <1>8, <3>1, MovesTyped
    <2>2. Shared' /\ Grown /\ \A i : Past(i)' = Past(i)
        BY <1>1, <1>2, <1>8, <2>1, RepoSame DEF Shared
    <2>3. PICK u : u = up
        OBVIOUS
    <2>4. clone'.head = u /\ u \in Past(u)' /\ up = u
        BY <1>5, <2>1, <2>2, <2>3
    <2>5. up \in Past(clone.head)'
        BY <2>4
    <2> QED BY <1>3, <1>7, <1>8, <2>1, <2>2, <2>5
<1>9. CASE /\ \E past \in {Past(head) \cup Past(up), Past(up)} :
                 repo' = [repo EXCEPT !.commits = Append(@, Commit(tree, past \cup {New}))]
           /\ clone' = MovedTo(New, tree) /\ Becomes(s, [skill[s] EXCEPT !.at = "push"])
    <2>1. PICK n : n = New
        OBVIOUS
    <2>2. PICK past \in {Past(head) \cup Past(up), Past(up)} :
             repo' = [repo EXCEPT !.commits = Append(@, Commit(tree, past \cup {n}))]
        BY <1>9, <2>1
    <2>3. /\ past \in SUBSET Numbers /\ up \in past
          /\ \A j \in past : Past(j) \subseteq past
        BY <1>5, <2>2
    <2>4. PICK t \in Tree : t = tree
        BY <1>4
    <2>5. /\ repo'.commits = Append(repo.commits, Commit(t, past \cup {n}))
          /\ repo'.upstream = repo.upstream /\ repo'.origin = repo.origin
          /\ repo'.made = repo.made /\ IsRecord(repo')
        <3> HIDE DEF tree
        <3> QED BY <1>2, <2>2, <2>4 DEF Shared, IsRecord
    <2>6. n \in Nat \ {0}
        BY <1>2, <2>1 DEF Shared, New
    <2>7. clone' \in [head : Nat, tree : Tree, index : Tree] /\ clone'.head = n
        <3>1. clone'.head = n
            BY <1>9, <2>1 DEF MovedTo
        <3>2. MovedTo(n, t) \in [head : Nat, tree : Tree, index : Tree]
            BY <1>2, <2>4, <2>6, MovesTyped
        <3> QED BY <1>9, <2>1, <2>4, <3>1, <3>2
    <2>8. repo'.origin = n => repo.made /\ Past(repo.origin) \subseteq past
        BY <1>2, <2>1, <2>5 DEF Shared, New, Commits0
    <2>9. Shared' /\ Grown /\ Past(n)' = past \cup {n}
        <3>1. bounds' \in [edits : Nat, losses : Nat, removed : SUBSET Name] /\ bound' = bound
            BY <1>1, <1>2 DEF Shared
        <3> QED BY ONLY <1>2, <2>1, <2>3, <2>4, <2>5, <2>7, <2>8, <3>1, CommitStep
    <2>10. up \in Past(clone.head)'
        BY <2>3, <2>7, <2>9
    <2> QED BY <1>7, <1>9, <2>6, <2>7, <2>9, <2>10
<1> QED BY <1>6, <1>8, <1>9 DEF Merges, Breaks
-----------------------------------------------------------------------------
\* A step of somebody else, who leaves the clone alone or takes it away.
LEMMA StepOfNone ==
    ASSUME ForkInv, Shared', Grown, skill' = skill, clone' = clone \/ clone' = NoClone
    PROVE  ForkInv'
<1>1. Running' = Running /\ Beside'
    BY DEF Running, ForkInv, Beside
<1>2. \A s \in Skill : skill'[s].up \in Commits0' /\ Busy(skill'[s])
    BY HistoryStays DEF ForkInv
<1>3. ASSUME NEW s \in Skill PROVE Kept(s)'
    <2>1. Target(s)' = Target(s) /\ Content(s)' = Content(s)
        BY SameWork
    <2>2. CASE clone' = NoClone
        BY <2>2 DEF Kept, NoClone
    <2>3. CASE clone' = clone /\ clone.head = 0
        BY <2>3 DEF Kept
    <2>4. CASE clone' = clone /\ clone.head # 0
        <3>1. clone.head \in Numbers
            BY <2>4 DEF ForkInv, Shared, Commits0, Numbers
        <3>2. TreeOf(clone.head)' = TreeOf(clone.head) /\ Past(clone.head)' = Past(clone.head)
            BY <2>4, <3>1, HistoryStays DEF ForkInv
        <3>3. Kept(s)
            BY DEF ForkInv
        <3> QED BY <2>1, <2>4, <3>2, <3>3 DEF Kept, In
    <2> QED BY <2>2, <2>3, <2>4
<1>4. PushedStays'
    BY HistoryStays DEF ForkInv, PushedStays
<1> QED BY <1>1, <1>2, <1>3, <1>4 DEF ForkInv

LEMMA OnTyped ==
    ASSUME Shared, NEW author \in Author, NEW i \in Commits0, NEW c \in On(author, i)
    PROVE  \E t \in Tree : c = Commit(t, Past(i) \cup {New})
<1>1. TreeOf(i) \in Tree
    BY TreesTyped
<1>2. PICK t : /\ c = Commit(t, Past(i) \cup {New})
               /\ \/ t = [TreeOf(i) EXCEPT !.code = author]
                  \/ \E names \in Toggled(TreeOf(i).toml) : t = [TreeOf(i) EXCEPT !.toml = names]
    BY DEF On
<1>3. \A names \in Toggled(TreeOf(i).toml) : names \in SUBSET Name
    BY <1>1 DEF Toggled, Tree, Name
<1>4. t \in Tree
    BY <1>1, <1>2, <1>3 DEF Tree
<1> QED BY <1>2, <1>4

LEMMA AuthorsStep ==
    ASSUME ForkInv, OwnerPushes \/ UpstreamGoesOn
    PROVE  ForkInv'
<1>1. /\ Shared /\ UNCHANGED <<clone, bound, skill>>
      /\ bounds.edits > 0 /\ bounds' = [bounds EXCEPT !.edits = @ - 1]
    BY DEF ForkInv, OwnerPushes, UpstreamGoesOn, Others
<1>2. PICK n : n = New
    OBVIOUS
<1>3. PICK i \in Commits0 : \E c \in On("owner", i) \cup On("upstream", i) :
        \/ /\ i = repo.origin /\ repo.made
           /\ repo' = [repo EXCEPT !.commits = Append(@, c), !.origin = n]
        \/ /\ i = repo.upstream
           /\ repo' = [repo EXCEPT !.commits = Append(@, c), !.upstream = n]
    <2>1. repo.origin \in Commits0 /\ repo.upstream \in Commits0
        BY <1>1 DEF Shared, Commits0, Numbers
    <2> QED BY <1>2, <2>1 DEF OwnerPushes, UpstreamGoesOn
<1>4. PICK past : past = Past(i)
    OBVIOUS
<1>5. PICK t \in Tree :
        \/ /\ i = repo.origin /\ repo.made
           /\ repo' = [repo EXCEPT !.commits = Append(@, Commit(t, past \cup {n})), !.origin = n]
        \/ /\ i = repo.upstream
           /\ repo' = [repo EXCEPT !.commits = Append(@, Commit(t, past \cup {n})),
                                   !.upstream = n]
    <2>1. PICK c \in On("owner", i) \cup On("upstream", i) :
            \/ /\ i = repo.origin /\ repo.made
               /\ repo' = [repo EXCEPT !.commits = Append(@, c), !.origin = n]
            \/ /\ i = repo.upstream
               /\ repo' = [repo EXCEPT !.commits = Append(@, c), !.upstream = n]
        BY <1>3
    <2>2. \E t \in Tree : c = Commit(t, past \cup {n})
        BY <1>1, <1>2, <1>4, OnTyped DEF Author
    <2> QED BY <2>1, <2>2
<1>6. past \in SUBSET Numbers /\ \A j \in past : Past(j) \subseteq past
    <2>1. i = 0 \/ i \in Numbers
        BY <1>1 DEF Shared, Commits0, Numbers
    <2>2. CASE i = 0
        BY <1>4, <2>2 DEF Past
    <2>3. CASE i \in Numbers
        BY <1>1, <1>4, <2>3 DEF Shared, GoodHistory
    <2> QED BY <2>1, <2>2, <2>3
<1>7. /\ repo'.commits = Append(repo.commits, Commit(t, past \cup {n}))
      /\ repo'.upstream \in {repo.upstream, n} /\ repo'.origin \in {repo.origin, n}
      /\ repo'.made = repo.made /\ IsRecord(repo')
      /\ repo'.origin = repo.origin \/ (i = repo.origin /\ repo.made)
    <2> DEFINE C == Seq([tree : Tree, past : SUBSET Nat])
               longer == Append(repo.commits, Commit(t, past \cup {n}))
    <2>1. repo \in [commits : C, upstream : Nat, origin : Nat, made : BOOLEAN]
        BY <1>1 DEF Shared
    <2>2. \/ i = repo.origin /\ repo.made /\ repo' = [repo EXCEPT !.commits = longer, !.origin = n]
          \/ i = repo.upstream /\ repo' = [repo EXCEPT !.commits = longer, !.upstream = n]
        BY <1>5
    <2> HIDE DEF C, longer
    <2>3. CASE repo' = [repo EXCEPT !.commits = longer, !.origin = n]
        <3>1. /\ repo'.commits = longer /\ repo'.upstream = repo.upstream /\ repo'.origin = n
              /\ repo'.made = repo.made
            BY <2>1, <2>3
        <3>2. IsRecord(repo')
            BY <2>1, <2>3 DEF IsRecord
        <3>3. repo'.origin = repo.origin \/ (i = repo.origin /\ repo.made)
            BY <2>1, <2>2, <3>1
        <3> QED BY <3>1, <3>2, <3>3 DEF longer
    <2>4. CASE repo' = [repo EXCEPT !.commits = longer, !.upstream = n]
        <3>1. /\ repo'.commits = longer /\ repo'.upstream = n /\ repo'.origin = repo.origin
              /\ repo'.made = repo.made
            BY <2>1, <2>4
        <3>2. IsRecord(repo')
            BY <2>1, <2>4 DEF IsRecord
        <3> QED BY <3>1, <3>2 DEF longer
    <2> QED BY <2>2, <2>3, <2>4
<1>8. repo'.origin = n => repo.made /\ Past(repo.origin) \subseteq past
    <2>1. repo.origin # n
        BY <1>1, <1>2 DEF Shared, New, Commits0
    <2> QED BY <1>4, <1>7, <2>1
<1>9. /\ clone' \in [head : Nat, tree : Tree, index : Tree]
      /\ clone'.head \in Commits0 \cup {n} /\ bound' = bound
      /\ bounds' \in [edits : Nat, losses : Nat, removed : SUBSET Name]
    BY <1>1 DEF Shared
<1>10. Shared' /\ Grown
    BY ONLY <1>1, <1>2, <1>5, <1>6, <1>7, <1>8, <1>9, CommitStep
<1> QED BY <1>1, <1>10, StepOfNone

LEMMA WorkerSteps ==
    ASSUME ForkInv, Patched \/ ContainerLost
    PROVE  ForkInv'
<1>1. Shared /\ UNCHANGED <<repo, skill>>
    BY DEF ForkInv, Patched, ContainerLost
<1>2. bound' \subseteq Name
    BY <1>1 DEF Patched, ContainerLost, Toggled, Name, Shared
<1>3. bounds' \in [edits : Nat, losses : Nat, removed : SUBSET Name]
    <2>1. CASE Patched
        <3> DEFINE left == bounds.edits - 1
                   names == bounds.removed \cup (bound \ bound')
        <3>1. left \in Nat /\ names \in SUBSET Name
            BY <1>1, <2>1 DEF Patched, Shared
        <3>2. bounds' = [bounds EXCEPT !.edits = left, !.removed = names]
            BY <2>1 DEF Patched
        <3>3. bounds \in [edits : Nat, losses : Nat, removed : SUBSET Name]
            BY <1>1 DEF Shared
        <3> HIDE DEF left, names
        <3> QED BY <3>1, <3>2, <3>3
    <2>2. CASE ContainerLost
        <3>1. bounds.losses > 0 /\ bounds' = [bounds EXCEPT !.losses = @ - 1]
            BY <2>2 DEF ContainerLost
        <3> QED BY <1>1, <3>1 DEF Shared
    <2> QED BY <2>1, <2>2
<1>4. clone' = clone \/ clone' = NoClone
    BY DEF Patched, ContainerLost
<1>5. clone' \in [head : Nat, tree : Tree, index : Tree] /\ clone'.head \in Commits0
    <2>1. NoTree \in Tree
        BY DEF NoTree, Tree, Author
    <2>2. NoClone \in [head : Nat, tree : Tree, index : Tree] /\ NoClone.head = 0
        BY <2>1 DEF NoClone
    <2>3. 0 \in Commits0
        BY <1>1 DEF Shared, Commits0
    <2> QED BY <1>1, <1>4, <2>2, <2>3 DEF Shared
<1>6. Shared' /\ Grown
    BY <1>1, <1>2, <1>3, <1>5 DEF Shared, GoodHistory, Past, Numbers, Commits0, Grown
<1> QED BY <1>1, <1>4, <1>6, StepOfNone
-----------------------------------------------------------------------------
LEMMA ForkStep == ForkInv /\ ForkNext => ForkInv'
BY StartsStep, InitSteps, ClonesStep, ReadSteps, WriteSteps, CommitsStep, PushesStep,
   DeploysStep, MergesStep, AuthorsStep, WorkerSteps DEF ForkNext

LEMMA ForkStays == ForkInv /\ UNCHANGED fork => ForkInv'
<1> SUFFICES ASSUME ForkInv, UNCHANGED fork PROVE ForkInv'
    OBVIOUS
<1>1. UNCHANGED <<repo, clone, bound, bounds>> /\ skill' = skill
    BY DEF fork
<1>2. Shared' /\ Grown
    BY <1>1, NothingGrows DEF ForkInv
<1> QED BY <1>1, <1>2, StepOfNone

LEMMA ForkTypes == ForkInv => ForkTypeOK
BY DEF ForkInv, Shared, ForkTypeOK
-----------------------------------------------------------------------------
(***************************************************************************)
(* CodexBridge.  A caller gets the answer to its own request, and no answer*)
(* is lost, for every set of calls and of ids.  The invariant adds that the*)
(* process only works on requests that have an id, and that an open call can*)
(* be found: under its id is the call itself, or else another call has been*)
(* made under that id.                                                     *)
(***************************************************************************)
\* A call has an id from the time it is read.
HaveIds ==
    \A c \in Request :
       /\ req[c].at = "new" => req[c].id = NoOne /\ req[c].got = <<>> /\ c \notin tasks
       /\ req[c].at # "new" => req[c].id \in ReqId

\* An open call that shares its id with no other is in its table.
AreFound == \A c \in Request : IsOpen(c) /\ Unshared(c) => entry[Table(c)][req[c].id] = c

BridgeInv == BridgeTypeOK /\ HaveIds /\ AreFound /\ OwnAnswer /\ NoAnswerLost
-----------------------------------------------------------------------------
LineKinds == {"note", "answer", "timeout"}
TableNames == {"single", "stream"}
OwnAnswers(s, c) == \A k \in DOMAIN s : s[k].kind = "answer" => s[k].of = c

\* One more frame, which is an answer only if it is the call's own.
LEMMA OwnAnswersAppend ==
    ASSUME NEW s \in Seq(Line), NEW f \in Line, NEW c \in Request,
           OwnAnswers(s, c), f.kind = "answer" => f.of = c
    PROVE  OwnAnswers(Append(s, f), c)
<1>1. Append(s, f) \in Seq(Line) /\ DOMAIN Append(s, f) = 1 .. Len(s) + 1
      /\ DOMAIN s = 1 .. Len(s)
  OBVIOUS
<1>2. ASSUME NEW k \in 1 .. Len(s) + 1, Append(s, f)[k].kind = "answer"
      PROVE  Append(s, f)[k].of = c
  <2>1. CASE k = Len(s) + 1
    BY <1>2, <2>1
  <2>2. CASE k # Len(s) + 1
    <3>1. k \in 1 .. Len(s) /\ Append(s, f)[k] = s[k]
      BY <2>2, <1>2
    <3> QED  BY <3>1, <1>1, <1>2 DEF OwnAnswers
  <2> QED  BY <2>1, <2>2
<1> QED  BY <1>1, <1>2 DEF OwnAnswers

\* Writing to a client changes nothing of its call but what it got.
LEMMA WrittenFacts ==
    ASSUME BridgeTypeOK, NEW c \in Request, NEW of \in Request, NEW kind \in LineKinds
    PROVE  /\ Written(c, kind, of) \in Asked
           /\ Written(c, kind, of).at = req[c].at /\ Written(c, kind, of).id = req[c].id
           /\ ~IsOpen(c) => Written(c, kind, of) = req[c]
           /\ OwnAnswers(req[c].got, c) /\ (kind = "answer" => of = c) => OwnAnswers(Written(c, kind, of).got, c)
<1> DEFINE f == [kind |-> kind, of |-> of]
<1>1. f \in Line
  BY DEF LineKinds, Line
<1>2. req[c] \in Asked /\ req[c].got \in Seq(Line)
  BY DEF BridgeTypeOK, Asked
<1>3. Append(req[c].got, f) \in Seq(Line)
  BY <1>1, <1>2
<1>4. CASE req[c].gone \/ ~IsOpen(c)
  BY <1>2, <1>4 DEF Written
<1>5. CASE ~(req[c].gone \/ ~IsOpen(c))
  <2>1. Written(c, kind, of) = [req[c] EXCEPT !.got = Append(@, f)]
    BY <1>5 DEF Written
  <2>2. Written(c, kind, of).got = Append(req[c].got, f)
    BY <2>1, <1>2 DEF Asked
  <2>3. OwnAnswers(req[c].got, c) /\ (kind = "answer" => of = c) => OwnAnswers(Append(req[c].got, f), c)
    BY <1>1, <1>2, OwnAnswersAppend
  <2> HIDE DEF f
  <2> QED  BY <2>1, <2>2, <2>3, <1>2, <1>3, <1>5 DEF Asked
<1> QED  BY <1>4, <1>5

\* While no call gets an id, the same calls share theirs.
LEMMA UnsharedStays ==
    ASSUME \A d \in Request : req'[d].id = req[d].id
    PROVE  \A c \in Request : Unshared(c)' <=> Unshared(c)
BY DEF Unshared

\* The start: nobody has an id.
LEMMA BridgeStarts == BridgeInit => BridgeInv
BY BridgeAssumption DEF BridgeInit, BridgeInv, BridgeTypeOK, HaveIds, AreFound, OwnAnswer, NoAnswerLost, NoEntry, Asked, IsOpen

\* What the steps that end calls leave of the invariant: every call is as it
\* was or is over, and an open one has its entry and its work still.
RequestsStay ==
    /\ req' \in [Request -> Asked]
    /\ \A d \in Request :
          /\ req'[d].id = req[d].id
          /\ req'[d].at = "new" <=> req[d].at = "new"
          /\ OwnAnswers(req[d].got, d) => OwnAnswers(req'[d].got, d) \/ ~Unshared(d)
          /\ req[d].at = "new" => req'[d].got = req[d].got
          /\ req'[d].at = "open" => IsOpen(d)

LEMMA RequestsStayKeeps ==
    ASSUME BridgeInv, RequestsStay, tasks' \subseteq tasks, tells' \in 0 .. MaxTells,
           server' \in {"up", "stopping", "down"},
           entry' \in [TableNames -> [ReqId -> Request \cup {NoOne}]],
           \A t \in TableNames, i \in ReqId : entry'[t][i] # NoOne =>
               entry'[t][i] = entry[t][i] /\ IsOpen(entry[t][i])',
           \A c \in Request : IsOpen(c)' /\ Unshared(c) =>
               c \in tasks' /\ entry'[Table(c)][req[c].id] = entry[Table(c)][req[c].id]
    PROVE  BridgeInv'
<1>1. \A c \in Request : Unshared(c)' <=> Unshared(c)
  BY UnsharedStays DEF RequestsStay
<1>2. BridgeTypeOK'
  BY DEF BridgeInv, BridgeTypeOK, RequestsStay, TableNames, Table, IsOpen
<1>3. HaveIds'
  BY DEF BridgeInv, HaveIds, RequestsStay
<1>4. AreFound'
  BY <1>1 DEF BridgeInv, AreFound, RequestsStay, IsOpen, Table
<1>5. OwnAnswer'
  BY <1>1 DEF BridgeInv, OwnAnswer, RequestsStay, OwnAnswers
<1>6. NoAnswerLost'
  BY <1>1 DEF NoAnswerLost
<1> QED  BY <1>2, <1>3, <1>4, <1>5, <1>6 DEF BridgeInv

LEMMA BodyReadKeeps ==
    ASSUME BridgeInv, NEW c \in Request, NEW i \in ReqId, BodyRead(c, i)
    PROVE  BridgeInv'
<1> USE BridgeAssumption DEF BridgeInv
<1>1. /\ req' \in [Request -> Asked]
      /\ \A d \in Request \ {c} : /\ req'[d].id = req[d].id /\ req'[d].at = req[d].at
                               /\ req'[d].got = req[d].got
      /\ req'[c].id = i /\ req'[c].at = "open" /\ req'[c].got = req[c].got
      /\ req[c].at = "new" /\ req[c].id = NoOne /\ req[c].got = <<>>
  <2> DEFINE r == [req[c] EXCEPT !.at = "open", !.id = i]
  <2>1. req' = [req EXCEPT ![c] = r] /\ req[c].at = "new" /\ req \in [Request -> Asked]
    BY DEF BodyRead, BridgeTypeOK
  <2>2. r \in Asked /\ r.id = i /\ r.at = "open" /\ r.got = req[c].got
    BY <2>1 DEF Asked
  <2> HIDE DEF r
  <2> QED  BY <2>1, <2>2 DEF HaveIds
<1>2. \A d \in Request \ {c} : req[d].at # "new" /\ Unshared(d)' => Unshared(d) /\ req[d].id # i
  BY <1>1 DEF HaveIds, Unshared
<1>3. entry' = [entry EXCEPT ![Table(c)][i] = c] /\ Table(c) \in TableNames
  BY DEF BodyRead, Table, TableNames
<1>4. BridgeTypeOK'
  <2>1. entry \in [TableNames -> [ReqId -> Request \cup {NoOne}]]
    BY DEF BridgeTypeOK, TableNames
  <2>2. /\ entry' \in [TableNames -> [ReqId -> Request \cup {NoOne}]]
        /\ \A t \in TableNames, j \in ReqId :
              entry'[t][j] = IF t = Table(c) /\ j = i THEN c ELSE entry[t][j]
    <3> HIDE DEF BridgeInv
    <3> QED  BY <2>1, <1>3
  <2>3. ASSUME NEW t \in TableNames, NEW j \in ReqId, entry'[t][j] # NoOne
        PROVE  /\ req'[entry'[t][j]].at = "open" /\ Table(entry'[t][j]) = t
               /\ req'[entry'[t][j]].id = j
    <3>1. CASE t = Table(c) /\ j = i
      <4>1. entry'[t][j] = c
        BY <3>1, <2>2
      <4> QED  BY <4>1, <3>1, <1>1 DEF IsOpen
    <3>2. CASE ~(t = Table(c) /\ j = i)
      <4>1. entry'[t][j] = entry[t][j] /\ entry[t][j] \in Request
        <5>1. entry'[t][j] = entry[t][j]
          BY <3>2, <2>2
        <5>2. entry[t][j] \in Request \cup {NoOne}
          BY <2>1
        <5> QED  BY <5>1, <5>2, <2>3
      <4>2. IsOpen(entry[t][j]) /\ Table(entry[t][j]) = t /\ req[entry[t][j]].id = j
        BY <4>1, <2>3 DEF BridgeTypeOK, TableNames
      <4>3. entry[t][j] # c
        BY <4>2, <1>1 DEF IsOpen
      <4> QED  BY <4>1, <4>2, <4>3, <1>1 DEF IsOpen
    <3> QED  BY <3>1, <3>2
  <2>4. \A t \in TableNames, j \in ReqId :
           LET e == entry'[t][j]
           IN  e # NoOne => req'[e].at = "open" /\ Table(e) = t /\ req'[e].id = j
    BY <2>3
  <2>5. tasks' \subseteq Request /\ tells' \in 0 .. MaxTells /\ server' \in {"up", "stopping", "down"}
    BY DEF BodyRead, BridgeTypeOK
  <2> HIDE DEF BridgeInv
  <2> QED  BY <2>2, <2>4, <2>5, <1>1 DEF BridgeTypeOK, TableNames, IsOpen
<1>5. HaveIds'
  BY <1>1 DEF BodyRead, HaveIds
<1>6. AreFound'
  BY <1>1, <1>2, <1>3 DEF AreFound, BridgeTypeOK, IsOpen, Table, TableNames, HaveIds
<1>7. OwnAnswer'
  BY <1>1, <1>2 DEF OwnAnswer, HaveIds
<1>8. NoAnswerLost'
  BY <1>1, <1>2 DEF BodyRead, NoAnswerLost, IsOpen
<1> QED  BY <1>4, <1>5, <1>6, <1>7, <1>8

LEMMA TellsKeeps ==
    ASSUME BridgeInv, NEW c \in Request, Tells(c)
    PROVE  BridgeInv'
<1> USE DEF BridgeInv
<1>1. \A d \in Request : req'[d] \in {req[d], Written(d, "note", c)}
  BY DEF Tells
<1>2. ASSUME NEW d \in Request
      PROVE  /\ Written(d, "note", c) \in Asked
             /\ Written(d, "note", c).at = req[d].at /\ Written(d, "note", c).id = req[d].id
             /\ OwnAnswers(req[d].got, d) => OwnAnswers(Written(d, "note", c).got, d)
             /\ ~IsOpen(d) => Written(d, "note", c) = req[d]
  BY WrittenFacts DEF LineKinds
<1>3. ASSUME NEW d \in Request
      PROVE  /\ req'[d] \in Asked
             /\ req'[d].id = req[d].id /\ req'[d].at = req[d].at
             /\ OwnAnswers(req[d].got, d) => OwnAnswers(req'[d].got, d)
             /\ ~IsOpen(d) => req'[d].got = req[d].got
  <2>1. req[d] \in Asked
    BY DEF BridgeTypeOK
  <2> QED  BY <2>1, <1>1, <1>2
<1>4. RequestsStay
  <2>1. req' = [d \in Request |-> req'[d]]
    BY DEF Tells
  <2> QED  BY <2>1, <1>3 DEF RequestsStay, IsOpen
<1>5. UNCHANGED <<entry, tasks, server>> /\ tells' \in 0 .. MaxTells
  BY BridgeAssumption DEF Tells, BridgeTypeOK
<1>6. \A d \in Request : IsOpen(d)' <=> IsOpen(d)
  BY <1>3 DEF IsOpen
<1>7. /\ \A t \in TableNames, i \in ReqId : entry[t][i] # NoOne => entry[t][i] \in Request /\ IsOpen(entry[t][i])
      /\ \A d \in Request : IsOpen(d) /\ Unshared(d) => d \in tasks
  BY DEF BridgeTypeOK, TableNames, NoAnswerLost
<1> QED  BY <1>4, <1>5, <1>6, <1>7, RequestsStayKeeps DEF BridgeTypeOK, TableNames, IsOpen

\* Deleting the entry of an id leaves every other entry.
LEMMA WithoutFacts ==
    ASSUME BridgeTypeOK, NEW t \in TableNames, NEW i \in ReqId
    PROVE  /\ Without(t, i) \in [TableNames -> [ReqId -> Request \cup {NoOne}]]
           /\ Without(t, i)[t][i] = NoOne
           /\ \A u \in TableNames, j \in ReqId :
                 ~(u = t /\ j = i) => Without(t, i)[u][j] = entry[u][j]
BY DEF BridgeTypeOK, TableNames, Without

\* A call that ends, with its entry or that of a call of the same id; c is
\* the call the process had for it, if that is at its end too.
LEMMA OneEndsKeeps ==
    ASSUME BridgeInv, NEW d \in Request, IsOpen(d),
           NEW r \in Asked, r.id = req[d].id, r.at \in {"over", "left"},
           OwnAnswers(req[d].got, d) => OwnAnswers(r.got, d) \/ ~Unshared(d),
           req' = [req EXCEPT ![d] = r], entry' = Without(Table(d), req[d].id),
           tasks' = tasks \/ \E c \in tasks : tasks' = tasks \ {c} /\ req[c].id = req[d].id,
           UNCHANGED <<tells, server>>
    PROVE  BridgeInv'
<1> DEFINE i == req[d].id
           t == Table(d)
<1>1. /\ BridgeTypeOK /\ HaveIds /\ AreFound /\ NoAnswerLost
      /\ i \in ReqId /\ t \in TableNames /\ entry' = Without(t, i)
      /\ \A c \in Request : req[c] \in Asked
  BY DEF BridgeInv, HaveIds, IsOpen, Table, TableNames, BridgeTypeOK
<1>2. /\ req'[d] = r /\ \A c \in Request \ {d} : req'[c] = req[c]
      /\ req' \in [Request -> Asked]
  BY <1>1 DEF BridgeTypeOK
<1>3. RequestsStay
  BY <1>1, <1>2 DEF RequestsStay, IsOpen
<1>4. \A c \in Request : IsOpen(c)' => c # d /\ IsOpen(c)
  BY <1>2 DEF IsOpen
<1>5. ASSUME NEW u \in TableNames, NEW j \in ReqId, entry'[u][j] # NoOne
      PROVE  entry'[u][j] = entry[u][j] /\ IsOpen(entry[u][j])'
  <2>1. ~(u = t /\ j = i) /\ entry'[u][j] = entry[u][j]
    BY <1>1, <1>5, WithoutFacts
  <2>2. entry[u][j] \in Request /\ IsOpen(entry[u][j]) /\ Table(entry[u][j]) = u
        /\ req[entry[u][j]].id = j
    BY <2>1, <1>1, <1>5 DEF BridgeTypeOK, TableNames
  <2>3. entry[u][j] # d
    BY <2>1, <2>2
  <2> QED  BY <2>1, <2>2, <2>3, <1>2 DEF IsOpen
<1>6. ASSUME NEW c \in Request, IsOpen(c)', Unshared(c)
      PROVE  c \in tasks' /\ entry'[Table(c)][req[c].id] = entry[Table(c)][req[c].id]
  <2>1. c # d /\ IsOpen(c) /\ req[c].id # i /\ req[c].id \in ReqId /\ Table(c) \in TableNames
    BY <1>1, <1>4, <1>6 DEF Unshared, HaveIds, IsOpen, Table, TableNames
  <2>2. c \in tasks
    BY <2>1, <1>1, <1>6 DEF NoAnswerLost
  <2> QED  BY <2>1, <2>2, <1>1, WithoutFacts
<1>7. /\ tasks' \subseteq tasks /\ tells' \in 0 .. MaxTells /\ server' \in {"up", "stopping", "down"}
      /\ entry' \in [TableNames -> [ReqId -> Request \cup {NoOne}]]
  BY <1>1, WithoutFacts DEF BridgeTypeOK
<1> HIDE DEF i, t
<1> QED  BY <1>3, <1>5, <1>6, <1>7, RequestsStayKeeps

LEMMA RepliesKeeps ==
    ASSUME BridgeInv, NEW c \in Request, ProcessReplies(c)
    PROVE  BridgeInv'
<1> DEFINE i == req[c].id
           d == Holder(i)
<1>1. BridgeTypeOK /\ HaveIds /\ AreFound /\ NoAnswerLost /\ c \in tasks /\ req[c].at # "new" /\ i \in ReqId
      /\ tasks' = tasks \ {c} /\ UNCHANGED <<tells, server>>
  BY DEF BridgeInv, HaveIds, ProcessReplies
<1>2. d \in Request \cup {NoOne}
      /\ (d # NoOne => d \in Request /\ IsOpen(d) /\ req[d].id = i)
      /\ (d = NoOne => \A t \in TableNames : entry[t][i] = NoOne)
  <2>1. \A t \in TableNames : entry[t][i] \in Request \cup {NoOne}
          /\ (entry[t][i] # NoOne => IsOpen(entry[t][i]) /\ req[entry[t][i]].id = i)
    BY <1>1 DEF BridgeTypeOK, TableNames
  <2> HIDE DEF i
  <2> QED  BY <2>1 DEF Holder, TableNames
<1>3. CASE d = NoOne
  <2>1. UNCHANGED <<req, entry>>
    BY <1>3 DEF ProcessReplies
  <2>2. ~(IsOpen(c) /\ Unshared(c))
    BY <1>1, <1>2, <1>3, BridgeAssumption DEF AreFound, Table, TableNames
  <2>3. \A e \in Request : IsOpen(e) /\ Unshared(e) => e \in tasks'
    BY <1>1, <2>2 DEF NoAnswerLost
  <2>4. RequestsStay
    BY <2>1, <1>1 DEF RequestsStay, BridgeTypeOK, IsOpen
  <2> QED  BY <2>1, <2>3, <2>4, <1>1, RequestsStayKeeps DEF BridgeTypeOK, TableNames, IsOpen
<1>4. CASE d # NoOne
  <2>1. d \in Request /\ IsOpen(d) /\ req[d].id = i
    BY <1>2, <1>4
  <2> DEFINE w == Written(d, "answer", c)
             r == [w EXCEPT !.at = "over"]
  <2>2. entry' = Without(Table(d), i) /\ req' = [req EXCEPT ![d] = r]
    BY <1>4 DEF ProcessReplies
  <2>3. w \in Asked /\ w.id = req[d].id
        /\ (OwnAnswers(req[d].got, d) /\ c = d => OwnAnswers(w.got, d))
    BY <2>1, <1>1, WrittenFacts DEF LineKinds
  <2>4. r \in Asked /\ r.id = req[d].id /\ r.at = "over" /\ r.got = w.got
    BY <2>3 DEF Asked
  <2>5. c = d \/ ~Unshared(d)
    BY <2>1 DEF Unshared
  <2> HIDE DEF w, r, d
  <2>6. OwnAnswers(req[d].got, d) => OwnAnswers(r.got, d) \/ ~Unshared(d)
    BY <2>3, <2>4, <2>5
  <2> HIDE DEF i
  <2>7. \E k \in tasks : tasks' = tasks \ {k} /\ req[k].id = req[d].id
    BY <1>1, <2>1 DEF i
  <2> QED  BY <2>1, <2>2, <2>4, <2>6, <2>7, <1>1, OneEndsKeeps
<1> QED  BY <1>3, <1>4

LEMMA GivesUpKeeps ==
    ASSUME BridgeInv, NEW c \in Request, GivesUp(c)
    PROVE  BridgeInv'
<1> DEFINE w == Written(c, "timeout", c)
           r == [w EXCEPT !.at = "over"]
<1>1. IsOpen(c) /\ entry' = Without(Table(c), req[c].id) /\ req' = [req EXCEPT ![c] = r]
      /\ UNCHANGED <<tasks, tells, server>>
  BY DEF GivesUp
<1>2. w \in Asked /\ w.id = req[c].id /\ (OwnAnswers(req[c].got, c) => OwnAnswers(w.got, c))
  BY WrittenFacts DEF LineKinds, BridgeInv
<1> HIDE DEF w
<1>3. r \in Asked /\ r.id = req[c].id /\ r.at = "over" /\ r.got = w.got
  BY <1>2 DEF Asked
<1> HIDE DEF r
<1> QED  BY <1>1, <1>2, <1>3, OneEndsKeeps

LEMMA ClientGoesKeeps ==
    ASSUME BridgeInv, NEW c \in Request, ClientGoes(c)
    PROVE  BridgeInv'
<1>1. IsOpen(c) /\ req[c] \in Asked /\ req \in [Request -> Asked] /\ UNCHANGED <<tasks, tells, server>>
  BY DEF ClientGoes, BridgeInv, BridgeTypeOK
<1>2. CASE req' = [req EXCEPT ![c].gone = TRUE] /\ UNCHANGED entry
  <2>1. req'[c] \in Asked /\ req'[c].at = req[c].at /\ req'[c].id = req[c].id
        /\ req'[c].got = req[c].got /\ req' = [req EXCEPT ![c] = req'[c]]
    BY <1>1, <1>2 DEF Asked
  <2>2. RequestsStay /\ \A d \in Request : IsOpen(d)' <=> IsOpen(d)
    BY <2>1, <1>1 DEF RequestsStay, IsOpen
  <2>3. /\ \A t \in TableNames, i \in ReqId : entry[t][i] # NoOne => entry[t][i] \in Request /\ IsOpen(entry[t][i])
        /\ \A d \in Request : IsOpen(d) /\ Unshared(d) => d \in tasks
    BY DEF BridgeInv, BridgeTypeOK, TableNames, NoAnswerLost
  <2> QED  BY <2>2, <2>3, <1>1, <1>2, RequestsStayKeeps DEF BridgeInv, BridgeTypeOK, TableNames, IsOpen
<1>3. CASE c \in Streams /\ req' = [req EXCEPT ![c].at = "left"]
           /\ entry' = Without("stream", req[c].id)
  <2> DEFINE r == [req[c] EXCEPT !.at = "left"]
  <2>1. r \in Asked /\ r.id = req[c].id /\ r.at = "left" /\ r.got = req[c].got
        /\ req' = [req EXCEPT ![c] = r] /\ Table(c) = "stream"
    BY <1>1, <1>3 DEF Asked, Table
  <2> HIDE DEF r
  <2> QED  BY <2>1, <1>1, <1>3, OneEndsKeeps
<1> QED  BY <1>2, <1>3 DEF ClientGoes

LEMMA GoesDownKeeps == ASSUME BridgeInv, GoesDown PROVE BridgeInv'
<1>1. ASSUME NEW d \in Request
      PROVE  /\ req'[d] \in Asked /\ req'[d].id = req[d].id /\ req'[d].got = req[d].got
             /\ req'[d].at # "open" /\ (req'[d].at = "new" <=> req[d].at = "new")
  <2>1. req[d] \in Asked
    BY DEF BridgeInv, BridgeTypeOK
  <2>2. CASE IsOpen(d)
    <3>1. req'[d] = [req[d] EXCEPT !.at = "cut"]
      BY <2>2 DEF GoesDown
    <3> QED  BY <2>1, <2>2, <3>1 DEF Asked, IsOpen
  <2>3. CASE ~IsOpen(d)
    BY <2>1, <2>3 DEF GoesDown, IsOpen
  <2> QED  BY <2>2, <2>3
<1>2. RequestsStay
  BY <1>1 DEF GoesDown, RequestsStay
<1>3. entry' \in [TableNames -> [ReqId -> Request \cup {NoOne}]]
      /\ \A t \in TableNames, i \in ReqId : entry'[t][i] = NoOne
  BY DEF GoesDown, NoEntry, TableNames
<1>4. tasks' \subseteq tasks /\ tells' \in 0 .. MaxTells /\ server' \in {"up", "stopping", "down"}
  BY DEF GoesDown, BridgeInv, BridgeTypeOK
<1>5. \A c \in Request : ~IsOpen(c)'
  BY <1>1 DEF IsOpen
<1> QED  BY <1>2, <1>3, <1>4, <1>5, RequestsStayKeeps

\* A step that leaves the calls and the tables as they are.
LEMMA NothingNewKeeps ==
    ASSUME BridgeInv, UNCHANGED <<req, entry, tasks, tells>>, server' \in {"up", "stopping", "down"}
    PROVE  BridgeInv'
BY DEF BridgeInv, BridgeTypeOK, HaveIds, AreFound, OwnAnswer, NoAnswerLost, IsOpen, Unshared, Table

LEMMA BridgeStep == BridgeInv /\ [BridgeNext]_bridge => BridgeInv'
<1> SUFFICES ASSUME BridgeInv, [BridgeNext]_bridge PROVE BridgeInv'
  OBVIOUS
<1>1. ASSUME NEW c \in Request, NEW i \in ReqId, BodyRead(c, i) PROVE BridgeInv'
  BY <1>1, BodyReadKeeps
<1>2. ASSUME NEW c \in Request, Tells(c) PROVE BridgeInv'
  BY <1>2, TellsKeeps
<1>3. ASSUME NEW c \in Request, ProcessReplies(c) PROVE BridgeInv'
  BY <1>3, RepliesKeeps
<1>4. ASSUME NEW c \in Request, GivesUp(c) PROVE BridgeInv'
  BY <1>4, GivesUpKeeps
<1>5. ASSUME NEW c \in Request, ClientGoes(c) PROVE BridgeInv'
  BY <1>5, ClientGoesKeeps
<1>6. CASE ProcessExits
  BY <1>6, GoesDownKeeps DEF ProcessExits
<1>7. CASE Signalled
  BY <1>7, NothingNewKeeps DEF Signalled
<1>8. CASE Emptied
  BY <1>8, GoesDownKeeps DEF Emptied
<1>9. CASE UNCHANGED bridge
  BY <1>9, NothingNewKeeps DEF bridge, BridgeInv, BridgeTypeOK
<1> QED  BY <1>1, <1>2, <1>3, <1>4, <1>5, <1>6, <1>7, <1>8, <1>9 DEF BridgeNext

Crosstalk(c, d) == Heard(c, d) /\ c # d /\ d \in Streams /\ IsOpen(d) /\ Unshared(d)

\* What a call got is either what it had got, or a frame more of one kind.
LEMMA HeardByTells ==
    ASSUME BridgeInv, BridgeNext, NEW c \in Request, NEW d \in Request, Heard(c, d)
    PROVE  Tells(d) /\ \E i \in Waiting : entry.stream[i] = c /\ Cardinality(Waiting) = 1
<1> DEFINE theNote == [kind |-> "note", of |-> d]
<1>1. /\ req[c] \in Asked /\ req \in [Request -> Asked] /\ req[c].got \in Seq(Line)
      /\ theNote \in Line
  BY DEF BridgeInv, BridgeTypeOK, Asked, Line
<1>2. \A f \in Line : Append(req[c].got, f) # req[c].got
  BY <1>1
<1>3. \A f \in Line : Append(req[c].got, f) = Append(req[c].got, theNote) => f = theNote
  BY <1>1
<1>4. req'[c].got = Append(req[c].got, theNote) /\ req'[c].got # req[c].got
  BY <1>1, <1>2 DEF Heard
<1> HIDE DEF theNote
<1>5. ASSUME NEW k \in LineKinds, NEW e \in Request, NEW at \in {"over", "left"}, k # "note"
      PROVE  req'[c] # [Written(c, k, e) EXCEPT !.at = at]
  <2> DEFINE f == [kind |-> k, of |-> e]
  <2>1. f \in Line /\ f # theNote
    BY <1>5 DEF LineKinds, Line, theNote
  <2>2. Written(c, k, e) \in Asked
        /\ (Written(c, k, e).got = req[c].got \/ Written(c, k, e).got = Append(req[c].got, f))
    <3>1. Written(c, k, e) \in Asked
      BY WrittenFacts DEF BridgeInv
    <3>2. CASE req[c].gone \/ ~IsOpen(c)
      BY <3>1, <3>2 DEF Written
    <3>3. CASE ~(req[c].gone \/ ~IsOpen(c))
      <4>1. Written(c, k, e) = [req[c] EXCEPT !.got = Append(@, f)]
        BY <3>3 DEF Written
      <4> HIDE DEF f
      <4> QED  BY <3>1, <4>1, <1>1 DEF Asked
    <3> QED  BY <3>2, <3>3
  <2> HIDE DEF f
  <2>3. [Written(c, k, e) EXCEPT !.at = at].got = Written(c, k, e).got
    BY <2>2 DEF Asked
  <2> QED  BY <2>1, <2>2, <2>3, <1>3, <1>4
<1>6. ASSUME NEW e \in Request, NEW r, req' = [req EXCEPT ![e] = r], r # req'[c] \/ r.got = req[c].got
      PROVE  FALSE
  BY <1>6, <1>1, <1>4
<1>7. ASSUME NEW e \in Request, NEW i \in ReqId, BodyRead(e, i) PROVE FALSE
  <2>1. [req[c] EXCEPT !.at = "open", !.id = i].got = req[c].got
    BY <1>1 DEF Asked
  <2> QED  BY <2>1, <1>4, <1>7 DEF BodyRead
<1>8. ASSUME NEW e \in Request, ProcessReplies(e) PROVE FALSE
  <2> DEFINE h == Holder(req[e].id)
  <2>1. req # req'
    BY <1>4
  <2>2. req' = [req EXCEPT ![h] = [Written(h, "answer", e) EXCEPT !.at = "over"]]
    BY <2>1, <1>8 DEF ProcessReplies
  <2> HIDE DEF h
  <2>3. CASE h = c
    <3>1. req'[c] = [Written(c, "answer", e) EXCEPT !.at = "over"]
      BY <2>2, <2>3, <1>1
    <3> QED  BY <3>1, <1>5 DEF LineKinds
  <2>4. CASE h # c
    BY <2>2, <2>4, <1>1, <1>4
  <2> QED  BY <2>3, <2>4
<1>9. ASSUME NEW e \in Request, GivesUp(e) PROVE FALSE
  <2>1. req' = [req EXCEPT ![e] = [Written(e, "timeout", e) EXCEPT !.at = "over"]]
    BY <1>9 DEF GivesUp
  <2>2. e = c
    BY <2>1, <1>1, <1>4
  <2>3. req'[c] = [Written(c, "timeout", c) EXCEPT !.at = "over"]
    BY <2>1, <2>2, <1>1
  <2> QED  BY <2>3, <1>5 DEF LineKinds
<1>10. ASSUME NEW e \in Request, ClientGoes(e) PROVE FALSE
  <2>1. [req[c] EXCEPT !.gone = TRUE].got = req[c].got
        /\ [req[c] EXCEPT !.at = "left"].got = req[c].got
    BY <1>1 DEF Asked
  <2> QED  BY <2>1, <1>1, <1>4, <1>10 DEF ClientGoes
<1>11. ASSUME GoesDown PROVE FALSE
  <2>1. [req[c] EXCEPT !.at = "cut"].got = req[c].got
    BY <1>1 DEF Asked
  <2> QED  BY <2>1, <1>4, <1>11 DEF GoesDown
<1>12. \E e \in Request : Tells(e)
  BY <1>4, <1>7, <1>8, <1>9, <1>10, <1>11 DEF BridgeNext, ProcessExits, Signalled, Emptied
<1>13. PICK e \in Request : Tells(e)
  BY <1>12
<1>14. /\ Cardinality(Waiting) = 1 /\ \E i \in Waiting : entry.stream[i] = c
       /\ req'[c].got = Append(req[c].got, [kind |-> "note", of |-> e])
  <2> DEFINE told == Cardinality(Waiting) = 1 /\ \E i \in Waiting : entry.stream[i] = c
             w == IF told THEN Written(c, "note", e) ELSE req[c]
  <2>1. req'[c] = w
    BY <1>13 DEF Tells
  <2>2. w \in Asked
    BY <1>1, WrittenFacts DEF LineKinds, BridgeInv
  <2> HIDE DEF w
  <2>3. req'[c].got = w.got
    BY <2>1
  <2>4. told /\ w = Written(c, "note", e) /\ w # req[c]
    BY <2>3, <1>4 DEF w
  <2>5. w = [req[c] EXCEPT !.got = Append(@, [kind |-> "note", of |-> e])]
    BY <2>4 DEF Written
  <2>6. w.got = Append(req[c].got, [kind |-> "note", of |-> e])
    BY <2>5, <1>1 DEF Asked
  <2> QED  BY <2>3, <2>4, <2>6
<1>15. [kind |-> "note", of |-> e] \in Line
  BY DEF Line
<1>16. e = d
  BY <1>3, <1>4, <1>14, <1>15 DEF theNote
<1> QED  BY <1>13, <1>14, <1>16

\* A stream that is told of the call of another one is the only one that waits.
LEMMA StepNoCrosstalk ==
    ASSUME BridgeInv, [BridgeNext]_bridge
    PROVE  [\A c, d \in Request :
               Heard(c, d) /\ c # d => ~(d \in Streams /\ IsOpen(d) /\ Unshared(d))]_bridge
<1> SUFFICES ASSUME BridgeNext, NEW c \in Request, NEW d \in Request, Crosstalk(c, d)
             PROVE  FALSE
  BY DEF Crosstalk
<1>1. PICK i \in Waiting : entry.stream[i] = c /\ Cardinality(Waiting) = 1
  BY HeardByTells DEF Crosstalk
<1>2. req[d].id \in ReqId /\ entry.stream[req[d].id] = d
  BY DEF Crosstalk, BridgeInv, HaveIds, AreFound, Table, IsOpen
<1>3. req[d].id \in Waiting
  BY <1>2, BridgeAssumption DEF Waiting
<1>4. IsFiniteSet(Waiting)
  BY BridgeAssumption, FS_Subset DEF Waiting
<1>5. PICK k : Waiting = {k}
  BY <1>1, <1>4, FS_Singleton
<1> QED  BY <1>1, <1>2, <1>3, <1>5 DEF Crosstalk
-----------------------------------------------------------------------------
(***************************************************************************)
(* Notices.  What the owner is told of a firing, for any number of firings,*)
(* of rows and of devices, and any limits of the retries.  Firings have    *)
(* nothing in common but the subscriptions, so the invariant is one of each*)
(* firing by itself.  It adds to the property whom the attempt that runs   *)
(* has not told yet, and that the attempts that threw are among those the  *)
(* service counts.                                                         *)
(***************************************************************************)
\* Of one firing: its instance, the rows it has noted, whom it has told how
\* often, and the attempts that threw.
Sound(b, noted, told, threw) ==
    /\ \A r \in Recipient :
          /\ told[r] <= threw + 1
          /\ b.at \notin {"telling", "over"} \/ r \in b.left \/ ~b.reached => told[r] <= threw
    /\ b.reached => b.at \in {"telling", "over"}
    /\ b.at \in {"none", "inbox", "projects", "synthesize"} => threw = 0
    /\ b.at \in {"send", "telling", "over"} => threw <= b.tries /\ b.tries <= Limit["send"]
    /\ threw <= Limit["send"] + 1
    /\ b.via # "log" /\ (b.sent \/ TRUE \in noted) => \E r \in Recipient : told[r] > 0
    /\ b.at = "none" => noted = {} /\ ~b.sent
    /\ b.at = "over" /\ b.reached => noted # {}

NoticeInv ==
    /\ NoticeTypeOK
    /\ \A f \in Firing : Sound(brief[f], notices[f], got[f], redone[f])

LEMMA NoticesStart == NoticeInit => NoticeInv
<1> SUFFICES ASSUME NoticeInit PROVE NoticeInv
    OBVIOUS
<1> USE NoticesAssumption DEF NoticeInit
<1>1. NoBrief \in Briefs
    BY DEF NoBrief, Briefs, Steps
<1>2. NoticeTypeOK
    BY <1>1 DEF NoticeTypeOK
<1>3. \A f \in Firing : Sound(NoBrief, {}, [r \in Recipient |-> 0], 0)
    BY DEF Sound, NoBrief, Steps
<1> QED BY <1>2, <1>3 DEF NoticeInv

OthersTyped ==
    /\ fired' \subseteq Firing /\ phones' \subseteq Phone
    /\ asked' \in [Firing -> [Flow -> Channel \cup {Unset}]]

\* A step that no instance notices.
LEMMA NoFiring ==
    ASSUME NoticeInv, UNCHANGED <<brief, notices, got, redone>>, OthersTyped
    PROVE  NoticeInv'
BY DEF NoticeInv, NoticeTypeOK, OthersTyped

\* A step that concerns one firing.
LEMMA OneFiring ==
    ASSUME NoticeInv, NEW f \in Firing, NEW b \in Briefs, NEW noted \in SUBSET BOOLEAN,
           NEW told \in [Recipient -> Nat], NEW threw \in Nat,
           brief' = [brief EXCEPT ![f] = b], notices' = [notices EXCEPT ![f] = noted],
           got' = [got EXCEPT ![f] = told], redone' = [redone EXCEPT ![f] = threw],
           Sound(b, noted, told, threw), OthersTyped
    PROVE  NoticeInv'
<1>1. NoticeTypeOK'
    BY DEF NoticeInv, NoticeTypeOK, OthersTyped
<1>2. ASSUME NEW g \in Firing
      PROVE  Sound(brief'[g], notices'[g], got'[g], redone'[g])
    <2>1. CASE g = f
        BY <2>1 DEF NoticeInv, NoticeTypeOK
    <2>2. CASE g # f
        <3>1. /\ brief'[g] = brief[g] /\ notices'[g] = notices[g]
              /\ got'[g] = got[g] /\ redone'[g] = redone[g]
            BY <2>2 DEF NoticeInv, NoticeTypeOK
        <3> QED BY <3>1 DEF NoticeInv
    <2> QED BY <2>1, <2>2
<1> QED BY <1>1, <1>2 DEF NoticeInv

\* What holds of a firing before each of its steps.
LEMMA BeforeStep ==
    ASSUME NoticeInv, NEW f \in Firing
    PROVE  /\ brief[f] \in Briefs /\ notices[f] \in SUBSET BOOLEAN
           /\ got[f] \in [Recipient -> Nat] /\ redone[f] \in Nat
           /\ Sound(brief[f], notices[f], got[f], redone[f])
           /\ fired \subseteq Firing /\ phones \subseteq Phone
           /\ asked \in [Firing -> [Flow -> Channel \cup {Unset}]]
BY DEF NoticeInv, NoticeTypeOK

LEMMA Unmoved ==
    ASSUME NoticeInv, NEW f \in Firing
    PROVE  /\ UNCHANGED notices => notices' = [notices EXCEPT ![f] = notices[f]]
           /\ UNCHANGED got => got' = [got EXCEPT ![f] = got[f]]
           /\ UNCHANGED redone => redone' = [redone EXCEPT ![f] = redone[f]]
BY DEF NoticeInv, NoticeTypeOK

LEMMA FiresKeeps ==
    ASSUME NoticeInv, NEW f \in Firing, CronFires(f)
    PROVE  NoticeInv'
<1>1. OthersTyped
    BY BeforeStep DEF CronFires, OthersTyped
<1> QED BY <1>1, NoFiring DEF CronFires

\* What holds of a firing when its numbers are what they were.
Same(f) ==
    /\ notices' = [notices EXCEPT ![f] = notices[f]] /\ got' = [got EXCEPT ![f] = got[f]]
    /\ redone' = [redone EXCEPT ![f] = redone[f]]

\* An attempt that has told nobody, of an instance that was sound.
LEMMA NobodyYet ==
    ASSUME NEW c, NEW noted, NEW told \in [Recipient -> Nat], NEW threw \in Nat,
           Limit["send"] \in Nat, c.tries \in Nat, ~c.reached,
           c.at \in Steps \cup {"dead"}, c.at # "send" /\ c.at # "dead" => threw = 0,
           c.at = "send" => threw <= c.tries /\ c.tries <= Limit["send"],
           threw <= Limit["send"] + 1, \A r \in Recipient : told[r] <= threw,
           c.via # "log" /\ (c.sent \/ TRUE \in noted) => \E r \in Recipient : told[r] > 0
    PROVE  Sound(c, noted, told, threw)
<1>1. c.at \notin {"none", "telling", "over"}
    BY DEF Steps
<1>2. \A r \in Recipient :
          /\ told[r] <= threw + 1
          /\ c.at \notin {"telling", "over"} \/ r \in c.left \/ ~c.reached => told[r] <= threw
    OBVIOUS
<1>3. c.at \in {"none", "inbox", "projects", "synthesize"} => threw = 0
    OBVIOUS
<1>4. c.at \in {"send", "telling", "over"} => threw <= c.tries /\ c.tries <= Limit["send"]
    BY <1>1
<1> QED BY <1>1, <1>2, <1>3, <1>4 DEF Sound

LEMMA CreatedSound ==
    ASSUME NEW b \in Briefs, NEW channel \in Channel, NEW noted, NEW told, NEW threw,
           Sound(b, noted, told, threw), b.at = "none"
    PROVE  /\ Created(b, channel) \in Briefs
           /\ Sound(Created(b, channel), noted, told, threw)
<1> DEFINE c == Created(b, channel)
<1>1. /\ c \in Briefs /\ c.at = "inbox" /\ c.via = channel /\ c.left = b.left
      /\ c.sent = b.sent /\ c.reached = b.reached /\ c.tries = b.tries
    BY DEF Briefs, Steps, Created
<1> HIDE DEF c
<1> QED BY <1>1 DEF Sound, c

LEMMA HandlesKeeps ==
    ASSUME NoticeInv, NEW f \in Firing, NEW w \in Flow, Handles(f, w)
    PROVE  NoticeInv'
<1>1. OthersTyped /\ asked[f][w] \in Channel
    BY BeforeStep DEF Handles, OthersTyped
<1>2. CASE UNCHANGED brief
    BY <1>1, <1>2, NoFiring DEF Handles
<1>3. CASE brief[f].at = "none" /\ brief' = [brief EXCEPT ![f] = Created(brief[f], asked[f][w])]
    <2>1. Same(f)
        BY Unmoved DEF Handles, Same
    <2> QED BY <1>1, <1>3, <2>1, BeforeStep, CreatedSound, OneFiring DEF Same
<1> QED BY <1>2, <1>3 DEF Handles

LEMMA ReturnedSound ==
    ASSUME NEW b \in Briefs, NEW noted, NEW told \in [Recipient -> Nat], NEW threw \in Nat,
           Sound(b, noted, told, threw), b.at \in {"inbox", "projects", "synthesize"}
    PROVE  /\ Returned(b) \in Briefs
           /\ Sound(Returned(b), noted, told, threw)
<1> DEFINE c == Returned(b)
<1>1. /\ c \in Briefs /\ c.at \in {"projects", "synthesize", "send"} /\ c.via = b.via
      /\ (c.sent <=> b.sent) /\ (c.reached <=> b.reached) /\ c.tries = 0
    BY DEF Briefs, Steps, Returned
<1>2. Limit["send"] \in Nat
    BY NoticesAssumption DEF Steps
<1> HIDE DEF c
<1>3. threw = 0 /\ ~b.reached /\ \A r \in Recipient : told[r] <= threw
    BY DEF Sound
<1>4. c.via # "log" /\ (c.sent \/ TRUE \in noted) => \E r \in Recipient : told[r] > 0
    BY <1>1 DEF Sound
<1>5. c.at \in Steps \cup {"dead"} /\ c.at # "dead"
    BY <1>1 DEF Steps
<1>6. Sound(c, noted, told, threw)
    <2>1. c.tries \in Nat /\ ~c.reached /\ (c.at # "send" /\ c.at # "dead" => threw = 0)
        BY <1>1, <1>3
    <2>2. /\ c.at = "send" => threw <= c.tries /\ c.tries <= Limit["send"]
          /\ threw <= Limit["send"] + 1
        BY <1>1, <1>2, <1>3
    <2> QED BY <1>2, <1>3, <1>4, <1>5, <2>1, <2>2, NobodyYet, Zenon
<1> QED BY <1>1, <1>6 DEF c

LEMMA ReturnsKeeps ==
    ASSUME NoticeInv, NEW f \in Firing, StepReturns(f)
    PROVE  NoticeInv'
<1>1. OthersTyped /\ Same(f)
    BY BeforeStep, Unmoved DEF StepReturns, OthersTyped, Same
<1>2. /\ brief' = [brief EXCEPT ![f] = Returned(brief[f])]
      /\ brief[f].at \in {"inbox", "projects", "synthesize"}
    BY DEF StepReturns
<1> QED BY <1>1, <1>2, BeforeStep, ReturnedSound, OneFiring DEF Same

\* An attempt that throws, with or without a row of its own.
LEMMA AgainSound ==
    ASSUME NEW b \in Briefs, NEW noted, NEW told \in [Recipient -> Nat], NEW threw \in Nat,
           Sound(b, noted, told, threw), b.at \in Steps \cup {"telling"},
           NEW more, TRUE \in more => b.sent \/ TRUE \in noted
    PROVE  /\ Again(b) \in Briefs
           /\ Sound(Again(b), more, told, IF b.reached THEN threw + 1 ELSE threw)
<1> DEFINE c == Again(b)
           s == Step(b)
           next == IF b.tries < Limit[s] THEN s ELSE "dead"
           n == IF b.reached THEN threw + 1 ELSE threw
<1>1. s \in Steps /\ Limit[s] \in Nat /\ Limit["send"] \in Nat
      /\ s = (IF b.at = "telling" THEN "send" ELSE b.at)
    BY NoticesAssumption DEF Step, Steps
<1>2. c = [NoBrief EXCEPT !.at = next, !.tries = b.tries + 1, !.via = b.via]
    BY DEF Again
<1>3. b.tries \in Nat /\ next \in Steps \cup {"dead"}
    BY <1>1 DEF Briefs
<1> HIDE DEF c, s, next
<1>4. /\ c \in Briefs /\ c.at = next
      /\ c.tries = b.tries + 1 /\ c.via = b.via /\ c.sent = FALSE /\ c.reached = FALSE
    <2>1. b.via \in Channel \cup {Unset} /\ b.tries + 1 \in Nat
        BY <1>3 DEF Briefs
    <2>2. c = [at |-> next, tries |-> b.tries + 1, via |-> b.via, left |-> {},
               sent |-> FALSE, reached |-> FALSE]
        BY <1>2 DEF NoBrief
    <2> QED BY <1>3, <2>1, <2>2 DEF Briefs
<1>5. n \in Nat /\ \A r \in Recipient : told[r] <= n
    BY DEF Sound
<1>6. c.via # "log" /\ (c.sent \/ TRUE \in more) => \E r \in Recipient : told[r] > 0
    BY <1>4 DEF Sound
<1>7. c.tries \in Nat /\ ~c.reached
    BY <1>3, <1>4
<1>8. CASE s = "send"
    <2>1. threw <= b.tries /\ b.tries <= Limit["send"] /\ n <= threw + 1
        BY <1>1, <1>8, <1>5 DEF Sound, Steps
    <2>2. n <= Limit["send"] + 1 /\ (c.at = "send" => n <= c.tries /\ c.tries <= Limit["send"])
        BY <2>1, <1>3, <1>1, <1>4, <1>5, <1>8 DEF next
    <2>3. c.at \in {"send", "dead"}
        BY <1>4, <1>8 DEF next
    <2> HIDE DEF n
    <2>4. c.at \in Steps \cup {"dead"} /\ (c.at # "send" /\ c.at # "dead" => n = 0)
        BY <2>3 DEF Steps
    <2>5. Sound(c, more, told, n)
        BY <1>1, <1>5, <1>6, <1>7, <2>2, <2>4, NobodyYet, Zenon
    <2> QED BY <1>4, <2>5 DEF c, n
<1>9. CASE s # "send"
    <2>1. s \in {"inbox", "projects", "synthesize"} /\ s = b.at
        BY <1>1, <1>9 DEF Steps
    <2>2. ~b.reached /\ n = 0
        BY <2>1 DEF Sound
    <2>3. c.at \in {"inbox", "projects", "synthesize", "dead"}
        BY <1>4, <2>1 DEF next
    <2> HIDE DEF n
    <2>4. c.at \in Steps \cup {"dead"} /\ c.at # "send"
        BY <2>3 DEF Steps
    <2>5. n <= Limit["send"] + 1
        BY <1>1, <2>2
    <2>6. Sound(c, more, told, n)
        BY <1>1, <1>5, <1>6, <1>7, <2>2, <2>4, <2>5, NobodyYet, Zenon
    <2> QED BY <1>4, <2>6 DEF c, n
<1> QED BY <1>8, <1>9

LEMMA ThrowsKeeps ==
    ASSUME NoticeInv, NEW f \in Firing, StepThrows(f), NEW noted \in SUBSET BOOLEAN,
           notices' = [notices EXCEPT ![f] = noted],
           TRUE \in noted => brief[f].sent \/ TRUE \in notices[f]
    PROVE  NoticeInv'
<1> DEFINE n == IF brief[f].reached THEN redone[f] + 1 ELSE redone[f]
<1>1. /\ OthersTyped /\ got' = [got EXCEPT ![f] = got[f]]
      /\ brief' = [brief EXCEPT ![f] = Again(brief[f])]
      /\ brief[f].at \in Steps \cup {"telling"}
    BY BeforeStep, Unmoved DEF StepThrows, OthersTyped
<1>2. redone' = [redone EXCEPT ![f] = n] /\ n \in Nat
    BY BeforeStep DEF StepThrows, NoticeInv, NoticeTypeOK
<1>3. Again(brief[f]) \in Briefs /\ Sound(Again(brief[f]), noted, got[f], n)
    BY <1>1, BeforeStep, AgainSound
<1> HIDE DEF n
<1> QED BY <1>1, <1>2, <1>3, BeforeStep, OneFiring

LEMMA AddressedSound ==
    ASSUME NEW b \in Briefs, NEW noted, NEW told, NEW threw, phones \subseteq Phone,
           Sound(b, noted, told, threw), b.at = "send"
    PROVE  /\ Addressed(b) \in Briefs
           /\ Sound(Addressed(b), noted, told, threw)
<1> DEFINE c == Addressed(b)
           to == IF b.via = "email" THEN {Mailbox} ELSE IF b.via = "web-push" THEN phones ELSE {}
           logged == b.via = "log"
<1>1. to \subseteq Recipient
    BY DEF Recipient
<1>2. c = [b EXCEPT !.at = "telling", !.sent = logged, !.left = to]
    BY DEF Addressed
<1> HIDE DEF c, to
<1>3. /\ c \in Briefs /\ c.at = "telling" /\ c.via = b.via /\ (c.sent <=> b.via = "log")
      /\ c.reached = b.reached /\ c.tries = b.tries
    BY <1>1, <1>2 DEF Briefs
<1> QED BY <1>3 DEF Sound, c

LEMMA AddressesKeeps ==
    ASSUME NoticeInv, NEW f \in Firing, Addresses(f)
    PROVE  NoticeInv'
<1>1. OthersTyped /\ Same(f)
    BY BeforeStep, Unmoved DEF Addresses, OthersTyped, Same
<1>2. CASE brief' = [brief EXCEPT ![f] = Addressed(brief[f])]
    <2>1. brief[f].at = "send"
        BY DEF Addresses
    <2>2. /\ Addressed(brief[f]) \in Briefs
          /\ Sound(Addressed(brief[f]), notices[f], got[f], redone[f])
        BY <2>1, BeforeStep, AddressedSound
    <2> QED BY <1>1, <1>2, <2>2, BeforeStep, OneFiring DEF Same
<1>3. CASE brief' = [brief EXCEPT ![f].at = "over"]
    <2> DEFINE b == [brief[f] EXCEPT !.at = "over"]
    <2>1. brief[f].at = "send" /\ brief[f] \in Briefs /\ brief' = [brief EXCEPT ![f] = b]
        BY <1>3, BeforeStep DEF Addresses
    <2>2. /\ b \in Briefs /\ b.at = "over" /\ b.tries = brief[f].tries /\ b.via = brief[f].via
          /\ b.left = brief[f].left /\ b.sent = brief[f].sent /\ b.reached = brief[f].reached
        BY <2>1 DEF Briefs
    <2>3. Sound(brief[f], notices[f], got[f], redone[f])
        BY BeforeStep
    <2> HIDE DEF b
    <2>4. Sound(b, notices[f], got[f], redone[f])
        BY <2>1, <2>2, <2>3 DEF Sound
    <2> QED BY <1>1, <2>1, <2>2, <2>4, BeforeStep, OneFiring DEF Same
<1> QED BY <1>2, <1>3 DEF Addresses

LEMMA TriedSound ==
    ASSUME NEW b \in Briefs, NEW noted, NEW told \in [Recipient -> Nat], NEW threw \in Nat,
           NEW r \in Recipient, NEW there \in BOOLEAN, NEW said \in BOOLEAN, said => there,
           NEW count \in [Recipient -> Nat],
           count = [told EXCEPT ![r] = IF there THEN @ + 1 ELSE @],
           Sound(b, noted, told, threw), b.at = "telling", r \in b.left
    PROVE  /\ Tried(b, r, there, said) \in Briefs
           /\ Sound(Tried(b, r, there, said), noted, count, threw)
<1> DEFINE c == Tried(b, r, there, said)
<1>1. /\ c \in Briefs /\ c.at = b.at /\ c.tries = b.tries /\ c.via = b.via
      /\ c.left = b.left \ {r} /\ (c.sent <=> b.sent \/ said) /\ (c.reached <=> b.reached \/ there)
    BY DEF Briefs, Tried
<1>2. /\ count[r] = (IF there THEN told[r] + 1 ELSE told[r])
      /\ \A q \in Recipient \ {r} : count[q] = told[q]
    OBVIOUS
<1> HIDE DEF c
<1>3. told[r] <= threw
    BY DEF Sound
<1>4. ASSUME NEW q \in Recipient
      PROVE  /\ count[q] <= threw + 1
             /\ c.at \notin {"telling", "over"} \/ q \in c.left \/ ~c.reached => count[q] <= threw
    <2>1. CASE q = r
        <3>1. count[q] <= threw + 1 /\ (~there => count[q] <= threw)
            BY <1>2, <1>3, <2>1
        <3> QED BY <3>1, <2>1, <1>1
    <2>2. CASE q # r
        <3>1. count[q] = told[q]
            BY <1>2, <2>2
        <3> QED BY <3>1, <2>2, <1>1 DEF Sound
    <2> QED BY <2>1, <2>2
<1>5. (there \/ \E q \in Recipient : told[q] > 0) => \E q \in Recipient : count[q] > 0
    BY <1>2
<1>6. c.via # "log" /\ (c.sent \/ TRUE \in noted) => \E q \in Recipient : count[q] > 0
    BY <1>1, <1>5 DEF Sound
<1> QED BY <1>1, <1>4, <1>6 DEF Sound, c

LEMMA ReachesKeeps ==
    ASSUME NoticeInv, NEW f \in Firing, NEW r \in Recipient, Reaches(f, r)
    PROVE  NoticeInv'
<1>1. PICK there \in BOOLEAN, said \in BOOLEAN :
          /\ said => there
          /\ got' = [got EXCEPT ![f][r] = IF there THEN @ + 1 ELSE @]
          /\ brief' = [brief EXCEPT ![f] = Tried(brief[f], r, there, said)]
    BY DEF Reaches
<1> DEFINE count == [got[f] EXCEPT ![r] = IF there THEN @ + 1 ELSE @]
<1>2. /\ OthersTyped /\ brief[f].at = "telling" /\ r \in brief[f].left
      /\ notices' = [notices EXCEPT ![f] = notices[f]]
      /\ redone' = [redone EXCEPT ![f] = redone[f]]
    BY BeforeStep, Unmoved DEF Reaches, OthersTyped
<1>3. got' = [got EXCEPT ![f] = count] /\ count \in [Recipient -> Nat]
    BY <1>1 DEF NoticeInv, NoticeTypeOK
<1>4. /\ Tried(brief[f], r, there, said) \in Briefs
      /\ Sound(Tried(brief[f], r, there, said), notices[f], count, redone[f])
    BY <1>1, <1>2, <1>3, BeforeStep, TriedSound
<1> HIDE DEF count
<1> QED BY <1>1, <1>2, <1>3, <1>4, BeforeStep, OneFiring

LEMMA NotesKeeps ==
    ASSUME NoticeInv, NEW f \in Firing, Notes(f)
    PROVE  NoticeInv'
<1> DEFINE noted == notices[f] \cup {brief[f].sent}
<1>1. /\ notices' = [notices EXCEPT ![f] = noted] /\ noted \in SUBSET BOOLEAN
      /\ brief[f].at = "telling" /\ brief[f] \in Briefs
      /\ (TRUE \in noted => brief[f].sent \/ TRUE \in notices[f])
    BY BeforeStep DEF Notes, Briefs
<1>2. CASE StepThrows(f)
    BY <1>1, <1>2, ThrowsKeeps
<1>3. CASE brief' = [brief EXCEPT ![f].at = "over"] /\ UNCHANGED <<fired, asked, phones, got, redone>>
    <2> DEFINE b == [brief[f] EXCEPT !.at = "over"]
    <2>1. /\ b \in Briefs /\ b.at = "over" /\ b.tries = brief[f].tries /\ b.via = brief[f].via
          /\ b.left = brief[f].left /\ b.sent = brief[f].sent /\ b.reached = brief[f].reached
        BY <1>1 DEF Briefs
    <2>2. brief' = [brief EXCEPT ![f] = b]
        BY <1>3 DEF NoticeInv, NoticeTypeOK
    <2>3. OthersTyped /\ got' = [got EXCEPT ![f] = got[f]] /\ redone' = [redone EXCEPT ![f] = redone[f]]
        BY <1>3, BeforeStep, Unmoved DEF OthersTyped
    <2> HIDE DEF b
    <2>4. /\ got[f] \in [Recipient -> Nat] /\ redone[f] \in Nat
          /\ Sound(brief[f], notices[f], got[f], redone[f])
        BY BeforeStep
    <2>5. Sound(b, noted, got[f], redone[f])
        BY <1>1, <2>1, <2>4 DEF Sound, Steps
    <2> HIDE DEF noted
    <2> QED BY <1>1, <2>1, <2>2, <2>3, <2>4, <2>5, OneFiring
<1> QED BY <1>2, <1>3 DEF Notes

LEMMA SubscribesKeeps ==
    ASSUME NoticeInv, NEW p \in Phone, Subscribes(p)
    PROVE  NoticeInv'
<1>1. OthersTyped
    BY DEF Subscribes, OthersTyped, NoticeInv, NoticeTypeOK
<1> QED BY <1>1, NoFiring DEF Subscribes

LEMMA NoticesStep == NoticeInv /\ NoticeNext => NoticeInv'
<1> SUFFICES ASSUME NoticeInv, NoticeNext PROVE NoticeInv'
    OBVIOUS
<1>1. ASSUME NEW f \in Firing, CronFires(f) \/ StepReturns(f) \/ Addresses(f) \/ Notes(f)
      PROVE  NoticeInv'
    BY <1>1, FiresKeeps, ReturnsKeeps, AddressesKeeps, NotesKeeps
<1>2. ASSUME NEW f \in Firing, NEW w \in Flow, Handles(f, w)
      PROVE  NoticeInv'
    BY <1>2, HandlesKeeps
<1>3. ASSUME NEW f \in Firing, StepThrows(f), UNCHANGED notices
      PROVE  NoticeInv'
    <2>1. notices' = [notices EXCEPT ![f] = notices[f]] /\ notices[f] \in SUBSET BOOLEAN
        BY <1>3, BeforeStep, Unmoved
    <2> QED BY <1>3, <2>1, ThrowsKeeps
<1>4. ASSUME NEW f \in Firing, NEW r \in Recipient, Reaches(f, r)
      PROVE  NoticeInv'
    BY <1>4, ReachesKeeps
<1>5. ASSUME NEW p \in Phone, Subscribes(p)
      PROVE  NoticeInv'
    BY <1>5, SubscribesKeeps
<1> QED BY <1>1, <1>2, <1>3, <1>4, <1>5 DEF NoticeNext

LEMMA NoticesHold == NoticeInv => OwnerToldOnce
<1> SUFFICES ASSUME NoticeInv, NEW f \in Firing
             PROVE  /\ \A r \in Recipient : got[f][r] <= 1 + redone[f]
                    /\ redone[f] <= Limit["send"] + 1
                    /\ brief[f].via # "log" /\ TRUE \in notices[f] => Told(f)
                    /\ brief[f].at = "over" /\ brief[f].reached => notices[f] # {}
    BY DEF OwnerToldOnce
<1>1. Sound(brief[f], notices[f], got[f], redone[f]) /\ redone[f] \in Nat
    BY BeforeStep
<1>2. \A r \in Recipient : got[f][r] <= 1 + redone[f]
    BY <1>1 DEF Sound
<1>3. brief[f].via # "log" /\ TRUE \in notices[f] => Told(f)
    BY <1>1 DEF Sound, Told
<1> QED BY <1>1, <1>2, <1>3 DEF Sound

LEMMA NoticesStay == NoticeInv /\ UNCHANGED notice => NoticeInv'
BY DEF notice, NoticeInv, NoticeTypeOK
-----------------------------------------------------------------------------
(***************************************************************************)
(* The stream.  What is queued is what has arrived beyond the frame that   *)
(* was yielded last, and a caller waits only for a stream that is quiet.   *)
(***************************************************************************)
QueueIsRest ==
    /\ Len(arrived) = seen + Len(queue)
    /\ \A i \in 1 .. Len(queue) : queue[i] = arrived[seen + i]

HeldIsLast == held = IF seen = 0 THEN "none" ELSE arrived[seen]

Quiet == queue = <<>> /\ ~finished /\ held # "answer"

StreamControl ==
    /\ pc \in {"dialing", "waiting"} => Quiet
    /\ pc = "holding" => seen > 0
    /\ pc = "dialing" => seen = 0
    /\ errored => finished

StreamInv == StreamTypeOK /\ QueueIsRest /\ HeldIsLast /\ StreamControl

LEMMA StreamStarts == StreamInit => StreamInv
<1> SUFFICES ASSUME StreamInit PROVE StreamInv
    OBVIOUS
<1>1. queue \in Seq(Feed!Frame) /\ arrived \in Seq(Feed!Frame)
    BY DEF StreamInit
<1>2. StreamTypeOK
    BY <1>1 DEF StreamInit, StreamTypeOK, Feed!Frame, Feed!Ended
<1>3. QueueIsRest /\ HeldIsLast
    BY DEF StreamInit, QueueIsRest, HeldIsLast
<1>4. StreamControl
    BY DEF StreamInit, StreamControl, Quiet
<1> QED BY <1>2, <1>3, <1>4 DEF StreamInv

\* What the first frame of a queue and the rest of it are.
LEMMA QueueMoves ==
    ASSUME StreamInv, YieldsNext
    PROVE  /\ queue' \in Seq(Feed!Frame)
           /\ Len(queue') = Len(queue) - 1
           /\ \A i \in 1 .. Len(queue') : queue'[i] = queue[i + 1]
           /\ held' = queue[1] /\ held' \in Feed!Frame
BY DEF StreamInv, StreamTypeOK, YieldsNext

LEMMA StreamTypes == StreamInv /\ StreamNext => StreamTypeOK'
<1> SUFFICES ASSUME StreamInv, StreamNext PROVE StreamTypeOK'
    OBVIOUS
<1> USE DEF StreamInv, StreamTypeOK, Feed!Frame, Feed!Ended
<1>1. CASE Connects \/ DialFails
    BY <1>1 DEF Connects, DialFails
<1>2. CASE \E f \in Feed!Frame : Receives(f)
    <2> PICK f \in Feed!Frame : Receives(f)
        BY <1>2
    <2>1. queue' \in Seq(Feed!Frame) /\ arrived' \in Seq(Feed!Frame)
        BY DEF Receives
    <2>2. /\ pc' \in {"dialing", "waiting", "holding"}
          /\ held' \in Feed!Frame \cup {"none"} /\ seen' \in Nat
        BY DEF Receives
    <2>3. finished' \in BOOLEAN /\ errored' \in BOOLEAN /\ timer' \in BOOLEAN /\ socket' \in BOOLEAN
        BY DEF Receives
    <2> QED BY <2>1, <2>2, <2>3
<1>3. CASE Garbled \/ TimesOut \/ Closes \/ SocketErrs
    <2>1. /\ queue' \in Seq(Feed!Frame) /\ arrived' \in Seq(Feed!Frame)
          /\ held' \in Feed!Frame \cup {"none"} /\ seen' \in Nat
        BY <1>3 DEF Garbled, TimesOut, Closes, SocketErrs
    <2>2. /\ pc' \in {"dialing", "waiting", "holding"} \cup Feed!Ended
          /\ finished' \in BOOLEAN /\ errored' \in BOOLEAN /\ timer' \in BOOLEAN /\ socket' \in BOOLEAN
        BY <1>3 DEF Garbled, TimesOut, Closes, SocketErrs, Finishes
    <2> QED BY <2>1, <2>2
<1>4. CASE \E how \in Feed!Ended : Stops(how)
    BY <1>4 DEF Stops
<1>5. CASE YieldsNext
    BY <1>5, QueueMoves DEF YieldsNext
<1>6. CASE /\ pc' = "waiting"
           /\ UNCHANGED <<held, queue, finished, errored, timer, socket, arrived, seen>>
    BY <1>6
<1> QED BY <1>1, <1>2, <1>3, <1>4, <1>5, <1>6 DEF StreamNext, Pulls, Leaves

LEMMA StreamQueues == StreamInv /\ StreamNext => (QueueIsRest /\ HeldIsLast)'
<1> SUFFICES ASSUME StreamInv, StreamNext PROVE (QueueIsRest /\ HeldIsLast)'
    OBVIOUS
<1> USE DEF StreamInv, StreamTypeOK
<1>1. CASE UNCHANGED <<queue, arrived, seen, held>>
    BY <1>1 DEF QueueIsRest, HeldIsLast
<1>2. CASE \E f \in Feed!Frame : Receives(f)
    <2> PICK f \in Feed!Frame : Receives(f)
        BY <1>2
    <2>1. /\ Len(arrived') = Len(arrived) + 1
          /\ arrived'[Len(arrived) + 1] = f
          /\ \A i \in 1 .. Len(arrived) : arrived'[i] = arrived[i]
        BY DEF Receives
    <2>2. CASE pc = "waiting"
        BY <2>1, <2>2 DEF Receives, QueueIsRest, HeldIsLast, StreamControl, Quiet
    <2>3. CASE pc = "holding"
        <3>1. /\ Len(queue') = Len(queue) + 1
              /\ queue'[Len(queue) + 1] = f
              /\ \A i \in 1 .. Len(queue) : queue'[i] = queue[i]
            BY <2>3 DEF Receives
        <3>2. held' = held /\ seen' = seen
            BY <2>3 DEF Receives
        <3>3. Len(queue) \in Nat /\ Len(arrived) \in Nat
            OBVIOUS
        <3>4. ASSUME NEW i \in 1 .. Len(queue')
              PROVE  queue'[i] = arrived'[seen' + i]
            <4>1. CASE i \in 1 .. Len(queue)
                <5>1. seen + i \in 1 .. Len(arrived) /\ queue[i] = arrived[seen + i]
                    BY <4>1, <3>3 DEF QueueIsRest
                <5> QED BY <2>1, <3>1, <3>2, <4>1, <5>1
            <4>2. CASE i = Len(queue) + 1
                <5>1. seen + i = Len(arrived) + 1
                    BY <4>2, <3>3 DEF QueueIsRest
                <5> QED BY <2>1, <3>1, <3>2, <4>2, <5>1
            <4> QED BY <3>1, <3>3, <4>1, <4>2
        <3>5. Len(arrived') = seen' + Len(queue')
            BY <2>1, <3>1, <3>2, <3>3 DEF QueueIsRest
        <3>6. HeldIsLast'
            BY <2>1, <3>2, <3>3 DEF QueueIsRest, HeldIsLast
        <3> QED BY <3>4, <3>5, <3>6 DEF QueueIsRest
    <2> QED BY <2>2, <2>3 DEF Receives, Open
<1>3. CASE YieldsNext
    <2>1. seen' = seen + 1 /\ arrived' = arrived /\ Len(queue) \in Nat /\ queue # <<>>
        BY <1>3 DEF YieldsNext
    <2>2. Len(arrived') = seen' + Len(queue')
        <3>1. Len(queue') = Len(queue) - 1 /\ Len(arrived) = seen + Len(queue)
            BY <1>3, QueueMoves DEF QueueIsRest
        <3> QED BY <2>1, <3>1
    <2>3. ASSUME NEW i \in 1 .. Len(queue')
          PROVE  queue'[i] = arrived'[seen' + i]
        <3>1. i + 1 \in 1 .. Len(queue) /\ seen + (i + 1) = seen' + i
            BY <2>1, <1>3, QueueMoves
        <3> QED BY <2>1, <3>1, <1>3, QueueMoves DEF QueueIsRest
    <2>4. HeldIsLast'
        <3>1. Len(queue) > 0
            BY <2>1
        <3> QED BY <2>1, <3>1, <1>3, QueueMoves DEF QueueIsRest, HeldIsLast
    <2> QED BY <2>2, <2>3, <2>4 DEF QueueIsRest
<1> QED BY <1>1, <1>2, <1>3 DEF StreamNext, Connects, DialFails, Garbled, TimesOut, Closes,
                               SocketErrs, Pulls, Leaves, Stops

LEMMA StreamControls == StreamInv /\ StreamNext => StreamControl'
<1> SUFFICES ASSUME StreamInv, StreamNext PROVE StreamControl'
    OBVIOUS
<1> USE DEF StreamInv, StreamTypeOK, Feed!Frame, Feed!Ended, StreamControl
<1>1. CASE Connects \/ DialFails
    BY <1>1 DEF Connects, DialFails, Quiet
<1>2. CASE \E f \in Feed!Frame : Receives(f)
    BY <1>2 DEF Receives
<1>3. CASE Garbled \/ TimesOut \/ Closes \/ SocketErrs
    BY <1>3 DEF Garbled, TimesOut, Closes, SocketErrs, Finishes, Open
<1>4. CASE \E how \in Feed!Ended : Stops(how)
    BY <1>4 DEF Stops
<1>5. CASE pc = "holding" /\ YieldsNext
    BY <1>5 DEF YieldsNext
<1>6. CASE /\ held # "answer" /\ queue = <<>> /\ ~finished /\ pc' = "waiting"
           /\ UNCHANGED <<held, queue, finished, errored, timer, socket, arrived, seen>>
    BY <1>6 DEF Quiet
<1> QED BY <1>1, <1>2, <1>3, <1>4, <1>5, <1>6 DEF StreamNext, Pulls, Leaves

LEMMA StreamStep == StreamInv /\ StreamNext => StreamInv'
BY StreamTypes, StreamQueues, StreamControls DEF StreamInv

\* Every step of the stream is a step of the feed, or none.
LEMMA StreamFeeds == StreamInv /\ StreamNext => [Feed!Next]_(Feed!vars)
<1> SUFFICES ASSUME StreamInv, StreamNext PROVE Feed!Next \/ UNCHANGED Feed!vars
    OBVIOUS
<1> USE DEF StreamInv, StreamTypeOK, StreamControl, Feed!Frame, Feed!Ended, Feed!vars
<1>a. Feed!Answered <=> held = "answer"
    BY DEF HeldIsLast, Feed!Answered
<1>b. Feed!Drained <=> queue = <<>>
    BY DEF QueueIsRest, Feed!Drained
<1>1. CASE Connects \/ DialFails
    BY <1>1 DEF Connects, DialFails, Feed!Next, Feed!Dials
<1>2. CASE \E f \in Feed!Frame : Receives(f)
    <2> PICK f \in Feed!Frame : Receives(f)
        BY <1>2
    <2>1. CASE pc = "waiting"
        <3>1. Feed!Passes
            BY <2>1, <1>a, <1>b DEF Receives, Open, Quiet, Feed!Passes
        <3> QED BY <3>1 DEF Feed!Next
    <2>2. CASE pc = "holding"
        <3>1. Feed!Arrives
            BY <2>2 DEF Receives, Open, Feed!Arrives
        <3> QED BY <3>1 DEF Feed!Next
    <2> QED BY <2>1, <2>2 DEF Receives, Open
<1>3. CASE Garbled \/ TimesOut \/ Closes \/ SocketErrs
    <2>1. CASE pc = "holding"
        BY <1>3, <2>1 DEF Garbled, TimesOut, Closes, SocketErrs, Finishes
    <2>2. CASE pc = "waiting"
        <3>1. Feed!Ends
            BY <1>3, <2>2, <1>a, <1>b DEF Garbled, TimesOut, Closes, SocketErrs, Finishes,
                                          Quiet, Feed!Ends
        <3> QED BY <3>1 DEF Feed!Next
    <2> QED BY <1>3, <2>1, <2>2 DEF Garbled, TimesOut, Closes, SocketErrs, Open
<1>4. CASE Leaves
    <2>1. Feed!Ends
        BY <1>4 DEF Leaves, Stops, Feed!Ends
    <2> QED BY <2>1 DEF Feed!Next
<1>5. CASE Pulls
    <2>1. CASE held # "answer" /\ YieldsNext
        <3>1. Feed!Yields
            BY <1>5, <2>1, <1>a DEF Pulls, YieldsNext, QueueIsRest, Feed!Yields
        <3> QED BY <3>1 DEF Feed!Next
    <2>2. CASE \/ held = "answer" /\ Stops(IF errored THEN "failed" ELSE "answered")
               \/ /\ held # "answer" /\ queue = <<>> /\ finished
                  /\ Stops(IF errored THEN "failed" ELSE "cut")
        <3>1. Feed!Ends
            BY <1>5, <2>2, <1>a, <1>b DEF Pulls, Stops, Feed!Ends
        <3> QED BY <3>1 DEF Feed!Next
    <2>3. CASE pc' = "waiting" /\ UNCHANGED <<arrived, seen>>
        BY <1>5, <2>3 DEF Pulls
    <2> QED BY <1>5, <2>1, <2>2, <2>3 DEF Pulls
<1> QED BY <1>1, <1>2, <1>3, <1>4, <1>5 DEF StreamNext
-----------------------------------------------------------------------------
(***************************************************************************)
(* The turns.  RunsAreLogged is inductive as it stands: a turn that starts *)
(* a skill is at none of the places the property makes an exception for.   *)
(***************************************************************************)
InHand == {"logging", "excusing", "thrown"}

BatchGoesOn ==
    \A m \in Msg : msg[m].at \in {"running", "logging", "excusing"} => msg[m].left > 0

TurnsInv == ConductorTypeOK /\ BatchGoesOn /\ RunsAreLogged

LEMMA TurnsStart == ConductorInit => TurnsInv
<1> SUFFICES ASSUME ConductorInit PROVE TurnsInv
    OBVIOUS
<1>1. ConductorTypeOK
    BY DEF ConductorInit, ConductorTypeOK, Mode, Place
<1>2. BatchGoesOn
    BY DEF ConductorInit, BatchGoesOn
<1>3. RunsAreLogged
    BY DEF ConductorInit, RunsAreLogged
<1> QED BY <1>1, <1>2, <1>3 DEF TurnsInv

\* A request goes to another place, and with it to another call of its batch.
LEMMA TurnGoes ==
    ASSUME TurnsInv, NEW m \in Msg, NEW at \in Place, Goes(m, at),
           at = "running" => msg[m].left > 0,
           at \in {"logging", "excusing"} => msg[m].at \in {"running", "logging", "excusing"}
    PROVE  /\ msg' \in [Msg -> [at : Place, mode : Mode, iter : Nat, left : Nat]]
           /\ BatchGoesOn'
BY DEF TurnsInv, ConductorTypeOK, BatchGoesOn, Goes

LEMMA TurnGoesOn ==
    ASSUME TurnsInv, NEW m \in Msg, msg[m].at \in {"running", "logging", "excusing"},
           msg' = [msg EXCEPT ![m] = NextTool(m)]
    PROVE  /\ msg' \in [Msg -> [at : Place, mode : Mode, iter : Nat, left : Nat]]
           /\ BatchGoesOn'
           /\ msg'[m].at \notin {"logging", "excusing", "thrown"}
           /\ \A n \in Msg \ {m} : msg'[n] = msg[n]
<1> USE DEF TurnsInv, ConductorTypeOK
<1>1. msg[m] \in [at : Place, mode : Mode, iter : Nat, left : Nat]
    OBVIOUS
<1>2. msg[m].left - 1 \in Nat
    BY <1>1 DEF BatchGoesOn
<1>3. NextTool(m) \in [at : Place, mode : Mode, iter : Nat, left : Nat]
    BY <1>1, <1>2 DEF NextTool, Place
<1>4. /\ NextTool(m).at \in {"running", "calling", "closing"}
      /\ NextTool(m).at = "running" => msg[m].left > 1
      /\ NextTool(m).left = msg[m].left - 1
    BY <1>1 DEF NextTool
<1>5. NextTool(m).at = "running" => NextTool(m).left > 0
    BY <1>1, <1>4
<1> QED BY <1>3, <1>4, <1>5 DEF BatchGoesOn

LEMMA TurnsTypes == TurnsInv /\ ConductorNext => (ConductorTypeOK /\ BatchGoesOn)'
<1> SUFFICES ASSUME TurnsInv, NEW m \in Msg,
                    \/ Arrives(m) \/ NotesMessage(m) \/ Joins(m)
                    \/ ProviderFails(m) \/ CallsTools(m) \/ Concludes(m) \/ PlansNothing(m)
                    \/ SkipsTool(m) \/ RunsTool(m) \/ Logs(m) \/ Excuses(m)
                    \/ Replies(m) \/ Reports(m) \/ IsCut(m)
             PROVE  (ConductorTypeOK /\ BatchGoesOn)'
    BY DEF ConductorNext
<1>0. ran[m] \in Nat
    BY DEF TurnsInv, ConductorTypeOK
<1>1. /\ log' \subseteq [by : Msg, kind : {"user", "tool", "toolError", "error", "reply"},
                         run : Nat]
      /\ ran' \in [Msg -> Nat]
      /\ spoilt' \subseteq Msg \X Nat
    <2> USE <1>0 DEF TurnsInv, ConductorTypeOK
    <2>1. CASE log' = log /\ ran' = ran /\ spoilt' = spoilt
        BY <2>1
    <2>2. CASE NotesMessage(m) \/ Replies(m) \/ Reports(m)
        BY <2>2 DEF NotesMessage, Replies, Reports, Appended, AppendThrows, Stored, Entry
    <2>3. CASE RunsTool(m)
        BY <2>3 DEF RunsTool
    <2>4. CASE Logs(m) \/ Excuses(m)
        <3>1. log' \subseteq log \cup {Entry(m, "tool", ran[m]), Entry(m, "toolError", ran[m])}
            BY <2>4 DEF Logs, Excuses, AppendThrows, Stored
        <3>2. ran' = ran /\ spoilt' \subseteq spoilt \cup {<<m, ran[m]>>}
            BY <2>4 DEF Logs, Excuses
        <3> QED BY <3>1, <3>2 DEF Entry
    <2> QED BY <2>1, <2>2, <2>3, <2>4 DEF Arrives, Joins, ProviderFails, CallsTools, Concludes,
                                          PlansNothing, SkipsTool, IsCut
<1>2. msg' \in [Msg -> [at : Place, mode : Mode, iter : Nat, left : Nat]] /\ BatchGoesOn'
    <2>1. CASE \/ SkipsTool(m)
               \/ Logs(m) /\ ~Goes(m, "excusing")
               \/ Excuses(m) /\ ~Goes(m, "thrown")
        BY <2>1, TurnGoesOn DEF SkipsTool, Logs, Excuses, AppendThrows, At
    <2>2. CASE Arrives(m)
        <3>1. msg' \in [Msg -> [at : Place, mode : Mode, iter : Nat, left : Nat]]
            BY <2>2 DEF Arrives, TurnsInv, ConductorTypeOK, Place
        <3>2. BatchGoesOn'
            BY <2>2 DEF Arrives, TurnsInv, ConductorTypeOK, BatchGoesOn
        <3> QED BY <3>1, <3>2
    <2>3. CASE CallsTools(m)
        <3>1. PICK n \in 1 .. MaxBatch[m] :
                msg' = [msg EXCEPT ![m].at = "running", ![m].left = n, ![m].iter = @ + 1]
            BY <2>3 DEF CallsTools
        <3>2. n \in Nat /\ n > 0
            BY ConductorAssumption
        <3> QED BY <3>1, <3>2 DEF TurnsInv, ConductorTypeOK, BatchGoesOn, Place
    <2>4. CASE RunsTool(m)
        BY <2>4, TurnGoes DEF RunsTool, At, Place
    <2>5. CASE Goes(m, "excusing") /\ Logs(m)
        BY <2>5, TurnGoes DEF Logs, At, Place
    <2>6. CASE \E at \in Place \ {"running", "logging", "excusing"} : Goes(m, at)
        BY <2>6, TurnGoes
    <2>7. CASE NotesMessage(m) \/ Replies(m) \/ Reports(m)
        <3>1. \E at \in {"joining", "calling", "replied", "thrown"} : Goes(m, at)
            BY <2>7 DEF NotesMessage, Replies, Reports, Appended, AppendThrows
        <3> QED BY <2>6, <3>1 DEF Place
    <2>8. CASE \/ Joins(m) \/ ProviderFails(m) \/ Concludes(m) \/ PlansNothing(m) \/ IsCut(m)
               \/ Excuses(m) /\ Goes(m, "thrown")
        <3>1. \E at \in {"handed", "failing", "closing", "replied", "thrown"} : Goes(m, at)
            BY <2>8 DEF Joins, ProviderFails, Concludes, PlansNothing, IsCut
        <3> QED BY <2>6, <3>1 DEF Place
    <2> QED BY <2>1, <2>2, <2>3, <2>4, <2>5, <2>7, <2>8
<1> QED BY <1>1, <1>2 DEF ConductorTypeOK

\* The property survives a step that starts no skill if a request is only
\* let go of once its last run has its row.
LEMMA StaysLogged ==
    ASSUME TurnsInv, NEW m \in Msg, ran' = ran,
           log \subseteq log', spoilt \subseteq spoilt',
           \A n \in Msg \ {m} : msg'[n] = msg[n],
           \/ msg[m].at \notin InHand
           \/ msg'[m].at \in InHand
           \/ Logged(m, ran[m])'
           \/ <<m, ran[m]>> \in spoilt'
    PROVE  RunsAreLogged'
<1> SUFFICES ASSUME NEW n \in Msg, NEW k \in 1 .. ran[n]
             PROVE  \/ Logged(n, k)' \/ <<n, k>> \in spoilt'
                    \/ k = ran[n] /\ msg'[n].at \in InHand
    BY DEF RunsAreLogged, InHand
<1>1. \/ Logged(n, k) \/ <<n, k>> \in spoilt
      \/ k = ran[n] /\ msg[n].at \in InHand
    BY DEF TurnsInv, RunsAreLogged, InHand
<1>2. Logged(n, k) => Logged(n, k)'
    BY DEF Logged, Entry
<1> QED BY <1>1, <1>2

LEMMA TurnsLog == TurnsInv /\ ConductorNext => RunsAreLogged'
<1> SUFFICES ASSUME TurnsInv, NEW m \in Msg,
                    \/ Arrives(m) \/ NotesMessage(m) \/ Joins(m)
                    \/ ProviderFails(m) \/ CallsTools(m) \/ Concludes(m) \/ PlansNothing(m)
                    \/ SkipsTool(m) \/ RunsTool(m) \/ Logs(m) \/ Excuses(m)
                    \/ Replies(m) \/ Reports(m) \/ IsCut(m)
             PROVE  RunsAreLogged'
    BY DEF ConductorNext
<1>0. /\ \A n \in Msg \ {m} : msg'[n] = msg[n]
      /\ log \subseteq log' /\ spoilt \subseteq spoilt'
    BY DEF TurnsInv, ConductorTypeOK, Arrives, NotesMessage, Joins, ProviderFails,
           CallsTools, Concludes, PlansNothing, SkipsTool, RunsTool, Logs, Excuses,
           Replies, Reports, IsCut, Appended, AppendThrows, Stored, Goes
<1>1. CASE \/ Arrives(m) \/ NotesMessage(m) \/ Joins(m)
           \/ ProviderFails(m) \/ CallsTools(m) \/ Concludes(m) \/ PlansNothing(m)
           \/ SkipsTool(m) \/ Replies(m) \/ Reports(m)
    <2>1. msg[m].at \notin InHand /\ ran' = ran
        BY <1>1 DEF Arrives, NotesMessage, Joins, ProviderFails, CallsTools, Concludes,
                    PlansNothing, SkipsTool, Replies, Reports, At, InHand
    <2> QED BY <1>0, <2>1, StaysLogged
<1>2. CASE IsCut(m)
    <2>1. msg'[m].at = "thrown" /\ ran' = ran
        BY <1>2 DEF IsCut, Goes, TurnsInv, ConductorTypeOK
    <2> QED BY <1>0, <2>1, StaysLogged DEF InHand
<1>3. CASE Logs(m) \/ Excuses(m)
    <2>1. ran' = ran
        BY <1>3 DEF Logs, Excuses
    <2>2. CASE Goes(m, "excusing") \/ Goes(m, "thrown")
        <3>1. msg'[m].at \in InHand
            BY <2>2 DEF Goes, InHand, TurnsInv, ConductorTypeOK
        <3> QED BY <1>0, <2>1, <3>1, StaysLogged
    <2>3. CASE \/ Stored(Entry(m, "tool", ran[m])) \/ Stored(Entry(m, "toolError", ran[m]))
               \/ <<m, ran[m]>> \in spoilt'
        <3>1. Logged(m, ran[m])' \/ <<m, ran[m]>> \in spoilt'
            BY <2>1, <2>3 DEF Stored, Logged, Entry
        <3> QED BY <1>0, <2>1, <3>1, StaysLogged
    <2> QED BY <1>3, <2>2, <2>3 DEF Logs, Excuses, AppendThrows
<1>4. CASE RunsTool(m)
    <2>1. /\ log' = log /\ spoilt' = spoilt
          /\ msg[m].at = "running" /\ msg'[m].at \in {"logging", "excusing"}
          /\ ran'[m] = ran[m] + 1 /\ ran[m] \in Nat
          /\ \A n \in Msg \ {m} : ran'[n] = ran[n]
        BY <1>4 DEF RunsTool, At, Goes, TurnsInv, ConductorTypeOK
    <2> SUFFICES ASSUME NEW n \in Msg, NEW k \in 1 .. ran'[n]
                 PROVE  \/ Logged(n, k)' \/ <<n, k>> \in spoilt'
                        \/ k = ran'[n] /\ msg'[n].at \in {"logging", "excusing", "thrown"}
        BY DEF RunsAreLogged
    <2>2. Logged(n, k) => Logged(n, k)'
        BY <2>1 DEF Logged, Entry
    <2>3. CASE n # m
        BY <1>0, <2>1, <2>2, <2>3 DEF TurnsInv, RunsAreLogged
    <2>4. CASE n = m
        <3>1. k \in 1 .. ran[m] \/ k = ran'[m]
            BY <2>1, <2>4
        <3> QED BY <2>1, <2>2, <2>4, <3>1 DEF TurnsInv, RunsAreLogged
    <2> QED BY <2>3, <2>4
<1> QED BY <1>1, <1>2, <1>3, <1>4

LEMMA TurnsStep == TurnsInv /\ ConductorNext => TurnsInv'
BY TurnsTypes, TurnsLog DEF TurnsInv
-----------------------------------------------------------------------------
(***************************************************************************)
(* The index.  A touch that has read no title knows of one the user has    *)
(* set since; a PATCH that is to write knows whether its project is gone.  *)
(***************************************************************************)
TouchesKnow ==
    \A t \in Touch : /\ touch[t].at \in {"creating", "counting", "naming"}
                     /\ touch[t].read = "none"
                     /\ Listed(touch[t].s)
                     /\ rows[touch[t].s].title = "own"
                     => t \in renamed

NamesTheUnnamed ==
    \A t \in Touch : touch[t].at = "naming" => touch[t].read = "none"

PatchesKnow ==
    \A p \in Patch : /\ patch[p].at = "writing"
                     /\ patch[p].body.field = "project"
                     => patch[p].body.to \in projects \cup {Null} \/ p \in orphaned

InFlightAreTyped ==
    /\ \A t \in Touch : touch[t].at # "idle" => touch[t].s \in Session
    /\ \A p \in Patch : patch[p].at \in {"checking", "writing"} => patch[p].body \in Body

IndexInv == IndexTypeOK /\ TouchesKnow /\ NamesTheUnnamed /\ PatchesKnow /\ InFlightAreTyped

LEMMA IndexStarts == IndexInit => IndexInv
<1> SUFFICES ASSUME IndexInit PROVE IndexInv
    OBVIOUS
<1>1. IndexTypeOK
    BY DEF IndexInit, IndexTypeOK, Title
<1>2. TouchesKnow /\ NamesTheUnnamed /\ PatchesKnow /\ InFlightAreTyped
    BY DEF IndexInit, TouchesKnow, NamesTheUnnamed, PatchesKnow, InFlightAreTyped
<1> QED BY <1>1, <1>2 DEF IndexInv

LEMMA ChangedRow ==
    ASSUME NEW row \in Row, NEW body \in Body
    PROVE  /\ Changed(row, body) \in Row
           /\ Changed(row, body).title = "own"
                => row.title = "own" \/ body = [field |-> "title", to |-> "own"]
           /\ Changed(row, body).title = "auto" => row.title = "auto"
           /\ \/ Changed(row, body).project = row.project
              \/ body.field = "project" /\ Changed(row, body).project = body.to
<1>1. body \in Change
    BY IndexAssumption
<1>2. /\ body.field \in {"title", "project", "archived"}
      /\ body.field = "title" => body = [field |-> "title", to |-> body.to]
                                 /\ body.to \in {"none", "own"}
      /\ body.field = "project" => body.to \in Project \cup {Null}
      /\ body.field = "archived" => body.to \in BOOLEAN
    BY <1>1 DEF Change
<1> QED BY <1>2 DEF Changed, Row, Title

GoodRows == DOMAIN rows \subseteq Session /\ \A s \in DOMAIN rows : rows[s] \in Row

LEMMA InsertedRows ==
    ASSUME IndexInv, NEW s \in Session, NEW row \in Row, Inserted(s, row)
    PROVE  GoodRows'
BY DEF IndexInv, IndexTypeOK, GoodRows, Inserted

LEMMA RowsStay == IndexInv /\ IndexNext => GoodRows'
<1> SUFFICES ASSUME IndexInv, IndexNext PROVE GoodRows'
    OBVIOUS
<1> USE DEF IndexInv, IndexTypeOK, GoodRows
<1>1. CASE UNCHANGED rows
    BY <1>1
<1>2. ASSUME NEW t \in Touch, TouchCreates(t)
      PROVE  GoodRows'
    <2>1. Fresh \in Row /\ touch[t].s \in Session
        BY <1>2 DEF TouchCreates, Fresh, Row, Title, InFlightAreTyped
    <2> QED BY <1>2, <2>1, InsertedRows DEF TouchCreates
<1>3. ASSUME NEW t \in Touch, TouchCounts(t) \/ TouchNames(t)
      PROVE  GoodRows'
    BY <1>3 DEF TouchCounts, TouchNames, Row, Title
<1>4. ASSUME NEW p \in Patch, PatchWrites(p)
      PROVE  GoodRows'
    <2>1. patch[p].body \in Body
        BY <1>4 DEF PatchWrites, InFlightAreTyped
    <2> QED BY <1>4, <2>1, ChangedRow DEF PatchWrites
<1>5. ASSUME NEW s \in Session, NEW q \in made \cup {Null}, Posts(s, q)
      PROVE  GoodRows'
    <2>1. [Fresh EXCEPT !.project = q] \in Row
        BY DEF Fresh, Row, Title
    <2> QED BY <1>5, <2>1, InsertedRows DEF Posts
<1>6. ASSUME NEW s \in Session, Deletes(s)
      PROVE  GoodRows'
    BY <1>6 DEF Deletes
<1>7. ASSUME NEW q \in Project, DeletesProject(q)
      PROVE  GoodRows'
    BY <1>7 DEF DeletesProject, Released, Row
<1> QED BY <1>1, <1>2, <1>3, <1>4, <1>5, <1>6, <1>7
        DEF IndexNext, TouchArrives, PatchArrives, PatchChecks, MakesProject

LEMMA IndexTypes == IndexInv /\ IndexNext => (IndexTypeOK /\ InFlightAreTyped)'
<1> SUFFICES ASSUME IndexInv, IndexNext PROVE (IndexTypeOK /\ InFlightAreTyped)'
    OBVIOUS
<1>0. GoodRows'
    BY RowsStay
<1> USE DEF IndexInv, IndexTypeOK, Listed, InFlightAreTyped, InFlight
<1>1. ASSUME NEW t \in Touch, NEW s \in Session, TouchArrives(t, s)
      PROVE  (IndexTypeOK /\ InFlightAreTyped)'
    <2>1. Listed(s) => rows[s].title \in Title
        BY DEF Row
    <2>2. /\ touch' \in [Touch -> [at : {"idle", "creating", "counting", "naming", "done"},
                                   s : Session \cup {Null}, read : Title, seed : BOOLEAN]]
          /\ touch'[t].s = s /\ \A u \in Touch \ {t} : touch'[u] = touch[u]
        BY <1>1, <2>1 DEF TouchArrives, Title
    <2> QED BY <1>0, <1>1, <2>2 DEF TouchArrives, GoodRows
<1>2. ASSUME NEW t \in Touch, TouchCreates(t) \/ TouchCounts(t) \/ TouchNames(t)
      PROVE  (IndexTypeOK /\ InFlightAreTyped)'
    <2>1. \E at \in {"counting", "naming", "done"} : touch' = [touch EXCEPT ![t].at = at]
        BY <1>2 DEF TouchCreates, TouchCounts, TouchNames
    <2>2. touch[t].at # "idle" /\ UNCHANGED <<projects, made, patch, renamed, orphaned>>
        BY <1>2 DEF TouchCreates, TouchCounts, TouchNames
    <2> QED BY <1>0, <2>1, <2>2 DEF GoodRows
<1>3. ASSUME NEW p \in Patch, NEW s \in Session, NEW body \in Body, PatchArrives(p, s, body)
      PROVE  (IndexTypeOK /\ InFlightAreTyped)'
    BY <1>0, <1>3 DEF PatchArrives, GoodRows
<1>4. ASSUME NEW p \in Patch, PatchChecks(p) \/ PatchWrites(p)
      PROVE  (IndexTypeOK /\ InFlightAreTyped)'
    <2>1. \E at \in {"writing", "done"} : patch' = [patch EXCEPT ![p].at = at]
        BY <1>4 DEF PatchChecks, PatchWrites
    <2>2. /\ patch[p].at \in {"checking", "writing"} /\ renamed' \subseteq Touch
          /\ UNCHANGED <<projects, made, touch, orphaned>>
        BY <1>4 DEF PatchChecks, PatchWrites
    <2> QED BY <1>0, <2>1, <2>2 DEF GoodRows
<1>5. ASSUME NEW q \in Project, MakesProject(q) \/ DeletesProject(q)
      PROVE  (IndexTypeOK /\ InFlightAreTyped)'
    BY <1>0, <1>5 DEF MakesProject, DeletesProject, GoodRows
<1>6. ASSUME NEW s \in Session, Deletes(s) \/ \E q \in made \cup {Null} : Posts(s, q)
      PROVE  (IndexTypeOK /\ InFlightAreTyped)'
    BY <1>0, <1>6 DEF Deletes, Posts, GoodRows
<1> QED BY <1>1, <1>2, <1>3, <1>4, <1>5, <1>6 DEF IndexNext

\* A title becomes the user's own only by a PATCH, which marks the touches
\* under way.
LEMMA OwnTitles ==
    ASSUME IndexInv, IndexNext, NEW s \in DOMAIN rows', rows'[s].title = "own"
    PROVE  (Listed(s) /\ rows[s].title = "own") \/ InFlight(s) \subseteq renamed'
<1> USE DEF IndexInv, IndexTypeOK, Listed
<1>1. CASE UNCHANGED rows
    BY <1>1
<1>2. ASSUME NEW t \in Touch, TouchCreates(t) \/ TouchCounts(t) \/ TouchNames(t)
      PROVE  Listed(s) /\ rows[s].title = "own"
    BY <1>2 DEF TouchCreates, TouchCounts, TouchNames, Inserted, Fresh, Row
<1>3. ASSUME NEW p \in Patch, PatchWrites(p)
      PROVE  (Listed(s) /\ rows[s].title = "own") \/ InFlight(s) \subseteq renamed'
    <2>1. patch[p].body \in Body
        BY <1>3 DEF PatchWrites, InFlightAreTyped
    <2> QED BY <1>3, <2>1, ChangedRow DEF PatchWrites
<1>4. ASSUME NEW x \in Session, Deletes(x) \/ \E q \in made \cup {Null} : Posts(x, q)
      PROVE  Listed(s) /\ rows[s].title = "own"
    BY <1>4 DEF Deletes, Posts, Inserted, Fresh
<1>5. ASSUME NEW q \in Project, DeletesProject(q)
      PROVE  Listed(s) /\ rows[s].title = "own"
    BY <1>5 DEF DeletesProject, Released, Row
<1> QED BY <1>1, <1>2, <1>3, <1>4, <1>5
        DEF IndexNext, TouchArrives, PatchArrives, PatchChecks, MakesProject

\* A touch under way keeps its session and what it has read.
LEMMA TouchGoesOn ==
    ASSUME IndexInv, IndexNext, NEW t \in Touch,
           touch'[t].at \in {"creating", "counting", "naming"}
    PROVE  \/ \E s \in Session : TouchArrives(t, s)
           \/ /\ touch[t].at \in {"creating", "counting", "naming"}
              /\ touch'[t].s = touch[t].s /\ touch'[t].read = touch[t].read
              /\ \/ touch'[t].at = touch[t].at
                 \/ touch'[t].at = "naming" => touch[t].read = "none"
<1> USE DEF IndexInv, IndexTypeOK
<1>1. ASSUME NEW u \in Touch, TouchCreates(u) \/ TouchCounts(u) \/ TouchNames(u)
      PROVE  /\ touch[t].at \in {"creating", "counting", "naming"}
             /\ touch'[t].s = touch[t].s /\ touch'[t].read = touch[t].read
             /\ \/ touch'[t].at = touch[t].at
                \/ touch'[t].at = "naming" => touch[t].read = "none"
    <2>1. CASE u = t
        BY <1>1, <2>1 DEF TouchCreates, TouchCounts, TouchNames, Unnamed
    <2>2. CASE u # t
        BY <1>1, <2>2 DEF TouchCreates, TouchCounts, TouchNames
    <2> QED BY <2>1, <2>2
<1>2. ASSUME NEW u \in Touch \ {t}, NEW s \in Session, TouchArrives(u, s)
      PROVE  touch'[t] = touch[t]
    BY <1>2 DEF TouchArrives
<1>3. CASE UNCHANGED touch
    BY <1>3
<1> QED BY <1>1, <1>2, <1>3 DEF IndexNext, PatchArrives, PatchChecks, PatchWrites, Posts,
                               Deletes, MakesProject, DeletesProject

LEMMA IndexKnows == IndexInv /\ IndexNext => (TouchesKnow /\ NamesTheUnnamed /\ PatchesKnow)'
<1> SUFFICES ASSUME IndexInv, IndexNext PROVE (TouchesKnow /\ NamesTheUnnamed /\ PatchesKnow)'
    OBVIOUS
<1> USE DEF IndexInv
<1>0. renamed \subseteq renamed' /\ orphaned \subseteq orphaned'
    BY DEF IndexNext, TouchArrives, TouchCreates, TouchCounts, TouchNames, PatchArrives,
           PatchChecks, PatchWrites, Posts, Deletes, MakesProject, DeletesProject
<1>1. TouchesKnow'
    <2> SUFFICES ASSUME NEW t \in Touch,
                        touch'[t].at \in {"creating", "counting", "naming"},
                        touch'[t].read = "none",
                        touch'[t].s \in DOMAIN rows',
                        rows'[touch'[t].s].title = "own"
                 PROVE  t \in renamed'
        BY DEF TouchesKnow, Listed
    <2>1. ASSUME NEW s \in Session, TouchArrives(t, s)
          PROVE  FALSE
        BY <2>1 DEF TouchArrives, Listed, IndexTypeOK
    <2>2. CASE /\ touch[t].at \in {"creating", "counting", "naming"}
               /\ touch'[t].s = touch[t].s /\ touch'[t].read = touch[t].read
        <3>1. t \in InFlight(touch'[t].s)
            BY <2>2 DEF InFlight
        <3>2. \/ Listed(touch'[t].s) /\ rows[touch'[t].s].title = "own"
              \/ InFlight(touch'[t].s) \subseteq renamed'
            BY OwnTitles
        <3> QED BY <1>0, <2>2, <3>1, <3>2 DEF TouchesKnow
    <2> QED BY <2>1, <2>2, TouchGoesOn
<1>2. NamesTheUnnamed'
    <2> SUFFICES ASSUME NEW t \in Touch, touch'[t].at = "naming"
                 PROVE  touch'[t].read = "none"
        BY DEF NamesTheUnnamed
    <2>1. ASSUME NEW s \in Session, TouchArrives(t, s)
          PROVE  FALSE
        BY <2>1 DEF TouchArrives, IndexTypeOK
    <2> QED BY <2>1, TouchGoesOn DEF NamesTheUnnamed
<1>3. PatchesKnow'
    <2> SUFFICES ASSUME NEW p \in Patch, patch'[p].at = "writing",
                        patch'[p].body.field = "project"
                 PROVE  patch'[p].body.to \in projects' \cup {Null} \/ p \in orphaned'
        BY DEF PatchesKnow
    <2> USE DEF IndexTypeOK
    <2>1. ASSUME NEW q \in Project, DeletesProject(q)
          PROVE  patch'[p].body.to \in projects' \cup {Null} \/ p \in orphaned'
        <3>1. patch[p].at = "writing" /\ patch[p].body.field = "project" /\ patch[p].body \in Change
            BY <2>1, IndexAssumption DEF DeletesProject, InFlightAreTyped
        <3>2. patch[p].body = [field |-> "project", to |-> patch[p].body.to]
            BY <3>1 DEF Change
        <3>3. patch[p].body.to = q => p \in orphaned'
            BY <2>1, <3>1, <3>2 DEF DeletesProject
        <3> QED BY <1>0, <2>1, <3>1, <3>3 DEF DeletesProject, PatchesKnow
    <2>2. ASSUME NEW o \in Patch, NEW s \in Session, NEW body \in Body, PatchArrives(o, s, body)
          PROVE  patch'[p].body.to \in projects' \cup {Null} \/ p \in orphaned'
        BY <2>2, <1>0 DEF PatchArrives, PatchesKnow
    <2>3. ASSUME NEW o \in Patch, PatchChecks(o) \/ PatchWrites(o)
          PROVE  patch'[p].body.to \in projects' \cup {Null} \/ p \in orphaned'
        BY <2>3, <1>0 DEF PatchChecks, PatchWrites, PatchesKnow
    <2>4. CASE patch' = patch /\ projects \subseteq projects'
        BY <2>4, <1>0 DEF PatchesKnow
    <2> QED BY <2>1, <2>2, <2>3, <2>4 DEF IndexNext, TouchArrives, TouchCreates, TouchCounts,
                TouchNames, Posts, Deletes, MakesProject
<1> QED BY <1>1, <1>2, <1>3

LEMMA IndexStep == IndexInv /\ IndexNext => IndexInv'
BY IndexTypes, IndexKnows DEF IndexInv

LEMMA OwnTitleStep ==
    ASSUME IndexInv, IndexNext, NEW s \in DOMAIN rows \cap DOMAIN rows',
           rows[s].title = "own", rows'[s].title = "auto"
    PROVE  \E t \in renamed : touch[t].s = s /\ touch'[t] # touch[t]
<1> USE DEF IndexInv, IndexTypeOK
<1>1. ASSUME NEW t \in Touch, TouchNames(t)
      PROVE  \E u \in renamed : touch[u].s = s /\ touch'[u] # touch[u]
    <2>1. touch[t].s = s /\ touch[t].at = "naming" /\ touch'[t].at = "done"
        BY <1>1 DEF TouchNames
    <2>2. t \in renamed
        BY <2>1 DEF TouchesKnow, NamesTheUnnamed, Listed
    <2> QED BY <2>1, <2>2
<1>2. ASSUME NEW p \in Patch, PatchWrites(p)
      PROVE  FALSE
    <2>1. patch[p].body \in Body
        BY <1>2 DEF PatchWrites, InFlightAreTyped
    <2> QED BY <1>2, <2>1, ChangedRow DEF PatchWrites
<1>3. ASSUME NEW t \in Touch, TouchCreates(t) \/ TouchCounts(t)
      PROVE  FALSE
    <2>1. CASE TouchCreates(t)
        BY <2>1 DEF TouchCreates, Inserted, Listed
    <2>2. CASE TouchCounts(t)
        BY <2>2 DEF TouchCounts, Row
    <2> QED BY <1>3, <2>1, <2>2
<1>4. ASSUME NEW x \in Session, Deletes(x) \/ \E q \in made \cup {Null} : Posts(x, q)
      PROVE  FALSE
    BY <1>4 DEF Deletes, Posts, Inserted, Listed
<1>5. ASSUME NEW q \in Project, DeletesProject(q)
      PROVE  FALSE
    BY <1>5 DEF DeletesProject, Released, Row
<1>6. CASE UNCHANGED rows
    BY <1>6
<1> QED BY <1>1, <1>2, <1>3, <1>4, <1>5, <1>6
        DEF IndexNext, TouchArrives, PatchArrives, PatchChecks, MakesProject

LEMMA OrphanStep ==
    ASSUME IndexInv, IndexNext, NEW s \in Session, Orphan(s)', ~Orphan(s), Listed(s)
    PROVE  \E p \in orphaned : patch[p].s = s /\ patch'[p] # patch[p]
<1> USE DEF IndexInv, IndexTypeOK, Orphan, Listed
<1>1. ASSUME NEW p \in Patch, PatchWrites(p)
      PROVE  \E o \in orphaned : patch[o].s = s /\ patch'[o] # patch[o]
    <2>1. patch[p].body \in Body /\ patch[p].at = "writing" /\ patch'[p].at = "done"
        BY <1>1 DEF PatchWrites, InFlightAreTyped
    <2>2. /\ patch[p].s = s /\ patch[p].body.field = "project"
          /\ rows'[s].project = patch[p].body.to
        BY <1>1, <2>1, ChangedRow DEF PatchWrites
    <2>3. patch[p].body.to \notin projects \cup {Null}
        BY <1>1, <2>2 DEF PatchWrites
    <2> QED BY <2>1, <2>2, <2>3 DEF PatchesKnow
<1>2. ASSUME NEW t \in Touch, TouchCreates(t) \/ TouchCounts(t) \/ TouchNames(t)
      PROVE  FALSE
    <2>1. projects' = projects /\ rows'[s].project = rows[s].project
        BY <1>2 DEF TouchCreates, TouchCounts, TouchNames, Inserted, Row
    <2> QED BY <2>1
<1>3. ASSUME NEW x \in Session, Deletes(x) \/ \E q \in made \cup {Null} : Posts(x, q)
      PROVE  FALSE
    BY <1>3 DEF Deletes, Posts, Inserted
<1>4. ASSUME NEW q \in Project, DeletesProject(q)
      PROVE  FALSE
    BY <1>4 DEF DeletesProject, Released, Row
<1>5. CASE UNCHANGED rows /\ projects \subseteq projects'
    BY <1>5
<1> QED BY <1>1, <1>2, <1>3, <1>4, <1>5
        DEF IndexNext, TouchArrives, PatchArrives, PatchChecks, MakesProject
-----------------------------------------------------------------------------
(***************************************************************************)
(* The cap.  A call that is under way on a day was let in when the day was *)
(* below the cap, so a day that has reached it has room for those calls.   *)
(***************************************************************************)
OnDay(d) == {c \in Caller : \/ call[c].at = "recording" /\ call[c].on = d
                            \/ call[c].at = "calling" /\ d = today}

HasRoom(sum, under) ==
    \/ sum < Cap
    \/ sum + MaxPrice * Cardinality(under) <= Cap - 1 + MaxPrice * Cardinality(Caller)

SpendInv ==
    /\ SpendTypeOK
    /\ \A d \in Day \ rolled : HasRoom(cost[d], OnDay(d))
    /\ \A d \in Day : d > today => cost[d] = 0
    /\ \A c \in Caller : call[c].at # "idle" => call[c].on <= today
    /\ \A d \in rollup : d < today

LEMMA Products ==
    ASSUME NEW a \in Nat, NEW k \in Nat, NEW n \in Nat
    PROVE  /\ a * k \in Nat
           /\ a * (k + 1) = a * k + a
           /\ k <= n => a * k <= a * n
OBVIOUS

LEMMA CallersCount ==
    ASSUME NEW F \in SUBSET Caller
    PROVE  /\ IsFiniteSet(F) /\ Cardinality(F) \in Nat
           /\ Cardinality(F) <= Cardinality(Caller)
           /\ \A G \in SUBSET F : Cardinality(G) \in Nat /\ Cardinality(G) <= Cardinality(F)
           /\ \A c \in F : Cardinality(F \ {c}) = Cardinality(F) - 1
BY SpendingAssumption, FS_Subset, FS_CardinalityType, FS_RemoveElement

LEMMA RoomStays ==
    ASSUME NEW sum \in Nat, NEW F \in SUBSET Caller, NEW G \in SUBSET F, HasRoom(sum, F)
    PROVE  HasRoom(sum, G)
<1>1. MaxPrice * Cardinality(G) <= MaxPrice * Cardinality(F)
    BY CallersCount, Products, SpendingAssumption
<1>2. /\ MaxPrice * Cardinality(G) \in Nat /\ MaxPrice * Cardinality(F) \in Nat
      /\ MaxPrice * Cardinality(Caller) \in Nat /\ Cap \in Nat
    BY CallersCount, Products, SpendingAssumption
<1> DEFINE f == MaxPrice * Cardinality(F)  g == MaxPrice * Cardinality(G)
           n == MaxPrice * Cardinality(Caller)
<1>3. sum < Cap \/ sum + f <= Cap - 1 + n
    BY DEF HasRoom
<1>4. sum < Cap \/ sum + g <= Cap - 1 + n
    <2> HIDE DEF f, g, n
    <2>1. f \in Nat /\ g \in Nat /\ n \in Nat /\ g <= f
        BY <1>1, <1>2 DEF f, g, n
    <2> QED BY <1>2, <1>3, <2>1
<1> QED BY <1>4 DEF HasRoom

LEMMA RoomIsUsed ==
    ASSUME NEW sum \in Nat, NEW F \in SUBSET Caller, NEW c \in F, NEW G \in SUBSET (F \ {c}),
           NEW price \in 0 .. MaxPrice, HasRoom(sum, F)
    PROVE  HasRoom(sum + price, G)
<1> DEFINE f == Cardinality(F)  g == Cardinality(G)  n == Cardinality(Caller)
<1>1. /\ f \in Nat /\ g \in Nat /\ n \in Nat /\ MaxPrice \in Nat /\ Cap \in Nat
      /\ g + 1 <= f /\ g + 1 <= n
    <2>1. f \in Nat /\ f <= n /\ Cardinality(F \ {c}) = f - 1
        BY CallersCount
    <2>2. g \in Nat /\ g <= Cardinality(F \ {c})
        BY CallersCount
    <2>3. n \in Nat
        BY SpendingAssumption, FS_CardinalityType
    <2> QED BY <2>1, <2>2, <2>3, SpendingAssumption
<1>2. /\ MaxPrice * g + MaxPrice <= MaxPrice * f
      /\ MaxPrice * g + MaxPrice <= MaxPrice * n
    <2>1. MaxPrice * (g + 1) <= MaxPrice * f /\ MaxPrice * (g + 1) <= MaxPrice * n
        BY <1>1, Products
    <2> QED BY <1>1, <2>1, Products
<1>3. MaxPrice * g \in Nat /\ MaxPrice * f \in Nat /\ MaxPrice * n \in Nat
    BY <1>1, Products
<1> HIDE DEF f, g, n
<1>4. sum < Cap \/ sum + MaxPrice * f <= Cap - 1 + MaxPrice * n
    BY DEF HasRoom, f, n
<1>5. sum + price + MaxPrice * g <= Cap - 1 + MaxPrice * n
    BY <1>1, <1>2, <1>3, <1>4
<1> QED BY <1>5 DEF HasRoom, g, n

LEMMA SpendStarts == SpendInit => SpendInv
<1> SUFFICES ASSUME SpendInit PROVE SpendInv
    OBVIOUS
<1>1. SpendTypeOK
    BY SpendingAssumption DEF SpendInit, SpendTypeOK, Day, Idle
<1>2. /\ \A d \in Day \ rolled : HasRoom(cost[d], OnDay(d))
      /\ \A d \in Day : d > today => cost[d] = 0
    BY SpendingAssumption DEF SpendInit, HasRoom
<1>3. /\ \A c \in Caller : call[c].at # "idle" => call[c].on <= today
      /\ \A d \in rollup : d < today
    BY DEF SpendInit, Idle
<1> QED BY <1>1, <1>2, <1>3 DEF SpendInv

\* Calls that end, or go on where they were let in, leave every day its room.
LEMMA RoomKept ==
    ASSUME SpendInv, cost' = cost, rolled \subseteq rolled',
           \A d \in Day : OnDay(d)' \subseteq OnDay(d) \/ cost[d] < Cap
    PROVE  \A d \in Day \ rolled' : HasRoom(cost'[d], OnDay(d)')
<1> SUFFICES ASSUME NEW d \in Day \ rolled' PROVE HasRoom(cost[d], OnDay(d)')
    OBVIOUS
<1>1. cost[d] \in Nat /\ HasRoom(cost[d], OnDay(d)) /\ OnDay(d) \in SUBSET Caller
    BY DEF SpendInv, SpendTypeOK, OnDay
<1>2. CASE cost[d] < Cap
    BY <1>2 DEF HasRoom
<1>3. CASE OnDay(d)' \subseteq OnDay(d)
    BY <1>1, <1>3, RoomStays
<1> QED BY <1>2, <1>3

LEMMA SpendStep == SpendInv /\ SpendNext => SpendInv'
<1> SUFFICES ASSUME SpendInv, SpendNext PROVE SpendInv'
    OBVIOUS
<1> USE SpendingAssumption DEF SpendInv, SpendTypeOK, Day
<1>1. ASSUME NEW c \in Caller, Asks(c)
      PROVE  SpendInv'
    <2>1. SpendTypeOK'
        BY <1>1 DEF Asks, Idle
    <2>2. \A d \in Day : OnDay(d)' \subseteq OnDay(d) \/ cost[d] < Cap
        BY <1>1 DEF Asks, Allowed, OnDay, Idle
    <2>3. \A d \in Day \ rolled' : HasRoom(cost'[d], OnDay(d)')
        BY <1>1, <2>2, RoomKept DEF Asks
    <2> QED BY <1>1, <2>1, <2>3 DEF Asks, Idle
<1>2. ASSUME NEW c \in Caller, Fails(c) \/ RecordFails(c)
      PROVE  SpendInv'
    <2>0. call' = [call EXCEPT ![c] = Idle] /\ UNCHANGED <<today, cost, rollup, rolled>>
        BY <1>2 DEF Fails, RecordFails
    <2>1. SpendTypeOK'
        BY <2>0 DEF Idle
    <2>2. \A d \in Day : OnDay(d)' \subseteq OnDay(d)
        BY <2>0 DEF OnDay, Idle
    <2>3. \A d \in Day \ rolled' : HasRoom(cost'[d], OnDay(d)')
        BY <2>0, <2>2, RoomKept
    <2> QED BY <2>0, <2>1, <2>3 DEF Idle
<1>3. ASSUME NEW c \in Caller, Answers(c)
      PROVE  SpendInv'
    <2>1. SpendTypeOK'
        BY <1>3 DEF Answers
    <2>2. \A d \in Day : OnDay(d)' \subseteq OnDay(d)
        BY <1>3 DEF Answers, OnDay
    <2>3. \A d \in Day \ rolled' : HasRoom(cost'[d], OnDay(d)')
        BY <1>3, <2>2, RoomKept DEF Answers
    <2> QED BY <1>3, <2>1, <2>3 DEF Answers
<1>4. ASSUME NEW c \in Caller, Records(c)
      PROVE  SpendInv'
    <2> DEFINE on == call[c].on  price == call[c].price
    <2>1. /\ on \in Day /\ on <= today /\ price \in 0 .. MaxPrice
          /\ c \in OnDay(on)
        BY <1>4 DEF Records, OnDay
    <2>2. /\ cost' \in [Day -> Nat]
          /\ cost'[on] = cost[on] + price
          /\ \A d \in Day \ {on} : cost'[d] = cost[d]
        BY <1>4, <2>1 DEF Records
    <2>3. SpendTypeOK'
        BY <1>4, <2>2 DEF Records, Idle
    <2>4. /\ \A d \in Day : OnDay(d)' \subseteq OnDay(d) \ {c}
          /\ rolled' = rolled
        BY <1>4 DEF Records, OnDay, Idle
    <2>5. ASSUME NEW d \in Day \ rolled'
          PROVE  HasRoom(cost'[d], OnDay(d)')
        <3>1. cost[d] \in Nat /\ HasRoom(cost[d], OnDay(d)) /\ OnDay(d) \in SUBSET Caller
            BY <2>4 DEF OnDay
        <3>2. CASE d = on
            BY <2>1, <2>2, <2>4, <3>1, <3>2, RoomIsUsed
        <3>3. CASE d # on
            <4>1. cost'[d] = cost[d] /\ OnDay(d)' \in SUBSET OnDay(d)
                BY <2>2, <2>4, <3>3
            <4> QED BY <3>1, <4>1, RoomStays
        <3> QED BY <3>2, <3>3
    <2>6. \A d \in Day : d > today' => cost'[d] = 0
        BY <1>4, <2>1, <2>2 DEF Records
    <2> QED BY <1>4, <2>3, <2>5, <2>6 DEF Records, Idle
<1>5. CASE Midnight
    <2>1. SpendTypeOK'
        BY <1>5 DEF Midnight
    <2>2. \A d \in Day : OnDay(d)' \subseteq OnDay(d) \/ cost[d] < Cap
        BY <1>5 DEF Midnight, OnDay
    <2>3. \A d \in Day \ rolled' : HasRoom(cost'[d], OnDay(d)')
        BY <1>5, <2>2, RoomKept DEF Midnight
    <2> QED BY <1>5, <2>1, <2>3 DEF Midnight
<1>6. CASE RollupFetches \/ \E d \in rollup : RollupEnds(d)
    <2>1. /\ rollup' \subseteq Day /\ \A d \in rollup' : d < today'
          /\ UNCHANGED <<today, cost, call, rolled>>
        <3>1. today > 0 => today - 1 \in Day /\ today - 1 < today
            OBVIOUS
        <3>2. UNCHANGED <<today, cost, call, rolled>>
            BY <1>6 DEF RollupFetches, RollupEnds
        <3>3. \/ rollup' \subseteq rollup
              \/ today > 0 /\ rollup' = rollup \cup {today - 1}
            BY <1>6 DEF RollupFetches, RollupEnds
        <3> QED BY <3>1, <3>2, <3>3
    <2>2. \A d \in Day : OnDay(d)' \subseteq OnDay(d)
        BY <1>6 DEF RollupFetches, RollupEnds, OnDay
    <2>3. \A d \in Day \ rolled' : HasRoom(cost'[d], OnDay(d)')
        BY <1>6, <2>2, RoomKept DEF RollupFetches, RollupEnds
    <2> QED BY <2>1, <2>3
<1>7. ASSUME NEW d \in rollup, RollupWrites(d)
      PROVE  SpendInv'
    <2>1. PICK sum \in 0 .. Cap : cost' = [cost EXCEPT ![d] = sum]
        BY <1>7 DEF RollupWrites
    <2>2. SpendTypeOK'
        BY <1>7, <2>1 DEF RollupWrites
    <2>3. ASSUME NEW e \in Day \ rolled'
          PROVE  HasRoom(cost'[e], OnDay(e)')
        <3>1. cost'[e] = cost[e] /\ OnDay(e)' = OnDay(e) /\ e \notin rolled
            BY <1>7, <2>1 DEF RollupWrites, OnDay
        <3> QED BY <3>1
    <2> QED BY <1>7, <2>1, <2>2, <2>3 DEF RollupWrites
<1> QED BY <1>1, <1>2, <1>3, <1>4, <1>5, <1>6, <1>7 DEF SpendNext

LEMMA SpendBounded == SpendInv => OvershootBounded
<1> SUFFICES ASSUME SpendInv, NEW d \in Day \ rolled
             PROVE  cost[d] <= Cap - 1 + MaxPrice * Cardinality(Caller)
    BY DEF OvershootBounded
<1>1. /\ cost[d] \in Nat /\ Cap \in Nat
      /\ MaxPrice * Cardinality(Caller) \in Nat
      /\ MaxPrice * Cardinality(OnDay(d)) \in Nat
    BY SpendingAssumption, CallersCount, Products, FS_CardinalityType
       DEF SpendInv, SpendTypeOK, OnDay
<1>2. HasRoom(cost[d], OnDay(d))
    BY DEF SpendInv
<1> DEFINE all == MaxPrice * Cardinality(Caller)  some == MaxPrice * Cardinality(OnDay(d))
<1>3. cost[d] < Cap \/ cost[d] + some <= Cap - 1 + all
    BY <1>2 DEF HasRoom
<1>4. cost[d] <= Cap - 1 + all
    <2> HIDE DEF all, some
    <2>1. all \in Nat /\ some \in Nat
        BY <1>1 DEF all, some
    <2> QED BY <1>1, <1>3, <2>1
<1> QED BY <1>4
-----------------------------------------------------------------------------
(***************************************************************************)
(* The composition: a step is a step of one part and leaves the others.    *)
(***************************************************************************)
AgentInv ==
    /\ part \in Part
    /\ StreamInv /\ TurnsInv /\ IndexInv /\ SpendInv /\ ForkInv /\ BridgeInv /\ NoticeInv

LEMMA PartsStay ==
    /\ StreamInv /\ UNCHANGED stream => StreamInv'
    /\ TurnsInv /\ UNCHANGED turns => TurnsInv'
    /\ IndexInv /\ UNCHANGED index => IndexInv'
    /\ SpendInv /\ UNCHANGED spend => SpendInv'
    /\ BridgeInv /\ UNCHANGED bridge => BridgeInv'
<1>1. StreamInv /\ UNCHANGED stream => StreamInv'
    BY DEF stream, StreamInv, StreamTypeOK, QueueIsRest, HeldIsLast, StreamControl, Quiet
<1>2. TurnsInv /\ UNCHANGED turns => TurnsInv'
    BY DEF turns, TurnsInv, ConductorTypeOK, BatchGoesOn, RunsAreLogged, Logged
<1>3. IndexInv /\ UNCHANGED index => IndexInv'
    BY DEF index, IndexInv, IndexTypeOK, TouchesKnow, NamesTheUnnamed, PatchesKnow, InFlightAreTyped,
           Listed
<1>4. SpendInv /\ UNCHANGED spend => SpendInv'
    BY DEF spend, SpendInv, SpendTypeOK, HasRoom, OnDay
<1>5. BridgeInv /\ UNCHANGED bridge => BridgeInv'
    BY BridgeStep
<1> QED BY <1>1, <1>2, <1>3, <1>4, <1>5

LEMMA AgentStarts == Init => AgentInv
BY StreamStarts, TurnsStart, IndexStarts, SpendStarts, ForkStarts, BridgeStarts, NoticesStart
   DEF Init, AgentInv

LEMMA AgentStep == AgentInv /\ [Next]_vars => AgentInv'
BY StreamStep, TurnsStep, IndexStep, SpendStep, ForkStep, BridgeStep, NoticesStep,
   PartsStay, ForkStays, NoticesStay
   DEF AgentInv, Next, vars

LEMMA AgentAlways == Spec => []AgentInv
BY AgentStarts, AgentStep, PTL DEF Spec

(* The variables of every part keep their types.                            *)
THEOREM WorkerTypes == Spec => []TypeOK
<1>1. AgentInv => TypeOK
    BY ForkTypes DEF AgentInv, TypeOK, StreamInv, TurnsInv, IndexInv, SpendInv, BridgeInv,
                     NoticeInv
<1> QED BY <1>1, AgentAlways, PTL

(* However calls overlap and straddle midnight, a day's cost stays within   *)
(* one dearest call per caller of the cap.                                  *)
THEOREM CapHolds == Spec => []OvershootBounded
<1>1. AgentInv => OvershootBounded
    BY SpendBounded DEF AgentInv
<1> QED BY <1>1, AgentAlways, PTL

(* However turns overlap and end, the transcript misses at most the last    *)
(* run of each, and what the session itself has refused.                    *)
THEOREM TurnsAreLogged == Spec => []RunsAreLogged
<1>1. AgentInv => RunsAreLogged
    BY DEF AgentInv, TurnsInv
<1> QED BY <1>1, AgentAlways, PTL

(* rpcStream implements the frame feed: no frame is lost, repeated or given *)
(* out of order, and none is withheld by the end of the stream.             *)
THEOREM StreamRefinesFeed == Spec => KeepsFrameFeed
<1>1. Init => Feed!Init
    BY DEF Init, StreamInit, Feed!Init
<1>2. AgentInv /\ [Next]_vars => [Feed!Next]_(Feed!vars)
    <2>1. UNCHANGED stream => UNCHANGED Feed!vars
        BY DEF stream, Feed!vars
    <2> QED BY <2>1, StreamFeeds DEF AgentInv, Next, vars
<1> QED BY <1>1, <1>2, AgentAlways, PTL DEF Spec, KeepsFrameFeed, Feed!Spec

(* A title the user has set is overwritten only by a touch that was under   *)
(* way when it was set.                                                     *)
THEOREM TitlesAreKept == Spec => OwnTitleKept
<1> DEFINE Keeps == \A s \in DOMAIN rows \cap DOMAIN rows' :
                       rows[s].title = "own" /\ rows'[s].title = "auto"
                         => \E t \in renamed : touch[t].s = s /\ touch'[t] # touch[t]
<1>1. AgentInv /\ [Next]_vars => [Keeps]_index
    <2>1. IndexInv /\ IndexNext => Keeps
        BY OwnTitleStep
    <2> HIDE DEF Keeps
    <2> QED BY <2>1 DEF AgentInv, Next, vars
<1> QED BY <1>1, AgentAlways, PTL DEF Spec, OwnTitleKept

(* A session is orphaned only by a PATCH that the deletion of its project   *)
(* has overtaken.                                                           *)
THEOREM OrphansAreRaced == Spec => OrphansNeedARace
<1> DEFINE Races == \A s \in Session :
                       Orphan(s)' /\ ~Orphan(s)
                         => \/ ~Listed(s)
                            \/ \E p \in orphaned : patch[p].s = s /\ patch'[p] # patch[p]
<1>1. AgentInv /\ [Next]_vars => [Races]_index
    <2>1. IndexInv /\ IndexNext => Races
        BY OrphanStep
    <2> HIDE DEF Races
    <2> QED BY <2>1 DEF AgentInv, Next, vars
<1> QED BY <1>1, AgentAlways, PTL DEF Spec, OrphansNeedARace

(* What a skill that had the clone to itself reports as pushed is in the    *)
(* history of Artifacts from then on, whatever the owner, the upstream and  *)
(* later skills do, and wherever the container is lost.                     *)
THEOREM PushesStay == Spec => []PushedStays
<1>1. AgentInv => PushedStays
    BY DEF AgentInv, ForkInv
<1> QED BY <1>1, AgentAlways, PTL

(* Whatever ids callers choose, timers do and clients leave, an answer of   *)
(* the Codex process finds the caller of its request and no other, unless   *)
(* two requests share an id.                                                *)
THEOREM AnswersArrive == Spec => []AnswersFindCallers
<1>1. AgentInv => AnswersFindCallers
    BY DEF AgentInv, BridgeInv, AnswersFindCallers
<1> QED BY <1>1, AgentAlways, PTL

(* What the process tells of a stream that is open, and whose id no other   *)
(* request has, is not written to another caller.  What it tells of others, *)
(* of a call of /rpc or of a stream that has ended, may be.                 *)
THEOREM StreamsAreApart == Spec => NoCrosstalk
<1> DEFINE Apart == \A r, q \in Request :
                       Heard(r, q) /\ r # q => ~(q \in Streams /\ IsOpen(q) /\ Unshared(q))
<1>1. AgentInv /\ [Next]_vars => [Apart]_bridge
    <2>1. BridgeInv /\ [BridgeNext]_bridge => [Apart]_bridge
        BY StepNoCrosstalk
    <2> HIDE DEF Apart
    <2> QED BY <2>1 DEF AgentInv, Next, vars
<1> QED BY <1>1, AgentAlways, PTL DEF Spec, NoCrosstalk

(* The owner is told of a firing at most once on each device, and once more *)
(* for each attempt that threw after it had told somebody; what is recorded *)
(* as sent was sent, and a brief that told somebody and is over is recorded *)
(* (morningBriefing.ts:140-161, notifier.ts:213-231).                       *)
THEOREM OwnersAreTold == Spec => []OwnerToldOnce
<1>1. AgentInv => OwnerToldOnce
    BY NoticesHold DEF AgentInv
<1> QED BY <1>1, AgentAlways, PTL
=============================================================================
