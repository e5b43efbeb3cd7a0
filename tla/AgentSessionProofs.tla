------------------------- MODULE AgentSessionProofs -------------------------
(***************************************************************************)
(* The theorems about the message trees, for any number of sessions and    *)
(* requests, and trees of any size.                                        *)
(***************************************************************************)
EXTENDS AgentSession, FiniteSetTheorems, TLAPS

(***************************************************************************)
(* Induction, said of a set instead of an operator.                        *)
(***************************************************************************)
LEMMA LeastElement ==
    ASSUME NEW S \in SUBSET Nat, S # {}
    PROVE  \E n \in S : \A k \in S : n <= k
<1> DEFINE R == OpToRel(<, Nat)
<1>1. IsWellFoundedOn(R, Nat)
  BY NatLessThanWellFounded
<1>2. \A a, b \in Nat : <<a, b>> \in R <=> a < b
  BY DEF OpToRel
<1> HIDE DEF R
<1>3. PICK x \in S : \A y \in S : ~ (<<y, x>> \in R)
  BY <1>1, WFMin
<1>4. ASSUME NEW y \in S PROVE x <= y
  <2>1. x \in Nat /\ y \in Nat
    OBVIOUS
  <2>2. <<y, x>> \in R <=> y < x
    BY <1>2, <2>1
  <2>3. ~ (<<y, x>> \in R)
    BY <1>3
  <2> QED BY <2>1, <2>2, <2>3
<1> QED BY <1>4

\* What holds at 0, and of each number's successor, holds up to any bound.
LEMMA UpToInduction ==
    ASSUME NEW S, NEW n \in Nat, 0 \in S,
           \A k \in 0 .. (n - 1) : k \in S => k + 1 \in S
    PROVE  \A k \in 0 .. n : k \in S
<1> DEFINE T == {k \in 0 .. n : k \notin S}
<1>1. SUFFICES ASSUME T # {} PROVE FALSE
  OBVIOUS
<1>2. T \in SUBSET Nat
  OBVIOUS
<1>3. 0 \notin T /\ \A k \in T : k \in 0 .. n /\ k \notin S
  OBVIOUS
<1>4. \A k \in 0 .. n : k \notin T => k \in S
  OBVIOUS
<1> HIDE DEF T
<1>5. PICK k \in T : \A j \in T : k <= j
  BY <1>1, <1>2, LeastElement
<1>6. k - 1 \in 0 .. (n - 1) /\ k - 1 \notin T
  BY <1>3, <1>5
<1>7. k - 1 \in S
  BY <1>4, <1>6
<1>8. (k - 1) + 1 = k
  BY <1>3, <1>5
<1> QED BY <1>3, <1>5, <1>6, <1>7, <1>8

-----------------------------------------------------------------------------
(***************************************************************************)
(* pathToRoot.  Its recursive function exists, falls to 0, and is not 0    *)
(* before it has passed the root.                                          *)
(***************************************************************************)
Tree(q) == /\ q \in Seq(Message)
           /\ \A i \in 1..Len(q) : q[i].parent < i /\ (q[i].parent = 0 => i = 1)

LEMMA MessageFields ==
    \A r \in Message : /\ r.parent \in Nat /\ r.what \in Place /\ r.of \in Place
                       /\ r.undo \in {"none", "available", "applied"}
BY DEF Message

\* up goes up n parents from m, staying at 0 above the root.
Climbs(up, q, m, n) ==
    /\ up \in [0..n -> 0..Len(q)]
    /\ up[0] = m
    /\ \A k \in 1..n : up[k] = IF up[k - 1] = 0 THEN 0 ELSE q[up[k - 1]].parent

\* One can go up as far as one likes.
LEMMA Ascent ==
    ASSUME NEW q, Tree(q), NEW m \in 1..Len(q)
    PROVE  \A n \in Nat : \E up : Climbs(up, q, m, n)
<1> DEFINE S == {n \in Nat : \E up : Climbs(up, q, m, n)}
<1>0. Len(q) \in Nat
  BY DEF Tree
<1>1. 0 \in S
  <2> DEFINE up == [k \in 0..0 |-> m]
  <2>1. up \in [0..0 -> 0..Len(q)] /\ up[0] = m
    BY <1>0
  <2>2. Climbs(up, q, m, 0)
    BY <2>1 DEF Climbs
  <2> QED BY <2>2
<1>2. ASSUME NEW n \in Nat, n \in S PROVE n + 1 \in S
  <2>1. PICK up : Climbs(up, q, m, n)
    BY <1>2
  <2> DEFINE x == IF up[n] = 0 THEN 0 ELSE q[up[n]].parent
             new == [k \in 0..(n + 1) |-> IF k = n + 1 THEN x ELSE up[k]]
  <2>2. up[n] \in 0..Len(q)
    BY <2>1 DEF Climbs
  <2>3. x \in 0..Len(q)
    BY <1>0, <2>2, MessageFields DEF Tree
  <2> HIDE DEF x
  <2>4. new \in [0..(n + 1) -> 0..Len(q)]
    BY <2>1, <2>3 DEF Climbs
  <2>5. new[0] = m
    BY <2>1 DEF Climbs
  <2>6. ASSUME NEW k \in 1..(n + 1)
        PROVE  new[k] = IF new[k - 1] = 0 THEN 0 ELSE q[new[k - 1]].parent
    <3>1. CASE k = n + 1
      <4>1. new[k] = x /\ new[k - 1] = up[n]
        BY <3>1
      <4> QED BY <4>1 DEF x
    <3>2. CASE k \in 1..n
      <4>1. new[k] = up[k] /\ new[k - 1] = up[k - 1]
        BY <3>2
      <4> QED BY <2>1, <3>2, <4>1 DEF Climbs
    <3> QED BY <3>1, <3>2
  <2> HIDE DEF new
  <2>7. Climbs(new, q, m, n + 1)
    BY <2>4, <2>5, <2>6 DEF Climbs
  <2>8. n + 1 \in Nat
    OBVIOUS
  <2> QED BY <2>7, <2>8
<1>3. ASSUME NEW n \in Nat PROVE n \in S
  <2>1. \A k \in 0..(n - 1) : k \in S => k + 1 \in S
    BY <1>2
  <2> HIDE DEF S
  <2>2. \A k \in 0..n : k \in S
    BY <1>1, <2>1, UpToInduction
  <2> QED BY <2>2
<1> QED BY <1>3

\* Such an ascent is at 0 by the time it has made as many steps as there are
\* messages, and once it is at 0 it stays there.
LEMMA AscentEnds ==
    ASSUME NEW q, Tree(q), NEW m \in 1..Len(q),
           NEW up, Climbs(up, q, m, Len(q))
    PROVE  \E d \in 0..(Len(q) - 1) :
               /\ up[d] # 0 /\ up[d + 1] = 0
               /\ \A k \in 0..d : up[k] # 0
               /\ \A k \in (d + 1)..Len(q) : up[k] = 0
<1> DEFINE L == Len(q)
<1>0. L \in Nat /\ L > 0 /\ m <= L
  BY DEF Tree
<1>1. /\ \A k \in 0..L : up[k] \in 0..L
      /\ up[0] = m
      /\ \A k \in 1..L : up[k] = IF up[k - 1] = 0 THEN 0 ELSE q[up[k - 1]].parent
  BY DEF Climbs
<1>2. ASSUME NEW k \in 0..(L - 1), up[k] # 0
      PROVE  up[k + 1] = q[up[k]].parent /\ up[k + 1] < up[k]
  <2>1. k + 1 \in 1..L /\ (k + 1) - 1 = k
    BY <1>0
  <2>2. up[k + 1] = q[up[k]].parent
    BY <1>1, <1>2, <2>1
  <2>3. up[k] \in 1..L
    BY <1>0, <1>1, <1>2
  <2> QED BY <2>2, <2>3 DEF Tree
<1>3. ASSUME NEW k \in 0..(L - 1), up[k] = 0 PROVE up[k + 1] = 0
  <2>1. k + 1 \in 1..L /\ (k + 1) - 1 = k
    BY <1>0
  <2> QED BY <1>1, <1>3, <2>1
<1> HIDE DEF L
<1>4. up[L] = 0
  <2> DEFINE S == {k \in 0..L : up[k] # 0 => up[k] + k <= m}
  <2>1. 0 \in S
    BY <1>0, <1>1
  <2>2. ASSUME NEW k \in 0..(L - 1), k \in S PROVE k + 1 \in S
    <3>1. k \in 0..L /\ k + 1 \in 0..L
      BY <1>0
    <3>2. up[k] \in Nat /\ up[k + 1] \in Nat /\ m \in Nat
      BY <1>0, <1>1, <3>1
    <3>3. CASE up[k] = 0
      BY <1>3, <3>1, <3>3
    <3>4. CASE up[k] # 0
      <4>1. up[k + 1] < up[k] /\ up[k] + k <= m
        BY <1>2, <2>2, <3>4
      <4> QED BY <3>1, <3>2, <4>1
    <3> QED BY <3>3, <3>4
  <2>3. L \in S
    <3>1. \A k \in 0..L : k \in S
      <4> HIDE DEF S
      <4> QED BY <1>0, <2>1, <2>2, UpToInduction
    <3> HIDE DEF S
    <3> QED BY <1>0, <3>1
  <2>4. up[L] # 0 => up[L] + L <= m
    BY <2>3
  <2>5. up[L] \in 0..L
    BY <1>0, <1>1
  <2> QED BY <1>0, <2>4, <2>5
<1>5. PICK e \in {k \in 0..L : up[k] = 0} : \A k \in {j \in 0..L : up[j] = 0} : e <= k
  <2>1. {k \in 0..L : up[k] = 0} \in SUBSET Nat
    BY <1>0
  <2>2. L \in {k \in 0..L : up[k] = 0}
    BY <1>0, <1>4
  <2> QED BY <2>1, <2>2, LeastElement
<1>6. e \in 1..L /\ up[e] = 0 /\ \A k \in 0..L : up[k] = 0 => e <= k
  BY <1>0, <1>1, <1>5
<1>7. \A k \in 0..(L - e) : up[e + k] = 0
  <2> DEFINE S == {k \in 0..(L - e) : up[e + k] = 0}
  <2>1. 0 \in S
    BY <1>0, <1>6
  <2>2. ASSUME NEW k \in 0..((L - e) - 1), k \in S PROVE k + 1 \in S
    <3>1. e + k \in 0..(L - 1) /\ (e + k) + 1 = e + (k + 1) /\ k + 1 \in 0..(L - e)
      BY <1>0, <1>6
    <3>2. up[(e + k) + 1] = 0
      BY <1>3, <2>2, <3>1
    <3> QED BY <3>1, <3>2
  <2>3. L - e \in Nat
    BY <1>0, <1>6
  <2>4. \A k \in 0..(L - e) : k \in S
    <3> HIDE DEF S
    <3> QED BY <2>1, <2>2, <2>3, UpToInduction
  <2> QED BY <2>4
<1>8. \A k \in e..L : up[k] = 0
  <2> TAKE k \in e..L
  <2>1. k - e \in 0..(L - e) /\ e + (k - e) = k
    BY <1>0, <1>6
  <2> QED BY <1>7, <2>1
<1>9. e - 1 \in 0..(L - 1) /\ (e - 1) + 1 = e
  BY <1>0, <1>6
<1>10. \A k \in 0..(e - 1) : up[k] # 0
  BY <1>0, <1>6
<1>11. up[e - 1] # 0
  BY <1>9, <1>10
<1> QED BY <1>6, <1>8, <1>9, <1>10, <1>11 DEF L

\* What pathToRoot gives: every message from the root down to m, each the
\* parent of the next.
LEMMA PathToRootIs ==
    ASSUME NEW s, Tree(msgs[s]), NEW m \in Ids(s)
    PROVE  /\ PathToRoot(s, m) \in Seq(Ids(s))
           /\ PathToRoot(s, m) # <<>>
           /\ PathToRoot(s, m)[1] = 1
           /\ PathToRoot(s, m)[Len(PathToRoot(s, m))] = m
           /\ \A i \in 1..(Len(PathToRoot(s, m)) - 1) :
                 PathToRoot(s, m)[i] = msgs[s][PathToRoot(s, m)[i + 1]].parent
<1> DEFINE q == msgs[s]
           L == Len(q)
           F(up) == up = [k \in 0..L |->
                             IF k = 0 THEN m
                             ELSE IF up[k - 1] = 0 THEN 0
                                  ELSE q[up[k - 1]].parent]
           up0 == CHOOSE up : F(up)
           Top(k) == up0[k] # 0 /\ (k = L \/ up0[k + 1] = 0)
           depth == CHOOSE k \in 0..L : Top(k)
           chain == [i \in 1..(depth + 1) |-> up0[i - 1]]
           path == [i \in DOMAIN chain |-> chain[Len(chain) + 1 - i]]
<1>0. L \in Nat /\ m \in 1..L
  BY DEF Tree, Ids
<1>a. PICK asc : Climbs(asc, q, m, L)
  <2>1. Tree(q) /\ m \in 1..Len(q)
    BY <1>0
  <2> HIDE DEF q
  <2> QED BY <1>0, <2>1, Ascent
<1>1. \E up : F(up)
  <2>1. F(asc)
    BY <1>0, <1>a DEF Climbs
  <2> QED BY <2>1
<1>2. F(up0)
  BY <1>1
<1>3. PathToRoot(s, m) = path
  BY DEF PathToRoot, Chain
<1> HIDE DEF up0
<1>4. /\ up0[0] = m
      /\ \A k \in 1..L : up0[k] = IF up0[k - 1] = 0 THEN 0
                                  ELSE q[up0[k - 1]].parent
  <2> HIDE DEF q, L
  <2>1. \A k \in 0..L : up0[k] = IF k = 0 THEN m
                                 ELSE IF up0[k - 1] = 0 THEN 0
                                      ELSE q[up0[k - 1]].parent
    BY <1>2, Zenon
  <2>2. 0 \in 0..L /\ \A k \in 1..L : k \in 0..L /\ k # 0
    BY <1>0
  <2> QED BY <2>1, <2>2
<1>5. up0 \in [0..L -> 0..L]
  <2> DEFINE S == {k \in 0..L : up0[k] = asc[k]}
  <2>2. 0 \in S
    BY <1>0, <1>4, <1>a DEF Climbs
  <2>3. ASSUME NEW k \in 0..(L - 1), k \in S PROVE k + 1 \in S
    <3>1. k + 1 \in 1..L /\ (k + 1) - 1 = k /\ k + 1 \in 0..L
      BY <1>0
    <3>2. up0[k] = asc[k]
      BY <2>3
    <3> HIDE DEF F, q
    <3>3. up0[k + 1] = asc[k + 1]
      BY <1>4, <1>a, <3>1, <3>2 DEF Climbs
    <3> QED BY <3>1, <3>3
  <2>4. \A k \in 0..L : k \in S
    <3> HIDE DEF S
    <3> QED BY <1>0, <2>2, <2>3, UpToInduction
  <2>5. \A k \in 0..L : up0[k] = asc[k]
    BY <2>4
  <2>6. up0 = [k \in 0..L |-> up0[k]]
    BY <1>2
  <2> QED BY <1>a, <2>5, <2>6 DEF Climbs
<1> HIDE DEF F, q
<1>6. Tree(q)
  BY DEF q
<1>7. PICK d \in 0..(L - 1) :
          /\ up0[d] # 0 /\ up0[d + 1] = 0
          /\ \A k \in 0..d : up0[k] # 0
          /\ \A k \in (d + 1)..L : up0[k] = 0
  <2>1. Climbs(up0, q, m, L)
    BY <1>4, <1>5 DEF Climbs
  <2> QED BY <1>0, <1>6, <2>1, AscentEnds
<1>8. depth = d
  <2>1. d \in 0..L /\ Top(d)
    BY <1>0, <1>7
  <2>2. ASSUME NEW k \in 0..L, Top(k) PROVE k = d
    <3>1. ~ (k >= d + 1)
      BY <1>0, <1>7, <2>2
    <3>2. CASE k < d
      <4>1. k + 1 \in 0..d /\ k # L
        BY <1>0, <3>2
      <4> QED BY <1>7, <2>2, <4>1
    <3> QED BY <1>0, <3>1, <3>2
  <2> HIDE DEF Top
  <2> QED BY <2>1, <2>2
<1> HIDE DEF depth
<1>9. /\ path = [i \in 1..(d + 1) |-> up0[d + 1 - i]]
      /\ d + 1 \in 1..L
  <2>1. d + 1 \in 1..L
    BY <1>0
  <2>2. chain = [i \in 1..(d + 1) |-> up0[i - 1]]
    BY <1>8
  <2> HIDE DEF chain
  <2>3. DOMAIN chain = 1..(d + 1) /\ Len(chain) = d + 1
    BY <2>1, <2>2
  <2>4. ASSUME NEW i \in 1..(d + 1)
        PROVE  chain[Len(chain) + 1 - i] = up0[d + 1 - i]
    <3>1. /\ d + 2 - i \in 1..(d + 1) /\ (d + 2 - i) - 1 = d + 1 - i
          /\ Len(chain) + 1 - i = d + 2 - i
      BY <2>1, <2>3
    <3> QED BY <2>2, <3>1
  <2> QED BY <2>1, <2>3, <2>4
<1>10. \A k \in 0..d : up0[k] \in 1..L
  BY <1>0, <1>5, <1>7
<1>11. \A i \in 1..(d + 1) : /\ path[i] = up0[d + 1 - i]
                             /\ d + 1 - i \in 0..d
                             /\ path[i] \in 1..L
  <2> TAKE i \in 1..(d + 1)
  <2> HIDE DEF path
  <2>1. d + 1 - i \in 0..d
    OBVIOUS
  <2>2. path[i] = up0[d + 1 - i]
    BY <1>9
  <2> QED BY <1>10, <2>1, <2>2
<1> HIDE DEF path
<1>12. path \in Seq(1..L) /\ Len(path) = d + 1
  BY <1>9, <1>11
<1>13. path[Len(path)] = m
  <2>1. d + 1 \in 1..(d + 1) /\ d + 1 - (d + 1) = 0
    BY <1>0
  <2> QED BY <1>4, <1>11, <1>12, <2>1
<1>14. path[1] = 1
  <2>1. path[1] = up0[d]
    BY <1>0, <1>11
  <2>2. up0[d + 1] = q[up0[d]].parent
    <3>1. d + 1 \in 1..L /\ (d + 1) - 1 = d
      BY <1>0
    <3> QED BY <1>4, <1>7, <3>1
  <2>3. up0[d] \in 1..L
    BY <1>0, <1>10
  <2> QED BY <1>6, <1>7, <2>1, <2>2, <2>3 DEF Tree
<1>15. ASSUME NEW i \in 1..(Len(path) - 1)
       PROVE  path[i] = q[path[i + 1]].parent
  <2>1. i \in 1..(d + 1) /\ i + 1 \in 1..(d + 1)
    BY <1>0, <1>12
  <2> DEFINE k == d + 1 - i
  <2>2. k \in 1..L /\ k - 1 = d + 1 - (i + 1) /\ k - 1 \in 0..d
    BY <1>0, <1>12
  <2> HIDE DEF k
  <2>3. path[i] = up0[k] /\ path[i + 1] = up0[k - 1]
    BY <1>11, <2>1, <2>2 DEF k
  <2>4. up0[k] = q[up0[k - 1]].parent
    BY <1>4, <1>7, <2>2
  <2> QED BY <2>3, <2>4
<1>16. path # <<>>
  BY <1>0, <1>12
<1> QED BY <1>3, <1>12, <1>13, <1>14, <1>15, <1>16 DEF Ids, q

-----------------------------------------------------------------------------
(***************************************************************************)
(* The inductive invariant: every session is one tree; a request that has  *)
(* been told that its result is in the transcript left it there, and had   *)
(* run the inverse before; what was answered is marked; and a fork that    *)
(* has its target to itself has copied the part of the path it is past.    *)
(***************************************************************************)
ApplyRec == [phase : {"chosen", "ran", "noted", "failed", "done"},
             session : Session, target : Nat, after : BOOLEAN]

ForkRec == [phase : {"copying", "failed", "done"}, to : Session,
            next : Nat, lost : SUBSET Nat, path : Seq(Message), fresh : BOOLEAN]

MetaRec == [there : BOOLEAN, root : Nat, compacted : Nat]

\* A session, by itself.
GoodSession(s) ==
    /\ Tree(msgs[s])
    /\ meta[s].root = IF msgs[s] = <<>> THEN 0 ELSE 1
    /\ meta[s].compacted \in Ids(s) \cup {0}
    /\ msgs[s] # <<>> => meta[s].there

Typed ==
    /\ msgs \in [Session -> Seq(Message)]
    /\ meta \in [Session -> MetaRec]
    /\ apply \in [Apply -> {[phase |-> "idle"], [phase |-> "none"]} \cup ApplyRec]
    /\ fork \in [Fork -> {[phase |-> "idle"]} \cup ForkRec]
    /\ appends \in 0..MaxAppends
    /\ touched \subseteq Session
    /\ \A s \in Session : GoodSession(s)

\* The message m of s is there, and its inverse has been run.
Ran(s, m, a) == <<s, m, a>> \in runs

\* The result is in the transcript, or the transcript refused it.
Accounted(s, m) == Reported(s, m) \/ <<s, m>> \in unnoted

\* A request, by itself.
GoodApply(a) ==
    apply[a].phase \notin {"idle", "none"} =>
        /\ ~apply[a].after
        /\ apply[a].target \in Ids(apply[a].session)
        /\ apply[a].phase \in {"ran", "noted"} =>
              Ran(apply[a].session, apply[a].target, a)
        /\ apply[a].phase = "noted" =>
              Accounted(apply[a].session, apply[a].target)

\* A mark, by itself.
GoodMark(s, m) ==
    msgs[s][m].undo = "applied" =>
        (\E a \in Apply : Ran(s, m, a)) /\ Accounted(s, m)

MarkInv ==
    /\ \A a \in Apply : GoodApply(a)
    /\ \A s \in Session : \A m \in Ids(s) : GoodMark(s, m)
    /\ \A p \in answered : /\ p[1] \in Session /\ p[2] \in Ids(p[1])
                           /\ p = <<p[1], p[2]>>
                           /\ msgs[p[1]][p[2]].undo = "applied"

\* A fork, by itself.
Undisputed(f) == /\ fork[f].fresh
                 /\ fork[f].to \notin touched
                 /\ \A g \in Fork \ {f} : fork[g].phase = "idle"

\* Where the i-th message of the path is in the target.
Target(f, i) == i - Cardinality(LostBefore(f, i))

CopiedSoFar(f) ==
    /\ Len(msgs[fork[f].to]) = fork[f].next - 1 - Cardinality(fork[f].lost)
    /\ \A i \in 1..(fork[f].next - 1) : i \notin fork[f].lost =>
          /\ Target(f, i) \in Ids(fork[f].to)
          /\ msgs[fork[f].to][Target(f, i)].what = fork[f].path[i].what

GoodFork(f) ==
    /\ fork[f].phase # "idle" => /\ fork[f].lost \subseteq 1..(fork[f].next - 1)
                                 /\ IsFiniteSet(fork[f].lost)
    /\ fork[f].phase = "copying" => fork[f].next \in 1..Len(fork[f].path)
    /\ fork[f].phase = "done" => fork[f].next = Len(fork[f].path) + 1
    /\ fork[f].phase \in {"copying", "done"} /\ Undisputed(f) => CopiedSoFar(f)

ForkInv == \A f \in Fork : GoodFork(f)

SessionInv == Typed /\ MarkInv /\ ForkInv

-----------------------------------------------------------------------------
(***************************************************************************)
(* Steps that append.                                                      *)
(***************************************************************************)

\* Nothing that was written is written again, or is lost.
Kept == \A s \in Session :
            /\ Len(msgs'[s]) >= Len(msgs[s])
            /\ \A i \in Ids(s) : msgs'[s][i] = msgs[s][i]

\* No new message is marked.
NewPlain == \A s \in Session : \A i \in Ids(s)' :
                i \notin Ids(s) => msgs'[s][i].undo # "applied"

Trees == /\ msgs \in [Session -> Seq(Message)]
         /\ meta \in [Session -> MetaRec]
         /\ \A s \in Session : GoodSession(s)

\* A request that has chosen, and a fork that has read, are such records.
LEMMA RecordFields ==
    ASSUME Typed
    PROVE  /\ \A a \in Apply : apply[a].phase \notin {"idle", "none"} =>
                                  /\ apply[a] \in ApplyRec
                                  /\ apply[a].session \in Session
                                  /\ apply[a].target \in Nat
           /\ \A f \in Fork : fork[f].phase # "idle" =>
                                  /\ fork[f] \in ForkRec
                                  /\ fork[f].to \in Session
                                  /\ fork[f].next \in Nat
                                  /\ fork[f].lost \subseteq Nat
                                  /\ fork[f].path \in Seq(Message)
<1>1. ASSUME NEW a \in Apply, apply[a].phase \notin {"idle", "none"}
      PROVE  apply[a] \in ApplyRec
  <2>1. apply[a] \in {[phase |-> "idle"], [phase |-> "none"]} \cup ApplyRec
    BY DEF Typed
  <2> QED BY <1>1, <2>1
<1>2. ASSUME NEW f \in Fork, fork[f].phase # "idle" PROVE fork[f] \in ForkRec
  <2>1. fork[f] \in {[phase |-> "idle"]} \cup ForkRec
    BY DEF Typed
  <2> QED BY <1>2, <2>1
<1>3. \A x \in ApplyRec : x.session \in Session /\ x.target \in Nat
  BY DEF ApplyRec
<1>4. \A x \in ForkRec : /\ x.to \in Session /\ x.next \in Nat /\ x.lost \subseteq Nat
                          /\ x.path \in Seq(Message)
  BY DEF ForkRec
<1> QED BY <1>1, <1>2, <1>3, <1>4

\* A message appended below an earlier one, or as the first, makes a tree of
\* a tree.
LEMMA TreeGrows ==
    ASSUME NEW q, Tree(q), NEW r \in Message, r.parent \in 0..Len(q),
           r.parent = 0 => q = <<>>
    PROVE  /\ Tree(Append(q, r))
           /\ Len(Append(q, r)) = Len(q) + 1
           /\ \A i \in 1..Len(q) : Append(q, r)[i] = q[i]
           /\ Append(q, r)[Len(q) + 1] = r
<1>1. q \in Seq(Message) /\ Len(q) \in Nat
  BY DEF Tree
<1>2. /\ Append(q, r) \in Seq(Message)
      /\ Len(Append(q, r)) = Len(q) + 1
      /\ \A i \in 1..Len(q) : Append(q, r)[i] = q[i]
      /\ Append(q, r)[Len(q) + 1] = r
  BY <1>1
<1>3. q = <<>> => Len(q) + 1 = 1
  BY <1>1
<1>4. ASSUME NEW i \in 1..(Len(q) + 1)
      PROVE  /\ Append(q, r)[i].parent < i
             /\ Append(q, r)[i].parent = 0 => i = 1
  <2>1. CASE i \in 1..Len(q)
    BY <1>2, <2>1 DEF Tree
  <2>2. CASE i = Len(q) + 1
    <3>1. r.parent < Len(q) + 1
      BY <1>1
    <3> QED BY <1>2, <1>3, <2>2, <3>1
  <2> QED BY <1>1, <2>1, <2>2
<1> HIDE DEF Tree
<1>5. Tree(Append(q, r))
  BY <1>2, <1>4 DEF Tree
<1> QED BY <1>2, <1>5

\* What appending r to s, with this meta row, does.
LEMMA GrowsGood ==
    ASSUME Typed, NEW s \in Session, NEW r \in Message,
           r.parent \in Ids(s) \cup {0}, r.parent = 0 => msgs[s] = <<>>,
           r.undo # "applied",
           NEW row \in MetaRec, row.there,
           row.root = IF meta[s].root = 0 THEN NewId(s) ELSE meta[s].root,
           row.compacted \in {meta[s].compacted, NewId(s)},
           msgs' = [msgs EXCEPT ![s] = Append(@, r)],
           meta' = [meta EXCEPT ![s] = row]
    PROVE  /\ Trees' /\ Kept /\ NewPlain
           /\ Len(msgs'[s]) = NewId(s) /\ msgs'[s][NewId(s)] = r
           /\ \A x \in Session \ {s} : msgs'[x] = msgs[x]
<1> DEFINE q == msgs[s]
<1>1. /\ GoodSession(s) /\ Tree(q) /\ Len(q) \in Nat
      /\ msgs \in [Session -> Seq(Message)] /\ meta \in [Session -> MetaRec]
  BY DEF Typed, GoodSession, Tree
<1>2. /\ msgs'[s] = Append(q, r) /\ meta'[s] = row
      /\ \A x \in Session \ {s} : msgs'[x] = msgs[x] /\ meta'[x] = meta[x]
  BY <1>1
<1>3. /\ Tree(Append(q, r))
      /\ Len(Append(q, r)) = Len(q) + 1
      /\ \A i \in 1..Len(q) : Append(q, r)[i] = q[i]
      /\ Append(q, r)[Len(q) + 1] = r
  <2>1. r.parent \in 0..Len(q)
    BY <1>1 DEF Ids
  <2> HIDE DEF q
  <2>2. r.parent = 0 => q = <<>>
    BY DEF q
  <2> QED BY <1>1, <2>1, <2>2, TreeGrows
<1>4. msgs' \in [Session -> Seq(Message)]
  <2>1. Append(q, r) \in Seq(Message)
    BY <1>3 DEF Tree
  <2> HIDE DEF q
  <2>2. msgs' = [msgs EXCEPT ![s] = Append(q, r)]
    BY <1>1 DEF q
  <2> QED BY <1>1, <2>1, <2>2
<1>5. meta' \in [Session -> MetaRec]
  BY <1>1
<1>6. GoodSession(s)'
  <2>1. row.root = 1
    <3>1. CASE q = <<>>
      <4>1. Len(q) = 0 /\ meta[s].root = 0
        BY <1>1, <3>1 DEF GoodSession
      <4> QED BY <4>1 DEF NewId
    <3>2. CASE q # <<>>
      BY <1>1, <3>2 DEF GoodSession
    <3> QED BY <3>1, <3>2
  <2>2. msgs'[s] # <<>>
    BY <1>1, <1>2, <1>3
  <2>3. row.compacted \in 1..(Len(q) + 1) \cup {0}
    BY <1>1 DEF GoodSession, NewId, Ids
  <2> HIDE DEF q
  <2> QED BY <1>2, <1>3, <2>1, <2>2, <2>3 DEF GoodSession, Ids
<1>7. ASSUME NEW x \in Session \ {s} PROVE GoodSession(x)'
  <2>1. GoodSession(x)
    BY DEF Typed
  <2> QED BY <1>2, <2>1 DEF GoodSession, Ids
<1>8. Kept
  <2> SUFFICES ASSUME NEW x \in Session
               PROVE  /\ Len(msgs'[x]) >= Len(msgs[x])
                      /\ \A i \in Ids(x) : msgs'[x][i] = msgs[x][i]
    BY DEF Kept
  <2>1. CASE x = s
    BY <1>1, <1>2, <1>3, <2>1 DEF Ids
  <2>2. CASE x # s
    <3>1. Len(msgs[x]) \in Nat
      BY <1>1
    <3> QED BY <1>2, <2>2, <3>1
  <2> QED BY <2>1, <2>2
<1>9. NewPlain
  <2> SUFFICES ASSUME NEW x \in Session, NEW i \in Ids(x)', i \notin Ids(x)
               PROVE  msgs'[x][i].undo # "applied"
    BY DEF NewPlain
  <2>1. x = s
    BY <1>2 DEF Ids
  <2>2. i = Len(q) + 1
    BY <1>1, <1>2, <1>3, <2>1 DEF Ids
  <2> QED BY <1>2, <1>3, <2>1, <2>2
<1> QED BY <1>2, <1>3, <1>4, <1>5, <1>6, <1>7, <1>8, <1>9 DEF Trees, NewId

\* The meta row after an insertion.
LEMMA RootedFields ==
    ASSUME NEW x \in MetaRec, NEW id \in Nat
    PROVE  /\ Rooted(x, id) \in MetaRec
           /\ Rooted(x, id).there
           /\ Rooted(x, id).root = IF x.root = 0 THEN id ELSE x.root
           /\ Rooted(x, id).compacted = x.compacted
<1>1. Rooted(x, id) \in MetaRec
  BY DEF Rooted, MetaRec
<1>2. Rooted(x, id).there
  BY DEF Rooted, MetaRec
<1>3. Rooted(x, id).root = IF x.root = 0 THEN id ELSE x.root
  BY DEF Rooted, MetaRec
<1>4. Rooted(x, id).compacted = x.compacted
  BY DEF Rooted, MetaRec
<1> QED BY <1>1, <1>2, <1>3, <1>4

\* What appendMessage does.
LEMMA AppendedGood ==
    ASSUME Typed, NEW s \in Session, NEW parent \in Ids(s) \cup {0},
           NEW what \in Place, NEW undo \in {"none", "available"}, NEW of \in Place,
           Appended(s, parent, what, undo, of)
    PROVE  /\ Trees' /\ Kept /\ NewPlain
           /\ Len(msgs'[s]) = NewId(s)
           /\ msgs'[s][NewId(s)].what = what
           /\ msgs'[s][NewId(s)].of = of
           /\ \A x \in Session \ {s} : msgs'[x] = msgs[x]
<1> DEFINE r == [parent |-> IF parent = 0 THEN meta[s].root ELSE parent,
                 what |-> what, undo |-> undo, of |-> of]
           row == Rooted(meta[s], Len(msgs[s]) + 1)
<1>1. /\ GoodSession(s) /\ Len(msgs[s]) \in Nat /\ meta[s] \in MetaRec
      /\ meta \in [Session -> MetaRec] /\ msgs \in [Session -> Seq(Message)]
  BY DEF Typed
<1>2. meta[s].root \in Ids(s) \cup {0} /\ (meta[s].root = 0 => msgs[s] = <<>>)
  <2>1. msgs[s] # <<>> => Len(msgs[s]) >= 1
    BY <1>1
  <2> QED BY <1>1, <2>1 DEF GoodSession, Ids
<1>3. /\ r \in Message /\ r.undo # "applied" /\ r.what = what /\ r.of = of
      /\ r.parent \in Ids(s) \cup {0} /\ (r.parent = 0 => msgs[s] = <<>>)
  BY <1>1, <1>2 DEF Message, Ids
<1>4. /\ row \in MetaRec /\ row.there
      /\ row.root = IF meta[s].root = 0 THEN NewId(s) ELSE meta[s].root
      /\ row.compacted = meta[s].compacted
  <2>1. NewId(s) \in Nat /\ NewId(s) = Len(msgs[s]) + 1
    BY <1>1 DEF NewId
  <2> QED BY <1>1, <2>1, RootedFields
<1>5. /\ msgs' = [msgs EXCEPT ![s] = Append(@, r)]
      /\ meta' = [meta EXCEPT ![s] = row]
  BY <1>1 DEF Appended
<1> HIDE DEF r, row
<1> QED BY <1>3, <1>4, <1>5, GrowsGood

\* A mark, and a request, survive whatever is appended.
LEMMA ReportStays ==
    ASSUME Kept, unnoted \subseteq unnoted', NEW s \in Session, NEW m,
           Accounted(s, m)
    PROVE  Accounted(s, m)'
<1>1. CASE Reported(s, m)
  <2>1. PICK i \in Ids(s) : msgs[s][i].of = <<s, m>>
    BY <1>1 DEF Reported
  <2>2. i \in Ids(s)' /\ msgs'[s][i] = msgs[s][i]
    BY DEF Kept, Ids
  <2> QED BY <2>1, <2>2 DEF Reported, Accounted
<1>2. CASE <<s, m>> \in unnoted
  BY <1>2 DEF Accounted
<1> QED BY <1>1, <1>2 DEF Accounted

LEMMA IdsStay == Kept => \A s \in Session : Ids(s) \subseteq Ids(s)'
<1> SUFFICES ASSUME Kept, NEW s \in Session, NEW i \in Ids(s) PROVE i \in Ids(s)'
  OBVIOUS
<1> QED BY DEF Kept, Ids

LEMMA ApplyStays ==
    ASSUME Typed, Kept, runs \subseteq runs',
           unnoted \subseteq unnoted', NEW a \in Apply, GoodApply(a),
           apply'[a] = apply[a]
    PROVE  GoodApply(a)'
<1> SUFFICES ASSUME apply[a].phase \notin {"idle", "none"} PROVE GoodApply(a)'
  BY DEF GoodApply
<1>1. apply[a].session \in Session
  BY RecordFields
<1> QED BY <1>1, IdsStay, ReportStays DEF GoodApply, Ran

LEMMA MarksStay ==
    ASSUME Typed, MarkInv, Kept, NewPlain, runs \subseteq runs',
           unnoted \subseteq unnoted', answered' = answered,
           \A a \in Apply : GoodApply(a)'
    PROVE  MarkInv'
<1>1. ASSUME NEW s \in Session, NEW m \in Ids(s)' PROVE GoodMark(s, m)'
  <2>1. CASE m \in Ids(s)
    <3>1. GoodMark(s, m) /\ msgs'[s][m] = msgs[s][m]
      BY <2>1 DEF MarkInv, Kept
    <3> QED BY <3>1, ReportStays DEF GoodMark, Ran
  <2>2. CASE m \notin Ids(s)
    BY <2>2 DEF NewPlain, GoodMark
  <2> QED BY <2>1, <2>2
<1>2. ASSUME NEW p \in answered
      PROVE  /\ p[1] \in Session /\ p[2] \in Ids(p[1])'
             /\ p = <<p[1], p[2]>>
             /\ msgs'[p[1]][p[2]].undo = "applied"
  <2>1. /\ p[1] \in Session /\ p[2] \in Ids(p[1])
        /\ p = <<p[1], p[2]>>
        /\ msgs[p[1]][p[2]].undo = "applied"
    BY DEF MarkInv
  <2> QED BY <2>1, IdsStay DEF Kept
<1> QED BY <1>1, <1>2 DEF MarkInv

\* A fork that does not move is not disturbed by what others append.
LEMMA ForkStays ==
    ASSUME Typed, ForkInv, touched \subseteq touched', NEW f \in Fork,
           fork'[f] = fork[f],
           \A g \in Fork : fork[g].phase # "idle" => fork'[g].phase # "idle",
           Undisputed(f)' /\ fork[f].phase # "idle" =>
               /\ Len(msgs'[fork[f].to]) = Len(msgs[fork[f].to])
               /\ \A i \in Ids(fork[f].to) :
                     msgs'[fork[f].to][i].what = msgs[fork[f].to][i].what
    PROVE  GoodFork(f)'
<1>1. GoodFork(f)
  BY DEF ForkInv
<1>2. Undisputed(f)' => Undisputed(f)
  BY DEF Undisputed
<1>3. ASSUME fork[f].phase \in {"copying", "done"}, Undisputed(f)'
      PROVE  CopiedSoFar(f)'
  <2>1. CopiedSoFar(f)
    BY <1>1, <1>2, <1>3 DEF GoodFork
  <2> QED BY <1>3, <2>1 DEF CopiedSoFar, Target, LostBefore, Ids
<1> QED BY <1>1, <1>3 DEF GoodFork

\* All of them together, when no fork moves.
LEMMA ForksStay ==
    ASSUME Typed, ForkInv, fork' = fork, touched \subseteq touched',
           \A s \in Session \ touched' : msgs'[s] = msgs[s]
    PROVE  ForkInv'
<1> SUFFICES ASSUME NEW f \in Fork PROVE GoodFork(f)'
  BY DEF ForkInv
<1>1. Undisputed(f)' /\ fork[f].phase # "idle" => msgs'[fork[f].to] = msgs[fork[f].to]
  BY RecordFields DEF Undisputed
<1> QED BY <1>1, ForkStays

\* An append by a client, or a summary.
LEMMA ClientStep ==
    ASSUME SessionInv, NEW s \in Session, Trees', Kept, NewPlain,
           \A x \in Session \ {s} : msgs'[x] = msgs[x],
           appends' \in 0..MaxAppends, touched' = touched \cup {s},
           UNCHANGED <<apply, fork, runs, answered, unnoted>>
    PROVE  SessionInv'
<1>1. Typed /\ MarkInv /\ ForkInv
  BY DEF SessionInv
<1>2. Typed'
  BY <1>1 DEF Typed, Trees
<1>3. \A a \in Apply : GoodApply(a)'
  BY <1>1, ApplyStays DEF MarkInv
<1>4. MarkInv'
  BY <1>1, <1>3, MarksStay
<1>5. ForkInv'
  BY <1>1, ForksStay
<1> QED BY <1>2, <1>4, <1>5 DEF SessionInv

LEMMA ClientAppendsInv ==
    SessionInv /\ (\E s \in Session : ClientAppends(s)) => SessionInv'
<1> SUFFICES ASSUME SessionInv, NEW s \in Session, ClientAppends(s) PROVE SessionInv'
  OBVIOUS
<1>1. PICK parent \in Ids(s) \cup {0}, undo \in {"none", "available"} :
          Appended(s, parent, <<s, NewId(s)>>, undo, <<>>)
  BY DEF ClientAppends
<1>2. Typed
  BY DEF SessionInv
<1>3. <<s, NewId(s)>> \in Place /\ <<>> \in Place
  BY <1>2 DEF Typed, Place, NewId
<1>4. /\ Trees' /\ Kept /\ NewPlain
      /\ \A x \in Session \ {s} : msgs'[x] = msgs[x]
  BY <1>1, <1>2, <1>3, AppendedGood
<1>5. appends' \in 0..MaxAppends
  BY <1>2, AgentSessionAssumption DEF ClientAppends, Typed
<1> QED BY <1>4, <1>5, ClientStep DEF ClientAppends

LEMMA CompactInv == SessionInv /\ (\E s \in Session : Compact(s)) => SessionInv'
<1> SUFFICES ASSUME SessionInv, NEW s \in Session, Compact(s) PROVE SessionInv'
  OBVIOUS
<1>1. PICK m \in Ids(s) :
          /\ msgs' = [msgs EXCEPT ![s] = Append(@,
                 [parent |-> m, what |-> <<s, NewId(s)>>, undo |-> "none", of |-> <<>>])]
          /\ meta' = [meta EXCEPT ![s] =
                 [Rooted(@, NewId(s)) EXCEPT !.compacted = NewId(s)]]
  BY DEF Compact
<1>2. Typed /\ meta[s] \in MetaRec /\ NewId(s) \in Nat /\ m \in Nat /\ m # 0
  BY DEF SessionInv, Typed, NewId, Ids
<1> DEFINE r == [parent |-> m, what |-> <<s, NewId(s)>>, undo |-> "none", of |-> <<>>]
           row == [Rooted(meta[s], NewId(s)) EXCEPT !.compacted = NewId(s)]
<1>3. /\ r \in Message /\ r.undo # "applied"
      /\ r.parent \in Ids(s) \cup {0} /\ r.parent # 0
  BY <1>2 DEF Message, Place
<1>4. /\ row \in MetaRec /\ row.there
      /\ row.root = IF meta[s].root = 0 THEN NewId(s) ELSE meta[s].root
      /\ row.compacted = NewId(s)
  <2>1. /\ Rooted(meta[s], NewId(s)) \in MetaRec
        /\ Rooted(meta[s], NewId(s)).there
        /\ Rooted(meta[s], NewId(s)).root =
              IF meta[s].root = 0 THEN NewId(s) ELSE meta[s].root
    BY <1>2, RootedFields
  <2> QED BY <1>2, <2>1 DEF MetaRec
<1>5. /\ msgs' = [msgs EXCEPT ![s] = Append(@, r)]
      /\ meta' = [meta EXCEPT ![s] = row]
  BY <1>1
<1> HIDE DEF r, row
<1>6. /\ Trees' /\ Kept /\ NewPlain
      /\ \A x \in Session \ {s} : msgs'[x] = msgs[x]
  BY <1>2, <1>3, <1>4, <1>5, GrowsGood
<1>7. appends' \in 0..MaxAppends
  BY <1>2, AgentSessionAssumption DEF Compact, Typed
<1> QED BY <1>6, <1>7, ClientStep DEF Compact


-----------------------------------------------------------------------------
(***************************************************************************)
(* Steps that append nothing.                                              *)
(***************************************************************************)
LEMMA SameMessages == Typed /\ msgs' = msgs => Kept /\ NewPlain
<1> SUFFICES ASSUME Typed, msgs' = msgs PROVE Kept /\ NewPlain
  OBVIOUS
<1>1. \A s \in Session : Len(msgs[s]) \in Nat
  BY DEF Typed
<1> QED BY <1>1 DEF Kept, NewPlain, Ids

\* The meta row of a session is written.
LEMMA ThereStays ==
    ASSUME Typed, NEW s \in Session, msgs' = msgs,
           meta' = [meta EXCEPT ![s].there = TRUE]
    PROVE  Trees'
<1>1. meta \in [Session -> MetaRec] /\ msgs \in [Session -> Seq(Message)]
  BY DEF Typed
<1>2. meta'[s] = [meta[s] EXCEPT !.there = TRUE]
  BY <1>1
<1>3. meta[s] \in MetaRec
  BY <1>1
<1>4. \A x \in Session \ {s} : meta'[x] = meta[x]
  BY <1>1
<1>5. meta' \in [Session -> MetaRec]
  <2>1. [meta[s] EXCEPT !.there = TRUE] \in MetaRec
    BY <1>3 DEF MetaRec
  <2> QED BY <1>1, <2>1
<1>6. ASSUME NEW x \in Session PROVE GoodSession(x)'
  <2>1. GoodSession(x)
    BY DEF Typed
  <2>2. CASE x = s
    <3>1. meta'[x].root = meta[x].root /\ meta'[x].compacted = meta[x].compacted
      BY <1>2, <1>3, <2>2 DEF MetaRec
    <3>2. meta'[x].there
      BY <1>2, <1>3, <2>2 DEF MetaRec
    <3> QED BY <2>1, <3>1, <3>2 DEF GoodSession, Ids
  <2>3. CASE x # s
    BY <1>4, <2>1, <2>3 DEF GoodSession, Ids
  <2> QED BY <2>2, <2>3
<1> QED BY <1>1, <1>5, <1>6 DEF Trees

LEMMA TreesSame == Typed /\ msgs' = msgs /\ meta' = meta => Trees'
BY DEF Typed, Trees, GoodSession, Ids

LEMMA InitialisedInv ==
    SessionInv /\ (\E s \in Session : Initialised(s)) => SessionInv'
<1> SUFFICES ASSUME SessionInv, NEW s \in Session, Initialised(s) PROVE SessionInv'
  OBVIOUS
<1>1. Typed /\ MarkInv /\ ForkInv
  BY DEF SessionInv
<1>2. msgs' = msgs /\ UNCHANGED <<apply, fork, appends, runs, answered, unnoted, touched>>
  BY DEF Initialised, history
<1>3. Trees'
  BY <1>1, <1>2, ThereStays DEF Initialised
<1>4. Typed'
  BY <1>1, <1>2, <1>3 DEF Typed, Trees
<1>5. MarkInv'
  <2>1. Kept /\ NewPlain
    BY <1>1, <1>2, SameMessages
  <2>2. \A a \in Apply : GoodApply(a)'
    BY <1>1, <1>2, <2>1, ApplyStays DEF MarkInv
  <2> QED BY <1>1, <1>2, <2>1, <2>2, MarksStay
<1>6. ForkInv'
  BY <1>1, <1>2, ForksStay
<1> QED BY <1>4, <1>5, <1>6 DEF SessionInv

-----------------------------------------------------------------------------
(***************************************************************************)
(* handleApplyRollback.                                                    *)
(***************************************************************************)

\* A step of one request that marks nothing.
LEMMA ApplyStep ==
    ASSUME SessionInv, NEW a \in Apply, Trees', Kept, NewPlain,
           \A x \in Session \ touched' : msgs'[x] = msgs[x],
           NEW rec \in {[phase |-> "idle"], [phase |-> "none"]} \cup ApplyRec,
           apply' = [apply EXCEPT ![a] = rec], GoodApply(a)',
           runs \subseteq runs', unnoted \subseteq unnoted',
           touched \subseteq touched', touched' \subseteq Session,
           UNCHANGED <<fork, appends, answered>>
    PROVE  SessionInv'
<1>1. Typed /\ MarkInv /\ ForkInv
  BY DEF SessionInv
<1>2. Typed'
  <2>1. apply' \in [Apply -> {[phase |-> "idle"], [phase |-> "none"]} \cup ApplyRec]
    BY <1>1 DEF Typed
  <2> QED BY <1>1, <2>1 DEF Typed, Trees
<1>3. MarkInv'
  <2>1. ASSUME NEW b \in Apply PROVE GoodApply(b)'
    <3>1. CASE b = a
      BY <3>1
    <3>2. CASE b # a
      <4>1. apply'[b] = apply[b]
        BY <1>1, <3>2 DEF Typed
      <4> QED BY <1>1, <4>1, ApplyStays DEF MarkInv
    <3> QED BY <3>1, <3>2
  <2> QED BY <1>1, <2>1, MarksStay
<1>4. ForkInv'
  BY <1>1, ForksStay
<1> QED BY <1>2, <1>3, <1>4 DEF SessionInv

LEMMA ApplyChoosesInv ==
    SessionInv /\ (\E a \in Apply, s \in Session : ApplyChooses(a, s)) => SessionInv'
<1> SUFFICES ASSUME SessionInv, NEW a \in Apply, NEW s \in Session, ApplyChooses(a, s)
             PROVE  SessionInv'
  OBVIOUS
<1>1. Typed /\ MarkInv /\ ForkInv
  BY DEF SessionInv
<1>2. /\ msgs' = msgs /\ meta' = meta
      /\ UNCHANGED <<fork, appends, runs, answered, unnoted, touched>>
  BY DEF ApplyChooses, history
<1>3. Trees' /\ Kept /\ NewPlain /\ touched' \subseteq Session
  BY <1>1, <1>2, TreesSame, SameMessages DEF Typed
<1>4. CASE apply' = [apply EXCEPT ![a] = [phase |-> "none"]]
  <2>1. apply'[a] = [phase |-> "none"]
    BY <1>1, <1>4 DEF Typed
  <2>2. GoodApply(a)'
    BY <2>1 DEF GoodApply
  <2> QED BY <1>2, <1>3, <1>4, <2>2, ApplyStep
<1>5. ASSUME NEW m \in Pending(s),
             apply' = [apply EXCEPT ![a] = [phase |-> "chosen", session |-> s,
                                            target |-> m,
                                            after |-> <<s, m>> \in answered]]
      PROVE  SessionInv'
  <2> DEFINE rec == [phase |-> "chosen", session |-> s, target |-> m,
                     after |-> <<s, m>> \in answered]
  <2>1. m \in Ids(s) /\ msgs[s][m].undo = "available"
    BY DEF Pending
  <2>2. <<s, m>> \notin answered
    <3>1. \A p \in answered : p = <<s, m>> => msgs[s][m].undo = "applied"
      BY <1>1 DEF MarkInv
    <3> QED BY <2>1, <3>1
  <2>3. rec = [phase |-> "chosen", session |-> s, target |-> m, after |-> FALSE]
    <3>1. (<<s, m>> \in answered) = FALSE
      BY <2>2
    <3> QED BY <3>1
  <2>4. rec \in ApplyRec
    BY <2>1, <2>3 DEF ApplyRec, Ids
  <2>5. apply'[a] = rec
    BY <1>1, <1>5 DEF Typed
  <2>6. /\ apply'[a].phase = "chosen" /\ apply'[a].session = s
        /\ apply'[a].target = m /\ ~apply'[a].after
    BY <2>3, <2>5
  <2>7. GoodApply(a)'
    BY <1>2, <2>1, <2>6 DEF GoodApply, Ids
  <2> HIDE DEF rec
  <2>8. apply' = [apply EXCEPT ![a] = rec]
    BY <1>5 DEF rec
  <2> QED BY <1>2, <1>3, <2>4, <2>7, <2>8, ApplyStep
<1> QED BY <1>4, <1>5 DEF ApplyChooses

\* A step of a request after the first changes its phase only.
LEMMA NextPhase ==
    ASSUME Typed, NEW a \in Apply, apply[a].phase \notin {"idle", "none"},
           NEW phase \in {"ran", "noted", "failed", "done"},
           apply' = [apply EXCEPT ![a].phase = phase]
    PROVE  \E rec \in ApplyRec :
              /\ apply' = [apply EXCEPT ![a] = rec] /\ apply'[a] = rec
              /\ rec.phase = phase /\ rec.session = apply[a].session
              /\ rec.target = apply[a].target /\ rec.after = apply[a].after
<1>1. apply[a] \in ApplyRec
  BY RecordFields
<1> DEFINE rec == [apply[a] EXCEPT !.phase = phase]
<1>2. apply' = [apply EXCEPT ![a] = rec] /\ apply'[a] = rec
  BY DEF Typed
<1>3. rec \in ApplyRec
  BY <1>1 DEF ApplyRec
<1>4. /\ rec.phase = phase /\ rec.session = apply[a].session
      /\ rec.target = apply[a].target
  BY <1>1 DEF ApplyRec
<1>5. rec.after = apply[a].after
  BY <1>1 DEF ApplyRec
<1> HIDE DEF rec
<1> QED BY <1>2, <1>3, <1>4, <1>5

LEMMA ApplyRunsInv == SessionInv /\ (\E a \in Apply : ApplyRuns(a)) => SessionInv'
<1> SUFFICES ASSUME SessionInv, NEW a \in Apply, ApplyRuns(a) PROVE SessionInv'
  OBVIOUS
<1>1. Typed /\ MarkInv /\ ForkInv
  BY DEF SessionInv
<1>2. /\ msgs' = msgs /\ meta' = meta
      /\ UNCHANGED <<fork, appends, answered, unnoted, touched>>
      /\ apply[a].phase = "chosen"
      /\ apply' = [apply EXCEPT ![a].phase = "ran"]
      /\ runs' = runs \cup {<<apply[a].session, apply[a].target, a>>}
  BY DEF ApplyRuns
<1>3. Trees' /\ Kept /\ NewPlain /\ touched' \subseteq Session
  BY <1>1, <1>2, TreesSame, SameMessages DEF Typed
<1>4. PICK rec \in ApplyRec :
          /\ apply' = [apply EXCEPT ![a] = rec] /\ apply'[a] = rec
          /\ rec.phase = "ran" /\ rec.session = apply[a].session
          /\ rec.target = apply[a].target /\ rec.after = apply[a].after
  BY <1>1, <1>2, NextPhase
<1>5. GoodApply(a)'
  BY <1>1, <1>2, <1>4 DEF MarkInv, GoodApply, Ran, Ids
<1> QED BY <1>2, <1>3, <1>4, <1>5, ApplyStep

LEMMA ApplyNotesInv == SessionInv /\ (\E a \in Apply : ApplyNotes(a)) => SessionInv'
<1> SUFFICES ASSUME SessionInv, NEW a \in Apply, ApplyNotes(a) PROVE SessionInv'
  OBVIOUS
<1>1. Typed /\ MarkInv /\ ForkInv
  BY DEF SessionInv
<1>0. PICK s \in Session, m \in Nat :
          apply[a].session = s /\ apply[a].target = m
  BY <1>1, RecordFields DEF ApplyNotes
<1>2. /\ apply[a].phase = "ran"
      /\ touched' = touched \cup {s}
      /\ UNCHANGED <<fork, appends, runs, answered>>
  BY <1>0 DEF ApplyNotes
<1>3. touched' \subseteq Session
  BY <1>1, <1>2 DEF Typed
<1>4. GoodApply(a) /\ Ran(s, m, a) /\ m \in Ids(s) /\ ~apply[a].after
  BY <1>0, <1>1, <1>2 DEF MarkInv, GoodApply
<1>5. CASE /\ Appended(s, 0, <<s, NewId(s)>>, "none", <<s, m>>)
           /\ \E phase \in {"noted", "failed"} :
                 apply' = [apply EXCEPT ![a].phase = phase]
           /\ UNCHANGED unnoted
  <2>1. PICK phase \in {"noted", "failed"} : apply' = [apply EXCEPT ![a].phase = phase]
    BY <1>5
  <2>2. PICK rec \in ApplyRec :
            /\ apply' = [apply EXCEPT ![a] = rec] /\ apply'[a] = rec
            /\ rec.phase = phase /\ rec.session = s
            /\ rec.target = m /\ rec.after = apply[a].after
    <3>1. /\ phase \in {"ran", "noted", "failed", "done"}
          /\ apply[a].phase \notin {"idle", "none"}
      BY <1>2
    <3>2. \E rec \in ApplyRec :
              /\ apply' = [apply EXCEPT ![a] = rec] /\ apply'[a] = rec
              /\ rec.phase = phase /\ rec.session = apply[a].session
              /\ rec.target = apply[a].target /\ rec.after = apply[a].after
      BY <1>1, <2>1, <3>1, NextPhase
    <3> QED BY <1>0, <3>2
  <2>3. <<s, NewId(s)>> \in Place /\ <<s, m>> \in Place /\ Len(msgs[s]) \in Nat
    BY <1>1, <1>3 DEF Place, NewId, Typed
  <2>4. /\ Trees' /\ Kept /\ NewPlain
        /\ Len(msgs'[s]) = NewId(s)
        /\ msgs'[s][NewId(s)].of = <<s, m>>
        /\ \A x \in Session \ {s} : msgs'[x] = msgs[x]
    <3>1. 0 \in Ids(s) \cup {0}
      OBVIOUS
    <3> QED BY <1>1, <1>3, <1>5, <2>3, <3>1, AppendedGood
  <2>5. Accounted(s, m)'
    <3>1. NewId(s) \in Ids(s)'
      BY <2>3, <2>4 DEF Ids, NewId
    <3>2. msgs'[s][NewId(s)].of = <<s, m>>
      BY <2>4
    <3> QED BY <3>1, <3>2 DEF Reported, Accounted
  <2>6. GoodApply(a)'
    <3>1. m \in Ids(s)'
      BY <1>3, <1>4, <2>4, IdsStay
    <3>2. Ran(s, m, a)'
      BY <1>2, <1>4 DEF Ran
    <3> QED BY <1>4, <2>1, <2>2, <2>5, <3>1, <3>2 DEF GoodApply
  <2>7. \A x \in Session \ touched' : msgs'[x] = msgs[x]
    BY <1>2, <2>4
  <2> QED BY <1>2, <1>3, <1>5, <2>2, <2>4, <2>6, <2>7, ApplyStep
<1>6. ASSUME NEW phase \in {"noted", "failed"},
             apply' = [apply EXCEPT ![a].phase = phase],
             UNCHANGED <<msgs, meta>>, unnoted \subseteq unnoted',
             phase = "noted" => <<s, m>> \in unnoted'
      PROVE  SessionInv'
  <2>0. /\ phase \in {"ran", "noted", "failed", "done"}
        /\ apply[a].phase \notin {"idle", "none"}
    BY <1>2
  <2>1. PICK rec \in ApplyRec :
            /\ apply' = [apply EXCEPT ![a] = rec] /\ apply'[a] = rec
            /\ rec.phase = phase /\ rec.session = s
            /\ rec.target = m /\ rec.after = apply[a].after
    <3>1. \E rec \in ApplyRec :
              /\ apply' = [apply EXCEPT ![a] = rec] /\ apply'[a] = rec
              /\ rec.phase = phase /\ rec.session = apply[a].session
              /\ rec.target = apply[a].target /\ rec.after = apply[a].after
      BY <1>1, <1>6, <2>0, NextPhase
    <3> QED BY <1>0, <3>1
  <2>2. Trees' /\ Kept /\ NewPlain
    BY <1>1, <1>6, TreesSame, SameMessages
  <2>3. GoodApply(a)'
    <3>1. phase = "noted" => Accounted(s, m)'
      BY <1>6 DEF Accounted
    <3>2. Ran(s, m, a)' /\ m \in Ids(s)'
      BY <1>2, <1>4, <1>6 DEF Ran, Ids
    <3> QED BY <1>4, <2>1, <3>1, <3>2 DEF GoodApply
  <2> QED BY <1>2, <1>3, <1>6, <2>1, <2>2, <2>3, ApplyStep
<1>7. CASE /\ apply' = [apply EXCEPT ![a].phase = "noted"]
           /\ unnoted' = unnoted \cup {<<s, m>>}
           /\ UNCHANGED <<msgs, meta>>
  BY <1>6, <1>7
<1>8. CASE /\ apply' = [apply EXCEPT ![a].phase = "failed"]
           /\ UNCHANGED <<msgs, meta, unnoted>>
  BY <1>6, <1>8
<1> QED BY <1>0, <1>5, <1>7, <1>8 DEF ApplyNotes

\* The target is marked: its inverse has been run, and its report is there.
LEMMA ApplyMarksInv == SessionInv /\ (\E a \in Apply : ApplyMarks(a)) => SessionInv'
<1> SUFFICES ASSUME SessionInv, NEW a \in Apply, ApplyMarks(a) PROVE SessionInv'
  OBVIOUS
<1>1. Typed /\ MarkInv /\ ForkInv
  BY DEF SessionInv
<1>2. PICK s \in Session, m \in Nat :
          apply[a].session = s /\ apply[a].target = m
  BY <1>1, RecordFields DEF ApplyMarks
<1>3. /\ apply[a].phase = "noted"
      /\ UNCHANGED <<meta, fork, appends, runs, unnoted, touched>>
  BY DEF ApplyMarks
<1>4. GoodApply(a) /\ Ran(s, m, a) /\ m \in Ids(s) /\ ~apply[a].after /\ Accounted(s, m)
  BY <1>1, <1>2, <1>3 DEF MarkInv, GoodApply
<1>5. PICK phase \in {"done", "failed"} : apply' = [apply EXCEPT ![a].phase = phase]
  BY <1>2 DEF ApplyMarks
<1>6. PICK rec \in ApplyRec :
          /\ apply' = [apply EXCEPT ![a] = rec] /\ apply'[a] = rec
          /\ rec.phase = phase /\ rec.session = s
          /\ rec.target = m /\ rec.after = apply[a].after
  <2>1. /\ phase \in {"ran", "noted", "failed", "done"}
        /\ apply[a].phase \notin {"idle", "none"}
    BY <1>3
  <2>2. \E rec \in ApplyRec :
            /\ apply' = [apply EXCEPT ![a] = rec] /\ apply'[a] = rec
            /\ rec.phase = phase /\ rec.session = apply[a].session
            /\ rec.target = apply[a].target /\ rec.after = apply[a].after
    BY <1>1, <1>5, <2>1, NextPhase
  <2> QED BY <1>2, <2>2
<1>7. apply' \in [Apply -> {[phase |-> "idle"], [phase |-> "none"]} \cup ApplyRec]
  BY <1>1, <1>6 DEF Typed
<1>8. \A b \in Apply \ {a} : apply'[b] = apply[b]
  BY <1>1, <1>6 DEF Typed
<1>9. CASE UNCHANGED <<msgs, answered>>
  <2>1. Trees' /\ Kept /\ NewPlain
    BY <1>1, <1>3, <1>9, TreesSame, SameMessages
  <2>2. GoodApply(a)'
    BY <1>4, <1>6, <1>9 DEF GoodApply, Ids
  <2>3. touched' \subseteq Session
    BY <1>1, <1>3 DEF Typed
  <2> QED BY <1>3, <1>6, <1>9, <2>1, <2>2, <2>3, ApplyStep
<1>10. CASE /\ msgs' = [msgs EXCEPT ![s][m].undo = "applied"]
            /\ answered' \in {answered, answered \cup {<<s, m>>}}
  <2>1. /\ msgs \in [Session -> Seq(Message)] /\ Tree(msgs[s])
        /\ Len(msgs[s]) \in Nat /\ m \in 1..Len(msgs[s])
    BY <1>1, <1>4 DEF Typed, GoodSession, Ids
  <2>2. msgs[s][m] \in Message
    BY <2>1
  <2> DEFINE r == [msgs[s][m] EXCEPT !.undo = "applied"]
             q == [msgs[s] EXCEPT ![m] = r]
  <2>3. r \in Message
    BY <2>2 DEF Message
  <2>4. r.undo = "applied"
    BY <2>2 DEF Message
  <2>5. r.parent = msgs[s][m].parent /\ r.what = msgs[s][m].what /\ r.of = msgs[s][m].of
    BY <2>2 DEF Message
  <2>6. msgs' = [msgs EXCEPT ![s] = q]
    BY <1>10, <2>1
  <2> HIDE DEF r
  <2>7. /\ q \in Seq(Message) /\ Len(q) = Len(msgs[s])
        /\ q[m] = r
        /\ \A i \in 1..Len(msgs[s]) : i # m => q[i] = msgs[s][i]
    BY <2>1, <2>3
  <2> HIDE DEF q
  <2>8. /\ msgs' \in [Session -> Seq(Message)] /\ msgs'[s] = q
        /\ \A x \in Session \ {s} : msgs'[x] = msgs[x]
    BY <2>1, <2>6, <2>7
  \* Everything but the mark stays.
  <2>9. \A x \in Session :
            /\ Len(msgs'[x]) = Len(msgs[x])
            /\ \A i \in Ids(x) : /\ msgs'[x][i].parent = msgs[x][i].parent
                                 /\ msgs'[x][i].what = msgs[x][i].what
                                 /\ msgs'[x][i].of = msgs[x][i].of
    <3> TAKE x \in Session
    <3>1. CASE x = s
      BY <2>5, <2>7, <2>8, <3>1 DEF Ids
    <3>2. CASE x # s
      BY <2>8, <3>2
    <3> QED BY <3>1, <3>2
  <2>10. \A x \in Session, i \in Nat :
            /\ msgs[x][i].undo = "applied" /\ i \in Ids(x) => msgs'[x][i].undo = "applied"
            /\ <<x, i>> # <<s, m>> /\ i \in Ids(x) => msgs'[x][i] = msgs[x][i]
    <3> TAKE x \in Session, i \in Nat
    <3>1. CASE x = s
      BY <2>4, <2>7, <2>8, <3>1 DEF Ids
    <3>2. CASE x # s
      BY <2>8, <3>2
    <3> QED BY <3>1, <3>2
  <2>11. \A x \in Session : Ids(x)' = Ids(x)
    BY <2>9 DEF Ids
  <2>12. \A x \in Session : \A i : Accounted(x, i) => Accounted(x, i)'
    <3>1. \A x \in Session : \A i : Reported(x, i) => Reported(x, i)'
      BY <2>9, <2>11 DEF Reported
    <3> QED BY <1>3, <3>1 DEF Accounted
  <2>13. Typed'
    <3>1. ASSUME NEW x \in Session PROVE GoodSession(x)'
      <4>1. GoodSession(x) /\ Len(msgs[x]) \in Nat /\ msgs'[x] \in Seq(Message)
        BY <1>1, <2>8 DEF Typed
      <4>2. Tree(msgs'[x])
        BY <2>9, <4>1 DEF GoodSession, Tree, Ids
      <4>3. msgs'[x] = <<>> <=> msgs[x] = <<>>
        <5>1. Len(msgs'[x]) = Len(msgs[x]) /\ msgs[x] \in Seq(Message)
          BY <1>1, <2>9 DEF Typed
        <5> QED BY <4>1, <5>1
      <4> QED BY <1>3, <2>11, <4>1, <4>2, <4>3 DEF GoodSession
    <3> QED BY <1>1, <1>3, <1>7, <2>8, <3>1 DEF Typed
  <2>14. ASSUME NEW b \in Apply PROVE GoodApply(b)'
    <3>1. CASE b = a
      BY <1>4, <1>6, <2>11, <3>1 DEF GoodApply
    <3>2. CASE b # a
      <4>1. apply'[b] = apply[b] /\ GoodApply(b)
        BY <1>1, <1>8, <3>2 DEF MarkInv
      <4> SUFFICES ASSUME apply[b].phase \notin {"idle", "none"} PROVE GoodApply(b)'
        BY <4>1 DEF GoodApply
      <4>2. apply[b].session \in Session
        BY <1>1, RecordFields
      <4> QED BY <1>3, <2>11, <2>12, <4>1, <4>2 DEF GoodApply, Ran
    <3> QED BY <3>1, <3>2
  <2>15. ASSUME NEW x \in Session, NEW i \in Ids(x)' PROVE GoodMark(x, i)'
    <3>1. i \in Ids(x) /\ i \in Nat
      BY <2>11 DEF Ids
    <3>2. CASE <<x, i>> = <<s, m>>
      <4>1. x = s /\ i = m
        BY <3>2
      <4> QED BY <1>3, <1>4, <2>12, <4>1 DEF GoodMark, Ran
    <3>3. CASE <<x, i>> # <<s, m>>
      <4>1. msgs'[x][i] = msgs[x][i] /\ GoodMark(x, i)
        BY <1>1, <2>10, <3>1, <3>3 DEF MarkInv
      <4> QED BY <1>3, <2>12, <4>1 DEF GoodMark, Ran
    <3> QED BY <3>2, <3>3
  <2>16. ASSUME NEW p \in answered'
         PROVE  /\ p[1] \in Session /\ p[2] \in Ids(p[1])'
                /\ p = <<p[1], p[2]>>
                /\ msgs'[p[1]][p[2]].undo = "applied"
    <3>1. CASE p \in answered
      <4>1. /\ p[1] \in Session /\ p[2] \in Ids(p[1]) /\ p = <<p[1], p[2]>>
            /\ msgs[p[1]][p[2]].undo = "applied"
        BY <1>1, <3>1 DEF MarkInv
      <4>2. p[2] \in Nat
        BY <4>1 DEF Ids
      <4> QED BY <2>10, <2>11, <4>1, <4>2
    <3>2. CASE p = <<s, m>>
      <4>1. p[1] = s /\ p[2] = m /\ p = <<p[1], p[2]>>
        BY <3>2
      <4> QED BY <1>4, <2>4, <2>7, <2>8, <2>11, <4>1
    <3> QED BY <1>10, <3>1, <3>2
  <2>17. MarkInv'
    BY <2>14, <2>15, <2>16 DEF MarkInv
  <2>18. ForkInv'
    <3> SUFFICES ASSUME NEW f \in Fork PROVE GoodFork(f)'
      BY DEF ForkInv
    <3>1. fork[f].phase # "idle" =>
               /\ Len(msgs'[fork[f].to]) = Len(msgs[fork[f].to])
               /\ \A i \in Ids(fork[f].to) :
                     msgs'[fork[f].to][i].what = msgs[fork[f].to][i].what
      BY <1>1, <2>9, RecordFields
    <3> QED BY <1>1, <1>3, <3>1, ForkStays
  <2> QED BY <2>13, <2>17, <2>18 DEF SessionInv
<1> QED BY <1>2, <1>9, <1>10 DEF ApplyMarks

-----------------------------------------------------------------------------
(***************************************************************************)
(* POST /fork.                                                             *)
(***************************************************************************)

\* A step of one fork, which appends to its target or nothing.
LEMMA ForkStep ==
    ASSUME SessionInv, NEW f \in Fork, Trees', Kept, NewPlain,
           NEW rec \in ForkRec, fork' = [fork EXCEPT ![f] = rec], GoodFork(f)',
           UNCHANGED <<apply, appends, history>>
    PROVE  SessionInv'
<1>1. Typed /\ MarkInv /\ ForkInv
  BY DEF SessionInv
<1>2. UNCHANGED <<runs, answered, unnoted, touched>>
  BY DEF history
<1>3. /\ fork' \in [Fork -> {[phase |-> "idle"]} \cup ForkRec]
      /\ fork'[f] = rec
      /\ \A g \in Fork \ {f} : fork'[g] = fork[g]
  BY <1>1 DEF Typed
<1>4. rec.phase # "idle"
  BY DEF ForkRec
<1>5. Typed'
  BY <1>1, <1>2, <1>3 DEF Typed, Trees
<1>6. MarkInv'
  <2>1. \A a \in Apply : GoodApply(a)'
    BY <1>1, <1>2, ApplyStays DEF MarkInv
  <2> QED BY <1>1, <1>2, <2>1, MarksStay
<1>7. ASSUME NEW g \in Fork PROVE GoodFork(g)'
  <2>1. CASE g = f
    BY <2>1
  <2>2. CASE g # f
    <3>1. ~Undisputed(g)'
      BY <1>3, <1>4, <2>2 DEF Undisputed
    <3>2. GoodFork(g) /\ fork'[g] = fork[g]
      BY <1>1, <1>3, <2>2 DEF ForkInv
    <3> QED BY <3>1, <3>2 DEF GoodFork
  <2> QED BY <2>1, <2>2
<1> QED BY <1>5, <1>6, <1>7 DEF SessionInv, ForkInv

LEMMA ForkReadsInv ==
    SessionInv /\ (\E f \in Fork : \E from, to \in Session : ForkReads(f, from, to))
    => SessionInv'
<1> SUFFICES ASSUME SessionInv, NEW f \in Fork, NEW from \in Session,
                    NEW to \in Session, ForkReads(f, from, to)
             PROVE  SessionInv'
  OBVIOUS
<1>1. Typed
  BY DEF SessionInv
<1>2. PICK m \in Ids(from) :
          fork' = [fork EXCEPT ![f] =
              [phase |-> "copying", to |-> to, next |-> 1, lost |-> {},
               path |-> [i \in DOMAIN PathToRoot(from, m) |->
                            msgs[from][PathToRoot(from, m)[i]]],
               fresh |-> msgs[to] = <<>> /\ \A g \in Fork : fork[g].phase = "idle"]]
  BY DEF ForkReads
<1> DEFINE p == PathToRoot(from, m)
           path == [i \in DOMAIN p |-> msgs[from][p[i]]]
           fresh == msgs[to] = <<>> /\ \A g \in Fork : fork[g].phase = "idle"
           rec == [phase |-> "copying", to |-> to, next |-> 1, lost |-> {},
                   path |-> path, fresh |-> fresh]
<1>3. Tree(msgs[from]) /\ msgs[from] \in Seq(Message) /\ Len(msgs[from]) \in Nat
  BY <1>1 DEF Typed, GoodSession
<1>4. p \in Seq(Ids(from)) /\ p # <<>>
  BY <1>3, PathToRootIs
<1>5. path \in Seq(Message) /\ Len(path) >= 1
  <2> HIDE DEF p
  <2>1. Len(p) \in Nat /\ DOMAIN p = 1..Len(p) /\ Len(p) >= 1
    BY <1>4
  <2>2. \A i \in 1..Len(p) : msgs[from][p[i]] \in Message
    BY <1>3, <1>4 DEF Ids
  <2>3. path = [i \in 1..Len(p) |-> msgs[from][p[i]]]
    BY <2>1
  <2> HIDE DEF path
  <2> QED BY <2>1, <2>2, <2>3
<1> HIDE DEF p, path
<1>6. fresh \in BOOLEAN
  OBVIOUS
<1>7. fresh => msgs[to] = <<>>
  OBVIOUS
<1>8. fork' = [fork EXCEPT ![f] = rec]
  BY <1>2 DEF p, path
<1> HIDE DEF fresh
<1>9. rec \in ForkRec
  BY <1>5, <1>6 DEF ForkRec
<1>10. /\ rec.phase = "copying" /\ rec.to = to /\ rec.next = 1 /\ rec.lost = {}
       /\ rec.path = path /\ rec.fresh = fresh
  OBVIOUS
<1> HIDE DEF rec
<1>11. msgs' = msgs /\ UNCHANGED <<apply, appends, history>>
  BY DEF ForkReads
<1>12. fork'[f] = rec
  BY <1>1, <1>8 DEF Typed
<1>13. GoodFork(f)'
  <2>1. Undisputed(f)' => CopiedSoFar(f)'
    <3> SUFFICES ASSUME Undisputed(f)' PROVE CopiedSoFar(f)'
      OBVIOUS
    <3>1. msgs'[to] = <<>>
      BY <1>7, <1>10, <1>11, <1>12 DEF Undisputed
    <3>2. Len(msgs'[to]) = 0 /\ Cardinality({}) = 0
      BY <3>1, FS_EmptySet
    <3>3. \A i \in 1..(fork'[f].next - 1) : FALSE
      BY <1>10, <1>12
    <3>4. Len(msgs'[fork'[f].to]) = fork'[f].next - 1 - Cardinality(fork'[f].lost)
      <4>1. fork'[f].to = to /\ fork'[f].next = 1 /\ fork'[f].lost = {}
        BY <1>10, <1>12
      <4>2. Cardinality(fork'[f].lost) = 0
        BY <3>2, <4>1
      <4> QED BY <3>2, <4>1, <4>2
    <3> QED BY <3>3, <3>4 DEF CopiedSoFar
  <2>2. IsFiniteSet({})
    BY FS_EmptySet
  <2>3. fork'[f].lost \subseteq 1..(fork'[f].next - 1) /\ IsFiniteSet(fork'[f].lost)
    BY <1>10, <1>12, <2>2
  <2>4. /\ fork'[f].phase = "copying"
        /\ fork'[f].next \in 1..Len(fork'[f].path)
    BY <1>5, <1>10, <1>12
  <2> QED BY <2>1, <2>3, <2>4 DEF GoodFork
<1>14. Trees'
  <2>1. CASE meta' = [meta EXCEPT ![to].there = TRUE]
    BY <1>1, <1>11, <2>1, ThereStays
  <2>2. CASE UNCHANGED meta
    BY <1>1, <1>11, <2>2, TreesSame
  <2> QED BY <2>1, <2>2 DEF ForkReads
<1> QED BY <1>1, <1>8, <1>9, <1>11, <1>13, <1>14, SameMessages, ForkStep

LEMMA ForkCopiesInv == SessionInv /\ (\E f \in Fork : ForkCopies(f)) => SessionInv'
<1> SUFFICES ASSUME SessionInv, NEW f \in Fork, ForkCopies(f) PROVE SessionInv'
  OBVIOUS
<1>1. Typed /\ ForkInv /\ GoodFork(f)
  BY DEF SessionInv, ForkInv
<1>2. /\ fork[f].phase = "copying"
      /\ UNCHANGED <<apply, appends, history>>
  BY DEF ForkCopies
<1>3. fork[f] \in ForkRec
  BY <1>1, <1>2, RecordFields
<1>4. PICK to \in Session, n \in Nat, lost \in SUBSET Nat, path \in Seq(Message) :
          /\ fork[f].to = to /\ fork[f].next = n /\ fork[f].path = path
          /\ fork[f].lost = lost
  BY <1>3 DEF ForkRec
<1>5. /\ n \in 1..Len(path) /\ Len(path) \in Nat /\ path[n] \in Message
      /\ lost \subseteq 1..(n - 1) /\ IsFiniteSet(lost)
  BY <1>1, <1>2, <1>4 DEF GoodFork
\* The message is copied or passed over, and the fork goes on.
<1>6. ASSUME NEW more \in {{}, {n}}, fork' = [fork EXCEPT ![f] = Forked(f, more)],
             Trees', Kept, NewPlain,
             IF more = {} THEN /\ Len(msgs'[to]) = NewId(to)
                               /\ msgs'[to][NewId(to)].what = path[n].what
                          ELSE msgs' = msgs
      PROVE  SessionInv'
  <2> DEFINE rec == Forked(f, more)
             phase == IF n = Len(path) THEN "done" ELSE "copying"
  <2>1. rec = [fork[f] EXCEPT !.next = n + 1, !.lost = lost \cup more, !.phase = phase]
    BY <1>4 DEF Forked
  <2>2. /\ n + 1 \in Nat /\ phase \in {"copying", "failed", "done"}
        /\ lost \cup more \in SUBSET Nat
    <3>1. lost \subseteq Nat /\ more \subseteq Nat
      OBVIOUS
    <3>2. lost \cup more \in SUBSET Nat
      BY <3>1
    <3> QED BY <3>2
  <2> HIDE DEF rec, phase
  <2>3. rec \in ForkRec
    BY <1>3, <2>1, <2>2 DEF ForkRec
  <2>4. rec.next = n + 1 /\ rec.lost = lost \cup more /\ rec.phase = phase
    BY <1>3, <2>1 DEF ForkRec
  <2>5. rec.to = to /\ rec.path = path
    BY <1>3, <1>4, <2>1 DEF ForkRec
  <2>6. rec.fresh = fork[f].fresh
    BY <1>3, <2>1 DEF ForkRec
  <2>7. /\ fork' = [fork EXCEPT ![f] = rec] /\ fork'[f] = rec
        /\ \A g \in Fork \ {f} : fork'[g] = fork[g]
    BY <1>1, <1>6 DEF Typed, rec
  <2>8. /\ fork'[f].next = n + 1 /\ fork'[f].lost = lost \cup more
        /\ fork'[f].to = to /\ fork'[f].path = path /\ fork'[f].phase = phase
    BY <2>4, <2>5, <2>7
  <2>9. lost \cup more \subseteq 1..n /\ n \notin lost
    <3>1. \A j \in lost : j \in 1..n /\ j # n
      BY <1>5
    <3>2. n \in 1..n
      BY <1>5
    <3> QED BY <3>1, <3>2
  \* How many there are, and how many before a message that is not among them.
  <2>10. /\ Cardinality(lost) \in Nat
         /\ IsFiniteSet(lost \cup more)
         /\ Cardinality(lost \cup more) =
               IF more = {} THEN Cardinality(lost) ELSE Cardinality(lost) + 1
    <3>1. CASE more = {}
      BY <1>5, <3>1, FS_CardinalityType
    <3>2. CASE more = {n}
      BY <1>5, <2>9, <3>2, FS_CardinalityType, FS_AddElement
    <3> QED BY <3>1, <3>2
  <2>11. /\ \A i \in 1..(n - 1) : LostBefore(f, i)' = LostBefore(f, i)
         /\ more = {} => LostBefore(f, n)' = lost
    <3>1. ASSUME NEW i \in 1..(n - 1)
          PROVE  {j \in lost \cup more : j < i} = {j \in lost : j < i}
      OBVIOUS
    <3>2. {j \in lost : j < n} = lost
      <4>1. \A j \in lost : j < n
        BY <1>5
      <4> QED BY <4>1
    <3> QED BY <1>4, <2>8, <3>1, <3>2 DEF LostBefore
  <2>12. Undisputed(f)' => CopiedSoFar(f)'
    <3> SUFFICES ASSUME Undisputed(f)' PROVE CopiedSoFar(f)'
      OBVIOUS
    <3>1. Undisputed(f)
      BY <1>2, <1>4, <2>5, <2>6, <2>7 DEF Undisputed, history
    <3>2. /\ Len(msgs[to]) = n - 1 - Cardinality(lost)
          /\ \A i \in 1..(n - 1) : i \notin lost =>
                /\ Target(f, i) \in Ids(to)
                /\ msgs[to][Target(f, i)].what = path[i].what
      BY <1>1, <1>2, <1>4, <3>1 DEF GoodFork, CopiedSoFar
    <3>3. Len(msgs'[to]) = (n + 1) - 1 - Cardinality(lost \cup more)
      BY <1>6, <2>10, <3>2 DEF NewId
    <3>4. ASSUME NEW i \in 1..n, i \notin lost \cup more
          PROVE  /\ Target(f, i)' \in Ids(to)'
                 /\ msgs'[to][Target(f, i)'].what = path[i].what
      <4>1. CASE i = n
        <5>1. more = {}
          BY <3>4, <4>1
        <5>2. Target(f, i)' = NewId(to)
          BY <2>10, <2>11, <3>2, <4>1, <5>1 DEF Target, NewId
        <5>3. NewId(to) \in Ids(to)'
          BY <1>1, <1>6, <5>1 DEF NewId, Ids, Typed
        <5> QED BY <1>6, <4>1, <5>1, <5>2, <5>3
      <4>2. CASE i # n
        <5>1. i \in 1..(n - 1) /\ i \notin lost
          BY <3>4, <4>2
        <5>2. Target(f, i)' = Target(f, i)
          BY <2>11, <5>1 DEF Target
        <5>3. /\ Target(f, i) \in Ids(to)
              /\ msgs[to][Target(f, i)].what = path[i].what
          BY <3>2, <5>1
        <5>4. Target(f, i) \in Ids(to)' /\ msgs'[to][Target(f, i)] = msgs[to][Target(f, i)]
          BY <1>6, <5>3, IdsStay DEF Kept
        <5> QED BY <5>2, <5>3, <5>4
      <4> QED BY <4>1, <4>2
    <3>5. (n + 1) - 1 = n
      OBVIOUS
    <3> QED BY <2>8, <3>3, <3>4, <3>5 DEF CopiedSoFar
  <2>13. GoodFork(f)'
    <3>1. n # Len(path) => n + 1 \in 1..Len(path)
      BY <1>5
    <3>2. (n + 1) - 1 = n
      OBVIOUS
    <3> QED BY <2>8, <2>9, <2>10, <2>12, <3>1, <3>2 DEF GoodFork, phase
  <2> QED BY <1>2, <1>6, <2>3, <2>7, <2>13, ForkStep
\* Or it ends.
<1>7. ASSUME fork' = [fork EXCEPT ![f].phase = "failed"], Trees', Kept, NewPlain
      PROVE  SessionInv'
  <2> DEFINE rec == [fork[f] EXCEPT !.phase = "failed"]
  <2>1. rec \in ForkRec
    BY <1>3 DEF ForkRec
  <2>2. rec.phase = "failed"
    BY <1>3 DEF ForkRec
  <2>3. rec.lost = lost /\ rec.next = n
    BY <1>3, <1>4 DEF ForkRec
  <2>4. fork' = [fork EXCEPT ![f] = rec] /\ fork'[f] = rec
    BY <1>1, <1>7 DEF Typed
  <2> HIDE DEF rec
  <2>5. GoodFork(f)'
    BY <1>5, <2>2, <2>3, <2>4 DEF GoodFork
  <2> QED BY <1>2, <1>7, <2>1, <2>4, <2>5, ForkStep
<1>8. CASE /\ Appended(to, 0, path[n].what, "none", path[n].of)
           /\ \/ fork' = [fork EXCEPT ![f] = Forked(f, {})]
              \/ fork' = [fork EXCEPT ![f].phase = "failed"]
  <2>1. path[n].what \in Place /\ path[n].of \in Place
    BY <1>5, MessageFields
  <2>2. /\ Trees' /\ Kept /\ NewPlain
        /\ Len(msgs'[to]) = NewId(to)
        /\ msgs'[to][NewId(to)].what = path[n].what
    <3>1. 0 \in Ids(to) \cup {0}
      OBVIOUS
    <3> QED BY <1>1, <1>8, <2>1, <3>1, AppendedGood
  <2>3. CASE fork' = [fork EXCEPT ![f] = Forked(f, {})]
    BY <1>6, <2>2, <2>3
  <2>4. CASE fork' = [fork EXCEPT ![f].phase = "failed"]
    BY <1>7, <2>2, <2>4
  <2> QED BY <1>8, <2>3, <2>4
<1>9. CASE /\ \/ fork' = [fork EXCEPT ![f] = Forked(f, {n})]
              \/ fork' = [fork EXCEPT ![f].phase = "failed"]
           /\ UNCHANGED <<msgs, meta>>
  <2>1. Trees' /\ Kept /\ NewPlain
    BY <1>1, <1>9, TreesSame, SameMessages
  <2>2. CASE fork' = [fork EXCEPT ![f] = Forked(f, {n})]
    <3>1. {n} # {}
      OBVIOUS
    <3> QED BY <1>6, <1>9, <2>1, <2>2, <3>1
  <2>3. CASE fork' = [fork EXCEPT ![f].phase = "failed"]
    BY <1>7, <2>1, <2>3
  <2> QED BY <1>9, <2>2, <2>3
<1> QED BY <1>4, <1>8, <1>9 DEF ForkCopies

-----------------------------------------------------------------------------
(***************************************************************************)
(* The theorems.                                                           *)
(***************************************************************************)
LEMMA SessionInvInit == Init => SessionInv
<1> SUFFICES ASSUME Init PROVE SessionInv
  OBVIOUS
<1>1. \A s \in Session : Ids(s) = {} /\ msgs[s] = <<>> /\ Len(msgs[s]) = 0
  BY DEF Init, Ids
<1>2. ASSUME NEW s \in Session PROVE GoodSession(s)
  <2>1. meta[s] = [there |-> FALSE, root |-> 0, compacted |-> 0]
    BY DEF Init
  <2>2. Tree(msgs[s])
    <3>1. <<>> \in Seq(Message) /\ 1..0 = {}
      OBVIOUS
    <3> QED BY <1>1, <3>1 DEF Tree
  <2> QED BY <1>1, <2>1, <2>2 DEF GoodSession
<1>3. Typed
  <2>1. [there |-> FALSE, root |-> 0, compacted |-> 0] \in MetaRec
    BY DEF MetaRec
  <2>2. <<>> \in Seq(Message)
    OBVIOUS
  <2> QED BY <1>2, <2>1, <2>2, AgentSessionAssumption DEF Init, Typed
<1>4. MarkInv
  BY <1>1 DEF Init, MarkInv, GoodApply
<1>5. ForkInv
  BY DEF Init, ForkInv, GoodFork
<1> QED BY <1>3, <1>4, <1>5 DEF SessionInv

LEMMA SessionInvNext == SessionInv /\ [Next]_vars => SessionInv'
<1> SUFFICES ASSUME SessionInv, [Next]_vars PROVE SessionInv'
  OBVIOUS
<1>1. CASE \E s \in Session : ClientAppends(s) \/ Initialised(s) \/ Compact(s)
  BY <1>1, ClientAppendsInv, InitialisedInv, CompactInv
<1>2. CASE \E a \in Apply : \/ \E s \in Session : ApplyChooses(a, s)
                            \/ ApplyRuns(a) \/ ApplyNotes(a) \/ ApplyMarks(a)
  BY <1>2, ApplyChoosesInv, ApplyRunsInv, ApplyNotesInv, ApplyMarksInv
<1>3. CASE \E f \in Fork : \/ \E from, to \in Session : ForkReads(f, from, to)
                           \/ ForkCopies(f)
  BY <1>3, ForkReadsInv, ForkCopiesInv
<1>4. CASE UNCHANGED vars
  BY <1>4 DEF vars, SessionInv, Typed, GoodSession, Tree, Ids, MarkInv, GoodApply,
              GoodMark, Ran, Reported, Accounted, ForkInv, GoodFork, Undisputed,
              CopiedSoFar, Target, LostBefore
<1> QED BY <1>1, <1>2, <1>3, <1>4 DEF Next

LEMMA SessionInvAlways == Spec => []SessionInv
BY SessionInvInit, SessionInvNext, PTL DEF Spec

(* Every session is one tree, rooted in its first message, and the meta    *)
(* row knows its root, whatever appends, compactions, rollbacks and forks  *)
(* interleave.                                                             *)
THEOREM SessionTypeCorrect == Spec => []TypeOK
<1>1. SessionInv => TypeOK
  <2> SUFFICES ASSUME SessionInv PROVE TypeOK
    OBVIOUS
  <2>1. Typed
    BY DEF SessionInv
  <2>2. ASSUME NEW a \in Apply PROVE apply[a].phase \in
            {"idle", "none", "chosen", "ran", "noted", "failed", "done"}
    <3>1. apply[a] \in {[phase |-> "idle"], [phase |-> "none"]} \cup ApplyRec
      BY <2>1 DEF Typed
    <3> QED BY <3>1 DEF ApplyRec
  <2>3. ASSUME NEW f \in Fork PROVE
            fork[f].phase \in {"idle", "copying", "failed", "done"}
    <3>1. fork[f] \in {[phase |-> "idle"]} \cup ForkRec
      BY <2>1 DEF Typed
    <3> QED BY <3>1 DEF ForkRec
  <2> QED BY <2>1, <2>2, <2>3 DEF Typed, GoodSession, Tree, TypeOK, Ids
<1> QED BY <1>1, SessionInvAlways, PTL

(* A message is marked as applied only when its inverse has been run and   *)
(* its result is in the transcript, and no request that reads the list     *)
(* after another was answered runs the same inverse again.                 *)
THEOREM AppliedMeansReported == Spec => []AppliedIsReported
<1>1. SessionInv => AppliedIsReported
  BY DEF SessionInv, MarkInv, GoodMark, GoodApply, Ran, Accounted, AppliedIsReported
<1> QED BY <1>1, SessionInvAlways, PTL

(* A fork into a session that nobody else writes to ends with the messages *)
(* of the path, as they were when it was asked for, in their order and each *)
(* once, except those the target refused, and with nothing else.           *)
THEOREM ForksCopyPaths == Spec => []ForkCopiesPath
<1>1. SessionInv => ForkCopiesPath
  <2> SUFFICES ASSUME SessionInv, NEW f \in Fork, fork[f].phase = "done",
                      fork[f].fresh, fork[f].to \notin touched,
                      \A g \in Fork \ {f} : fork[g].phase = "idle"
               PROVE  /\ Len(msgs[fork[f].to]) =
                            Len(fork[f].path) - Cardinality(fork[f].lost)
                      /\ \A i \in DOMAIN fork[f].path \ fork[f].lost :
                            msgs[fork[f].to][i - Cardinality(LostBefore(f, i))].what
                                = fork[f].path[i].what
    BY DEF ForkCopiesPath
  <2>1. GoodFork(f) /\ Undisputed(f)
    BY DEF SessionInv, ForkInv, Undisputed
  <2>2. fork[f].path \in Seq(Message) /\ Len(fork[f].path) \in Nat
    BY RecordFields DEF SessionInv
  <2>3. /\ fork[f].next = Len(fork[f].path) + 1 /\ CopiedSoFar(f)
        /\ DOMAIN fork[f].path = 1..Len(fork[f].path)
    BY <2>1, <2>2 DEF GoodFork
  <2>4. fork[f].next - 1 = Len(fork[f].path)
    BY <2>2, <2>3
  <2> QED BY <2>3, <2>4 DEF CopiedSoFar, Target
<1> QED BY <1>1, SessionInvAlways, PTL

\* What pathToRoot gives a fork is the whole branch of its message: it begins
\* at the root, each message is the parent of the next, and it ends with the
\* message itself (agentSession.ts:436-461), however the tree has grown.
PathIsBranch ==
    \A s \in Session : \A m \in Ids(s) :
        LET path == PathToRoot(s, m) IN
        /\ path # <<>> /\ path[1] = 1 /\ path[Len(path)] = m
        /\ \A i \in 1..(Len(path) - 1) : path[i] = msgs[s][path[i + 1]].parent

(* pathToRoot gives the whole branch of a message, whatever the tree: the  *)
(* walk up ends at the root, and its reversal begins there.                *)
THEOREM PathsAreBranches == Spec => []PathIsBranch
<1>1. SessionInv => PathIsBranch
  <2> SUFFICES ASSUME SessionInv, NEW s \in Session, NEW m \in Ids(s)
               PROVE  LET path == PathToRoot(s, m) IN
                      /\ path # <<>> /\ path[1] = 1 /\ path[Len(path)] = m
                      /\ \A i \in 1..(Len(path) - 1) :
                            path[i] = msgs[s][path[i + 1]].parent
    BY DEF PathIsBranch
  <2>1. Tree(msgs[s])
    BY DEF SessionInv, Typed, GoodSession
  <2> QED BY <2>1, PathToRootIs
<1> QED BY <1>1, SessionInvAlways, PTL
=============================================================================
