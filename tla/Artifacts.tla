----------------------------- MODULE Artifacts ------------------------------
(***************************************************************************)
(* src/plugins/artifacts.ts with helmToml.ts: the agent's own source in an  *)
(* Artifacts repository, its one clone in the shell container, and the     *)
(* Worker that is deployed from it.                                        *)
(*                                                                         *)
(* A skill runs one command after another in the clone, and nothing keeps  *)
(* two skills (of a chat and a cron, say) from doing so at once.  The owner *)
(* pushes to the repository from a clone of his own, bindings are patched  *)
(* on the live Worker, and the upstream project goes on.                   *)
(*                                                                         *)
(* There are two files: wrangler.toml is the set of names it has a block   *)
(* or a comment for, all other code is its last author.  git, the container *)
(* and Cloudflare are external.                                            *)
(***************************************************************************)
EXTENDS Naturals, Sequences, FiniteSets

CONSTANTS Block,      \* bindings that a block of wrangler.toml declares
          Comment,    \* secrets, variables, Durable Objects: only ever noted
          Skill,      \* invocations of skills
          Scene       \* initial situations: [made, todo, bound, edits, losses]

Name == Block \cup Comment
Author == Skill \cup {"first", "owner", "upstream"}
File == {"toml", "code"}
Tree == [toml : SUBSET Name, code : Author]
Phase == {"init", "pull", "check", "sync", "write", "deploy", "upstream"}

\* What a skill pushes, it pushes at its end.
ASSUME ArtifactsAssumption ==
    /\ Skill \cap {"first", "owner", "upstream"} = {}
    /\ \A s \in Scene : /\ s.made \in BOOLEAN /\ s.bound \subseteq Name
                        /\ s.edits \in Nat /\ s.losses \in Nat
                        /\ s.todo \in [Skill -> Seq(Phase)]
                        /\ \A k \in Skill : \A i \in 1 .. Len(s.todo[k]) - 1 :
                              s.todo[k][i] \notin {"sync", "write", "upstream"}

VARIABLES
    repo,     \* commits; upstream: its head; origin: that of Artifacts, or 0;
              \* made: is the repository there?
    clone,    \* the clone in the container: its head (0: not there), the
              \* working tree and the index
    bound,    \* the bindings of the live Worker
    skill,    \* skill[s]: one invocation
    bounds    \* bounds: what others may still do, containers that may be lost;
              \* removed: (history) bindings patched away

fork == <<repo, clone, bound, skill, bounds>>

\* todo: what is still to be done, the first under way.  text: wrangler.toml as
\* it was read or is to be written.  up: the head of upstream that was fetched.
\* ok, pushed: the answer.  beside: (history) skills that ran at some time
\* with it.  saw: (history) the bindings a reconcile found the file to lack.
Invocation ==
    [at : {"idle", "probe", "make", "pull", "read", "settings", "edit", "stage", "commit",
           "push", "deploy", "fetch", "merge", "over"},
     todo : Seq(Phase), text : SUBSET Name, up : Nat, ok : BOOLEAN, pushed : BOOLEAN,
     beside : SUBSET Skill, saw : SUBSET Name]
Invoked(todo) == [at |-> "idle", todo |-> todo, text |-> {}, up |-> 0, ok |-> TRUE,
                  pushed |-> FALSE, beside |-> {}, saw |-> {}]

NoTree == [toml |-> {}, code |-> "first"]
NoClone == [head |-> 0, tree |-> NoTree, index |-> NoTree]
Commit(tree, past) == [tree |-> tree, past |-> past]

ForkInit == \E s \in Scene :
    /\ repo = [commits |-> <<Commit([toml |-> {}, code |-> "first"], {1})>>,
               upstream |-> 1, origin |-> IF s.made THEN 1 ELSE 0, made |-> s.made]
    /\ clone = NoClone /\ bound = s.bound
    /\ skill = [k \in Skill |-> Invoked(s.todo[k])]
    /\ bounds = [edits |-> s.edits, losses |-> s.losses, removed |-> {}]
-----------------------------------------------------------------------------
(***************************************************************************)
(* git.                                                                    *)
(***************************************************************************)
Past(i) == IF i = 0 THEN {} ELSE repo.commits[i].past
TreeOf(i) == IF i = 0 THEN NoTree ELSE repo.commits[i].tree
New == Len(repo.commits) + 1

In(f, tree) == IF f = "toml" THEN tree.toml ELSE tree.code
With(tree, f, content) == IF f = "toml" THEN [tree EXCEPT !.toml = content]
                          ELSE [tree EXCEPT !.code = content]
Dirty(f) == \E tree \in {clone.tree, clone.index} : In(f, tree) # In(f, TreeOf(clone.head))

\* Of two trees that go back to a third: what only the second has changed is
\* taken from it.
Joined(base, one, two) ==
    LET Taken(f) == IF In(f, one) = In(f, base) THEN In(f, two) ELSE In(f, one)
    IN  [toml |-> Taken("toml"), code |-> Taken("code")]

\* The clone moves from one commit to another: files that do not differ between
\* them keep their local edits.
MovedTo(i, tree) ==
    LET Carried(t) == Joined(TreeOf(clone.head), tree, t)
    IN  [head |-> i, tree |-> Carried(clone.tree), index |-> Carried(clone.index)]

\* git pull --ff-only: refused when both have gone on, or over local edits.
PullsCleanly ==
    \/ repo.origin \in Past(clone.head)
    \/ /\ clone.head \in Past(repo.origin)
       /\ \A f \in File : Dirty(f) => In(f, TreeOf(repo.origin)) = In(f, TreeOf(clone.head))

Pulled == IF clone.head = 0
          THEN [head |-> repo.origin, tree |-> TreeOf(repo.origin), index |-> TreeOf(repo.origin)]
          ELSE IF repo.origin \in Past(clone.head) THEN clone
          ELSE MovedTo(repo.origin, TreeOf(repo.origin))

\* The newest commit that two histories share, and their merge.
Base(i, j) == CHOOSE b \in Past(i) \cap Past(j) : \A c \in Past(i) \cap Past(j) : c <= b
Merged(i, j) == Joined(TreeOf(Base(i, j)), TreeOf(i), TreeOf(j))
Conflict(i, j) == \E f \in File : LET At(k) == In(f, TreeOf(k)) IN
                    At(i) # At(Base(i, j)) /\ At(j) # At(Base(i, j)) /\ At(i) # At(j)
-----------------------------------------------------------------------------
(***************************************************************************)
(* A skill.                                                                *)
(***************************************************************************)
Running == {s \in Skill : skill[s].at \notin {"idle", "over"}}
Doing(s, phase) == skill[s].todo # <<>> /\ Head(skill[s].todo) = phase
Becomes(s, r) == skill' = [skill EXCEPT ![s] = r]
IsAt(s, place) == skill[s].at = place /\ UNCHANGED bounds

\* A phase has ended: the next one begins, or the skill answers.
Done(r) == IF Len(r.todo) > 1 THEN [r EXCEPT !.todo = Tail(@), !.at = "pull"]
           ELSE [r EXCEPT !.todo = <<>>, !.at = "over"]

\* A check, or an only phase, that fails ends the skill; reconcile goes on.
Failed(r) == IF Head(r.todo) = "check" THEN [r EXCEPT !.todo = <<>>, !.at = "over", !.ok = FALSE]
             ELSE [Done(r) EXCEPT !.ok = FALSE]

Breaks(s) == Becomes(s, Failed(skill[s])) /\ UNCHANGED <<repo, clone, bound>>

\* invoke.
Starts(s) ==
    /\ IsAt(s, "idle") /\ skill[s].todo # <<>>
    /\ skill' = [k \in Skill |->
                   IF k = s THEN [skill[s] EXCEPT !.beside = Running,
                                    !.at = IF Doing(s, "init") THEN "probe" ELSE "pull"]
                   ELSE IF k \in Running THEN [skill[k] EXCEPT !.beside = @ \cup {s}]
                   ELSE skill[k]]
    /\ UNCHANGED <<repo, clone, bound>>

\* init: is the repository there?
Probes(s) ==
    /\ IsAt(s, "probe")
    /\ \/ repo.made /\ Becomes(s, Done(skill[s]))
       \/ ~repo.made /\ Becomes(s, [skill[s] EXCEPT !.at = "make"])
    /\ UNCHANGED <<repo, clone, bound>>

\* Otherwise it is imported from upstream, or made with nothing in it.
Makes(s) ==
    /\ IsAt(s, "make")
    /\ \/ Breaks(s)
       \/ /\ ~repo.made
          /\ repo' \in {[repo EXCEPT !.made = TRUE, !.origin = repo.upstream],
                        [repo EXCEPT !.made = TRUE]}
          /\ Becomes(s, Done(skill[s])) /\ UNCHANGED <<clone, bound>>

\* ensureClone, with which every other phase begins.
Clones(s) ==
    /\ IsAt(s, "pull")
    /\ \/ Breaks(s)
       \/ /\ repo.origin # 0 /\ (clone.head = 0 \/ PullsCleanly)
          /\ clone' = Pulled
          /\ Becomes(s, CASE Doing(s, "pull") -> Done(skill[s])
                       [] Doing(s, "write") -> [skill[s] EXCEPT !.at = "edit"]
                       [] Doing(s, "deploy") -> [skill[s] EXCEPT !.at = "deploy"]
                       [] Doing(s, "upstream") -> [skill[s] EXCEPT !.at = "fetch"]
                       [] OTHER -> [skill[s] EXCEPT !.at = "read"])
          /\ UNCHANGED <<repo, bound>>

\* A command fails: the container does not answer, or has lost the clone.
Strands(s) ==
    /\ skill[s].at \in {"read", "edit", "stage", "commit", "deploy", "fetch", "merge"}
    /\ Breaks(s) /\ UNCHANGED bounds
-----------------------------------------------------------------------------
(***************************************************************************)
(* sync-toml, cron-sync and the check of reconcile.                        *)
(***************************************************************************)
Reads(s) ==
    /\ IsAt(s, "read") /\ clone.head # 0
    /\ Becomes(s, [skill[s] EXCEPT !.at = "settings", !.text = clone.tree.toml])
    /\ UNCHANGED <<repo, clone, bound>>

\* diffBindings: only a block declares.
Undeclared(text) == bound \ (text \cap Block)
Unbound(text) == (text \cap Block) \ bound

\* What reconcile goes through.  With drift in both directions the file is
\* deployed first, and then what it lacks is added to it.
Plan(text) ==
    CASE Unbound(text) # {} /\ Undeclared(text) # {} -> <<"check", "deploy", "sync">>
      [] Unbound(text) # {} /\ Undeclared(text) = {} -> <<"check", "deploy">>
      [] Unbound(text) = {} /\ Undeclared(text) # {} -> <<"check", "sync">>
      [] OTHER -> <<"check">>

\* The settings of the live Worker.  A check that is to be followed by nothing
\* is cron-sync, by a sync the workflow that applies it, by a deploy reconcile.
Compares(s) ==
    /\ IsAt(s, "settings")
    /\ LET r == skill[s]
           lacks == Undeclared(r.text)
       IN  \/ Breaks(s)
           \/ /\ Doing(s, "check") /\ UNCHANGED <<repo, clone, bound>>
              /\ Becomes(s, CASE r.todo = <<"check", "deploy", "sync">> ->
                                Done([r EXCEPT !.todo = Plan(r.text),
                                               !.saw = lacks \cap Block])
                           [] r.todo = <<"check", "sync">> /\ Plan(r.text) # <<"check">> -> Done(r)
                           [] OTHER -> Done([r EXCEPT !.todo = <<"check">>]))
           \/ /\ Doing(s, "sync") /\ UNCHANGED <<repo, clone, bound>>
              /\ Becomes(s, IF lacks \subseteq r.text THEN Done(r)
                         ELSE [r EXCEPT !.todo = <<"write">>, !.at = "pull",
                                        !.text = @ \cup lacks])
-----------------------------------------------------------------------------
(***************************************************************************)
(* write-file, which sync-toml calls with the whole file.                  *)
(***************************************************************************)
Target(s) == IF skill[s].text = {} THEN "code" ELSE "toml"
Content(s) == IF Target(s) = "code" THEN s ELSE skill[s].text

Edits(s) ==
    /\ IsAt(s, "edit") /\ clone.head # 0
    /\ clone' = [clone EXCEPT !.tree = With(@, Target(s), Content(s))]
    /\ Becomes(s, [skill[s] EXCEPT !.at = "stage"]) /\ UNCHANGED <<repo, bound>>

Stages(s) ==
    /\ IsAt(s, "stage") /\ clone.head # 0
    /\ clone' = [clone EXCEPT !.index = With(@, Target(s), In(Target(s), clone.tree))]
    /\ Becomes(s, [skill[s] EXCEPT !.at = "commit"]) /\ UNCHANGED <<repo, bound>>

\* Whatever is staged is committed.  With nothing staged git says "nothing to
\* commit", which is a success, unless there are other edits.
Commits(s) ==
    /\ IsAt(s, "commit") /\ clone.head # 0 /\ UNCHANGED bound
    /\ IF clone.index # TreeOf(clone.head)
       THEN /\ repo' = [repo EXCEPT !.commits =
                           Append(@, Commit(clone.index, Past(clone.head) \cup {New}))]
            /\ clone' = [clone EXCEPT !.head = New]
            /\ Becomes(s, [skill[s] EXCEPT !.at = "push"])
       ELSE /\ UNCHANGED <<repo, clone>>
            /\ Becomes(s, IF clone.tree = clone.index THEN Done(skill[s]) ELSE Failed(skill[s]))

\* A push that fails makes write-file answer ok, with pushed: false, and
\* pull-upstream fail.  Without a token for it there is no answer at all.
PushFails(s) ==
    /\ UNCHANGED <<repo, clone, bound>>
    /\ \/ Becomes(s, Failed(skill[s]))
       \/ ~Doing(s, "upstream") /\ Becomes(s, Done(skill[s]))

\* Mutation: by force.
PushesByForce(s) ==
    /\ IsAt(s, "push")
    /\ \/ PushFails(s)
       \/ /\ clone.head # 0 /\ repo' = [repo EXCEPT !.origin = clone.head]
          /\ Becomes(s, Done([skill[s] EXCEPT !.pushed = TRUE])) /\ UNCHANGED <<clone, bound>>

\* The branch is pushed, unless the owner has pushed meanwhile.
Pushes(s) ==
    /\ IsAt(s, "push")
    /\ \/ PushFails(s)
       \/ /\ clone.head # 0 /\ repo.origin \in Past(clone.head)
          /\ repo' = [repo EXCEPT !.origin = clone.head]
          /\ Becomes(s, Done([skill[s] EXCEPT !.pushed = TRUE])) /\ UNCHANGED <<clone, bound>>
-----------------------------------------------------------------------------
(***************************************************************************)
(* deploy and pull-upstream.                                               *)
(***************************************************************************)

\* wrangler deploys the working tree: the Worker gets the bindings the file
\* declares, and keeps its secrets.  The marker it then puts on the Worker,
\* a variable that no file has a block for, is CloudUpdates!SelfClaims.
Deploys(s) ==
    /\ IsAt(s, "deploy") /\ clone.head # 0
    /\ bound' = (clone.tree.toml \cap Block) \cup (bound \cap Comment)
    /\ Becomes(s, Done(skill[s])) /\ UNCHANGED <<repo, clone>>

Fetches(s) ==
    /\ IsAt(s, "fetch") /\ clone.head # 0
    /\ Becomes(s, [skill[s] EXCEPT !.at = "merge", !.up = repo.upstream])
    /\ UNCHANGED <<repo, clone, bound>>

\* The commits to come are counted: with none there is nothing to do, and a
\* count that fails is taken for none.
UpToDate(s) ==
    /\ IsAt(s, "merge")
    /\ Becomes(s, Done(skill[s])) /\ UNCHANGED <<repo, clone, bound>>

\* Merge or rebase, and abort what conflicts or meets local edits.
Merges(s) ==
    /\ IsAt(s, "merge") /\ clone.head # 0 /\ skill[s].up \notin Past(clone.head)
    /\ UNCHANGED bound
    /\ LET up == skill[s].up
           head == clone.head
           tree == Merged(head, up)
           blocked == \/ Past(head) \cap Past(up) = {}
                      \/ Conflict(head, up)
                      \/ \E f \in File : Dirty(f) /\ In(f, tree) # In(f, TreeOf(head))
           Onward == Becomes(s, [skill[s] EXCEPT !.at = "push"])
       IN  \/ blocked /\ Breaks(s)
           \/ /\ ~blocked /\ head \in Past(up)
              /\ clone' = MovedTo(up, TreeOf(up)) /\ Onward /\ UNCHANGED repo
           \/ /\ ~blocked /\ head \notin Past(up)
              /\ \E past \in {Past(head) \cup Past(up), Past(up)} :
                    repo' = [repo EXCEPT !.commits = Append(@, Commit(tree, past \cup {New}))]
              /\ clone' = MovedTo(New, tree) /\ Onward
-----------------------------------------------------------------------------
(***************************************************************************)
(* The others.                                                             *)
(***************************************************************************)
Toggled(names) == {IF n \in names THEN names \ {n} ELSE names \cup {n} : n \in Block}

Others == bounds.edits > 0 /\ bounds' = [bounds EXCEPT !.edits = @ - 1]

\* A commit on top of commit i, by the owner or upstream.
On(author, i) ==
    {Commit(t, Past(i) \cup {New}) : t \in
        {[TreeOf(i) EXCEPT !.code = author]}
        \cup {[TreeOf(i) EXCEPT !.toml = names] : names \in Toggled(TreeOf(i).toml)}}

OwnerPushes ==
    /\ repo.made /\ Others
    /\ \E c \in On("owner", repo.origin) :
          repo' = [repo EXCEPT !.commits = Append(@, c), !.origin = New]
    /\ UNCHANGED <<clone, bound, skill>>

UpstreamGoesOn ==
    /\ Others
    /\ \E c \in On("upstream", repo.upstream) :
          repo' = [repo EXCEPT !.commits = Append(@, c), !.upstream = New]
    /\ UNCHANGED <<clone, bound, skill>>

\* A binding is patched on the live Worker, or taken off on the dashboard.
Patched ==
    /\ bounds.edits > 0
    /\ bound' \in Toggled(bound)
    /\ bounds' = [bounds EXCEPT !.edits = @ - 1, !.removed = @ \cup (bound \ bound')]
    /\ UNCHANGED <<repo, clone, skill>>

ContainerLost ==
    /\ clone.head # 0 /\ bounds.losses > 0
    /\ clone' = NoClone /\ bounds' = [bounds EXCEPT !.losses = @ - 1]
    /\ UNCHANGED <<repo, bound, skill>>

ForkNext ==
    \/ \E s \in Skill :
          \/ Starts(s) \/ Probes(s) \/ Makes(s) \/ Clones(s) \/ Strands(s)
          \/ Reads(s) \/ Compares(s) \/ Edits(s) \/ Stages(s) \/ Commits(s) \/ Pushes(s)
          \/ Deploys(s) \/ Fetches(s) \/ UpToDate(s) \/ Merges(s)
    \/ OwnerPushes \/ UpstreamGoesOn \/ Patched \/ ContainerLost
-----------------------------------------------------------------------------
(***************************************************************************)
(* Properties.                                                             *)
(***************************************************************************)
ForkTypeOK ==
    /\ repo \in [commits : Seq([tree : Tree, past : SUBSET Nat]), upstream : Nat, origin : Nat,
                 made : BOOLEAN]
    /\ clone \in [head : Nat, tree : Tree, index : Tree]
    /\ bound \subseteq Name
    /\ skill \in [Skill -> Invocation]
    /\ bounds \in [edits : Nat, losses : Nat, removed : SUBSET Name]

\* What a skill reports as pushed is in the history of Artifacts from then on,
\* whatever the owner and later skills push: the file it wrote ("atomic edit +
\* commit + push", artifacts.ts:36), or the release it has merged.  Two skills
\* that work in the clone at once are not covered: see README.
InHistory(s) == IF skill[s].up # 0 THEN skill[s].up \in Past(repo.origin)
                ELSE \E i \in Past(repo.origin) : In(Target(s), TreeOf(i)) = Content(s)
PushedStays == \A s \in Skill : skill[s].pushed /\ skill[s].beside = {} => InHistory(s)

\* "If the toml drifted from the live Worker ..., deploy will DROP those
\* bindings.  Run reconcile first, then deploy." (helmDocs.ts:602-605): a
\* reconcile that succeeds, with no other skill around, has written the bindings
\* it found missing in the file to it, unless they were removed meanwhile.
\* It fails: with drift in both directions reconcile deploys first.
ReconcileKeepsBindings ==
    \A s \in Skill :
        skill[s].at = "over" /\ skill[s].ok /\ skill[s].beside = {} =>
            \A n \in skill[s].saw \ bounds.removed :
                \E i \in DOMAIN repo.commits : n \in TreeOf(i).toml
=============================================================================
