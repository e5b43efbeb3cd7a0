----------------------------- MODULE ChatIndex -----------------------------
(***************************************************************************)
(* src/chatSessionsApi.ts on src/chatSessions.ts: the D1 rows behind the   *)
(* left rail, and the requests of one user on them.                        *)
(*                                                                         *)
(* Each statement on D1 is atomic and each is awaited, so a step is one    *)
(* statement and a request may be overtaken between two of its own.  A     *)
(* touch (sent after each turn) and a PATCH take several; the others one.  *)
(***************************************************************************)
EXTENDS Naturals

CONSTANTS Session, Project, Touch, Patch,   \* ids of rows and of requests
          Body,                             \* bound: the bodies of PATCHes
          Null

Title == {"none", "auto", "own"}   \* by the touch handler, by the user

\* A chat_sessions row.  (user_email is the same throughout, and no request
\* here reads created_at or last_message_at.)
Row == [title : Title, project : Project \cup {Null}, archived : BOOLEAN,
        count : Nat]

\* What a PATCH changes: the rail sends one field at a time.
Change == [field : {"title"}, to : {"none", "own"}]
          \cup [field : {"project"}, to : Project \cup {Null}]
          \cup [field : {"archived"}, to : BOOLEAN]
Changed(row, body) ==
    [title |-> IF body.field = "title" THEN body.to ELSE row.title,
     project |-> IF body.field = "project" THEN body.to ELSE row.project,
     archived |-> IF body.field = "archived" THEN body.to ELSE row.archived,
     count |-> row.count]

ASSUME IndexAssumption == Null \notin Project /\ Body \subseteq Change

VARIABLES
    rows,       \* chat_sessions: a function on the ids that have a row
    projects,   \* chat_projects: the ids that have a row
    made,       \* ids newId has handed out; it hands out none twice
    touch,      \* touch[t]: where a touch has got to and the title it has read
    patch,      \* patch[p]: where a PATCH has got to
    renamed,    \* (history) touches under way when the user set the title
    orphaned    \* (history) PATCHes whose project went after they checked it

index == <<rows, projects, made, touch, patch, renamed, orphaned>>

Listed(s) == s \in DOMAIN rows
Inserted(s, row) == rows' = [x \in DOMAIN rows \cup {s} |-> IF x = s THEN row ELSE rows[x]]
Fresh == [title |-> "none", project |-> Null, archived |-> FALSE, count |-> 0]

IndexTypeOK ==
    /\ DOMAIN rows \subseteq Session
    /\ \A s \in DOMAIN rows : rows[s] \in Row
    /\ projects \subseteq made /\ made \subseteq Project
    /\ touch \in [Touch -> [at : {"idle", "creating", "counting", "naming", "done"},
                            s : Session \cup {Null}, read : Title, seed : BOOLEAN]]
    /\ patch \in [Patch -> [at : {"idle", "checking", "writing", "done"},
                            s : Session \cup {Null}, body : Body \cup {Null}]]
    /\ renamed \subseteq Touch
    /\ orphaned \subseteq Patch

IndexInit ==
    /\ rows = <<>>
    /\ projects = {}
    /\ made = {}
    /\ touch = [t \in Touch |-> [at |-> "idle", s |-> Null, read |-> "none",
                                 seed |-> FALSE]]
    /\ patch = [p \in Patch |-> [at |-> "idle", s |-> Null, body |-> Null]]
    /\ renamed = {}
    /\ orphaned = {}
-----------------------------------------------------------------------------
(* POST .../touch: ensureSession reads the row, ...                         *)
TouchArrives(t, s) ==
    /\ touch[t].at = "idle"
    /\ \E seed \in BOOLEAN :   \* does the body bring the first message?
         touch' = [touch EXCEPT ![t] =
                     [at |-> IF Listed(s) THEN "counting" ELSE "creating",
                      s |-> s, seed |-> seed,
                      read |-> IF Listed(s) THEN rows[s].title ELSE "none"]]
    /\ UNCHANGED <<rows, projects, made, patch, renamed, orphaned>>

(* ... and inserts it if there was none: the key is refused when another    *)
(* request has inserted it since, and the touch fails.                      *)
TouchCreates(t) ==
    /\ touch[t].at = "creating"
    /\ LET s == touch[t].s
       IN IF Listed(s)
            THEN /\ touch' = [touch EXCEPT ![t].at = "done"]
                 /\ UNCHANGED rows
            ELSE /\ touch' = [touch EXCEPT ![t].at = "counting"]
                 /\ Inserted(s, Fresh)
    /\ UNCHANGED <<projects, made, patch, renamed, orphaned>>

\* Mutation: every touch that has a message generates a title.
NamedAnyway(t) == touch[t].seed

(* The title it has read decides whether it generates one.                  *)
Unnamed(t) == touch[t].seed /\ touch[t].read = "none"

(* touchSession: an UPDATE, without effect on a row that has gone.          *)
TouchCounts(t) ==
    /\ touch[t].at = "counting"
    /\ touch' = [touch EXCEPT ![t].at = IF Unnamed(t) THEN "naming" ELSE "done"]
    /\ rows' = [s \in DOMAIN rows |->
                  IF s = touch[t].s THEN [rows[s] EXCEPT !.count = @ + 1] ELSE rows[s]]
    /\ UNCHANGED <<projects, made, patch, renamed, orphaned>>

(* The model has answered, or the first message is sliced: there is always  *)
(* a title, and it is written over whatever is there.                       *)
TouchNames(t) ==
    /\ touch[t].at = "naming"
    /\ touch' = [touch EXCEPT ![t].at = "done"]
    /\ rows' = [s \in DOMAIN rows |->
                  IF s = touch[t].s THEN [rows[s] EXCEPT !.title = "auto"] ELSE rows[s]]
    /\ UNCHANGED <<projects, made, patch, renamed, orphaned>>
-----------------------------------------------------------------------------
(* PATCH: a project is looked up first, anything else is written at once.   *)
PatchArrives(p, s, body) ==
    /\ patch[p].at = "idle"
    /\ patch' = [patch EXCEPT ![p] =
                   [at |-> IF body.field = "project" /\ body.to # Null
                             THEN "checking" ELSE "writing",
                    s |-> s, body |-> body]]
    /\ UNCHANGED <<rows, projects, made, touch, renamed, orphaned>>

(* getProject: a project that is not there refuses the PATCH.               *)
PatchChecks(p) ==
    /\ patch[p].at = "checking"
    /\ patch' = [patch EXCEPT ![p].at =
                   IF patch[p].body.to \in projects THEN "writing" ELSE "done"]
    /\ UNCHANGED <<rows, projects, made, touch, renamed, orphaned>>

InFlight(s) == {t \in Touch : touch[t].s = s /\ touch[t].at # "done"}

\* Mutation: the change is upserted, over a row that may have gone.
PatchUpserts(p) ==
    LET s == patch[p].s
    IN /\ patch[p].at = "writing"
       /\ patch' = [patch EXCEPT ![p].at = "done"]
       /\ Inserted(s, IF Listed(s) THEN Changed(rows[s], patch[p].body) ELSE patch[p].body)
       /\ UNCHANGED <<projects, made, touch, renamed, orphaned>>

(* updateSession: an UPDATE, like touchSession's.                           *)
PatchWrites(p) ==
    LET s == patch[p].s
        body == patch[p].body
    IN /\ patch[p].at = "writing"
       /\ patch' = [patch EXCEPT ![p].at = "done"]
       /\ rows' = [x \in DOMAIN rows |-> IF x = s THEN Changed(rows[x], body) ELSE rows[x]]
       /\ renamed' = IF body = [field |-> "title", to |-> "own"] THEN renamed \cup InFlight(s) ELSE renamed
       /\ UNCHANGED <<projects, made, touch, orphaned>>
-----------------------------------------------------------------------------
(* POST: the rail's "new chat", under a project it knows of.  Nothing looks *)
(* the project up; a key that is there is refused.                          *)
Posts(s, q) ==
    /\ ~Listed(s)
    /\ Inserted(s, [Fresh EXCEPT !.project = q])
    /\ UNCHANGED <<projects, made, touch, patch, renamed, orphaned>>

Deletes(s) ==
    /\ Listed(s)
    /\ rows' = [x \in DOMAIN rows \ {s} |-> rows[x]]
    /\ UNCHANGED <<projects, made, touch, patch, renamed, orphaned>>

MakesProject(q) ==
    /\ q \notin made
    /\ projects' = projects \cup {q}
    /\ made' = made \cup {q}
    /\ UNCHANGED <<rows, touch, patch, renamed, orphaned>>

\* Mutation: the project is deleted and its sessions are left as they are.
Untagged(q) == rows

(* The UPDATE of the batch takes the project from its sessions ...          *)
Released(q) ==
    [s \in DOMAIN rows |-> IF rows[s].project = q THEN [rows[s] EXCEPT !.project = Null]
                                                  ELSE rows[s]]

(* ... in one transaction with the DELETE.                                  *)
DeletesProject(q) ==
    /\ q \in projects
    /\ rows' = Released(q)
    /\ projects' = projects \ {q}
    /\ orphaned' = orphaned \cup {p \in Patch : /\ patch[p].at = "writing"
                                                /\ patch[p].body = [field |-> "project", to |-> q]}
    /\ UNCHANGED <<made, touch, patch, renamed>>

IndexNext ==
    \/ \E t \in Touch : \/ \E s \in Session : TouchArrives(t, s)
                        \/ TouchCreates(t) \/ TouchCounts(t) \/ TouchNames(t)
    \/ \E p \in Patch : \/ \E s \in Session, body \in Body : PatchArrives(p, s, body)
                        \/ PatchChecks(p) \/ PatchWrites(p)
    \/ \E s \in Session : \/ \E q \in made \cup {Null} : Posts(s, q)
                          \/ Deletes(s)
    \/ \E q \in Project : MakesProject(q) \/ DeletesProject(q)
-----------------------------------------------------------------------------
(* "Auto-title: only when missing" holds of the title a touch has read: a   *)
(* title the user has set is overwritten only by a touch that was under way *)
(* when it was set, and never by one that comes later.                      *)
OwnTitleKept ==
    [][\A s \in DOMAIN rows \cap DOMAIN rows' :
         rows[s].title = "own" /\ rows'[s].title = "auto"
           => \E t \in renamed : touch[t].s = s /\ touch'[t] # touch[t]]_index

Orphan(s) == Listed(s) /\ rows[s].project \notin projects \cup {Null}

(* Deleting a project orphans none of its sessions.  A session comes to     *)
(* name a project that is gone only if it is posted under it, or by a PATCH *)
(* that the deletion has overtaken between its lookup and its write.        *)
OrphansNeedARace ==
    [][\A s \in Session : Orphan(s)' /\ ~Orphan(s)
         => \/ ~Listed(s)
            \/ \E p \in orphaned : patch[p].s = s /\ patch'[p] # patch[p]]_index
=============================================================================
