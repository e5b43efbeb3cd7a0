-------------------------------- MODULE App --------------------------------
(***************************************************************************)
(* Two views of src/app.ts that hold sockets: the chat, with the object it *)
(* talks to, and the terminal.  They share the page and no variable, so a  *)
(* step is a step of one of them; "part" says of which.                    *)
(***************************************************************************)
EXTENDS ChatPage, HelmShell

CONSTANT Part   \* the views to look at

VARIABLE part

appVars == <<allVars, shell, part>>

AppTypeOK == part \in Part /\ PageTypeOK /\ ShellTypeOK

AppInit == part \in Part /\ ChatInit /\ ShellInit

AppNext ==
    \/ part = "chat" /\ PageNext /\ UNCHANGED <<shell, part>>
    \/ part = "shell" /\ ShellNext /\ UNCHANGED <<allVars, part>>

(* A turn goes on, as in ChatPage.                                          *)
AppFairness == \A t \in Turn : WF_allVars(part = "chat" /\ Goes(t))

AppSpec == AppInit /\ [][AppNext]_appVars /\ AppFairness
=============================================================================
