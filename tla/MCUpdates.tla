------------------------------- MODULE MCUpdates -------------------------------
(***************************************************************************)
(* One at a time of the four ways a new version or a new identity reaches  *)
(* a machine: the hub's pushes to an agent (AgentUpdate), the agent's      *)
(* installers (AgentInstall), the hub's (HubInstall), and the hub's check  *)
(* for releases (UpdateCheck).  The others keep one of their initial       *)
(* states, in which none of their properties has anything to say.          *)
(***************************************************************************)
EXTENDS AgentUpdate, AgentInstall, HubInstall, UpdateCheck

VARIABLE part

parts == <<vars, installVars, installerVars, checkVars, part>>

PushIdle == Init /\ hubVer = 1 /\ disk = 1

InstallIdle ==
    /\ InstallInit /\ node = "good"
    /\ card = (CHOOSE c \in Cards : c # "apple") /\ os = "linux"

HubIdle == HubInstallInit /\ gpu = "" /\ ready = FALSE

CheckIdle ==
    /\ newest = 0 /\ built = TRUE /\ running = 1 /\ checking = FALSE /\ every = Hours
    /\ cache = Nil /\ background = FALSE /\ asks = {}
    /\ page = "other" /\ tab = Nil /\ dismissed = Nil /\ banner = TRUE /\ turns = 0

(* Windows asks nothing of the card, and a tag is yet to come.              *)
MCInit ==
    \/ part = "push" /\ Init /\ InstallIdle /\ HubIdle /\ CheckIdle
    \/ /\ part = "install" /\ InstallInit
       /\ os = "windows" => card = (CHOOSE c \in Cards : c # "apple")
       /\ PushIdle /\ HubIdle /\ CheckIdle
    \/ part = "hub" /\ HubInstallInit /\ PushIdle /\ InstallIdle /\ CheckIdle
    \/ part = "check" /\ CheckInit /\ newest < 2 /\ running <= newest + 1 /\ PushIdle /\ InstallIdle /\ HubIdle

MCNext ==
    /\ part' = part
    /\ \/ part = "push" /\ Next /\ UNCHANGED <<installVars, installerVars, checkVars>>
       \/ part = "install" /\ InstallNext /\ UNCHANGED <<vars, installerVars, checkVars>>
       \/ part = "hub" /\ HubInstallNext /\ UNCHANGED <<vars, installVars, checkVars>>
       \/ part = "check" /\ CheckNext /\ UNCHANGED <<vars, installVars, installerVars>>

(* The Fairness of AgentUpdate and the CheckFairness of UpdateCheck, each   *)
(* for its own part.                                                        *)
MCFairness ==
    /\ WF_vars(part = "push" /\ HandleHello) /\ WF_vars(part = "push" /\ SchedulerTick)
    /\ WF_vars(part = "push" /\ Tick) /\ WF_vars(part = "push" /\ Connect)
    /\ WF_vars(part = "push" /\ session = "closing" /\ SocketLost)
    /\ WF_vars(part = "push" /\ StageUpdate) /\ WF_vars(part = "push" /\ FinishUpdate)
    /\ SF_vars(part = "push" /\ Exit) /\ WF_vars(part = "push" /\ Start)
    /\ WF_checkVars(part = "check" /\ HourPasses)
    /\ \A by \in Views \union {"overview"} :
         WF_checkVars(part = "check" /\ \E a \in asks :
                        a.by = by /\ (TagsFetched(a) \/ ImageChecked(a)))

MCSpec == MCInit /\ [][MCNext]_parts /\ MCFairness
=============================================================================
