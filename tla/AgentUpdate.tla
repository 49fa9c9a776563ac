----------------------------- MODULE AgentUpdate -----------------------------
(***************************************************************************)
(* How a hub brings one remote agent to its own version: the push at the   *)
(* agent's hello, the periodic scheduler, the admin's forced push, their   *)
(* common cooldown, and the agent that swaps its bundle and exits for its  *)
(* supervisor to start it again.                                           *)
(* Sources: server/services/agentIngestWS.ts (maybePushAutoUpdate,         *)
(* forceAgentUpdate, handleHello), server/services/agentUpdateScheduler.ts,*)
(* agent/src/transport.ts (applyAgentUpdate) and agent/install.ps1.tpl     *)
(* (the launcher); the other supervisors only start the agent again.       *)
(*                                                                         *)
(* Versions are ordered numbers.  The handshake, the registry and the host *)
(* statuses are module HostIngest; here a session is there or not, and may *)
(* be one the hub is closing.  The agent's file writes are synchronous,    *)
(* but the process can die, or the disk fill up, in the middle of them.    *)
(***************************************************************************)
EXTENDS Integers

CONSTANTS
  MaxVersion,   \* bound: the versions are 1 .. MaxVersion
  Cooldown,     \* AUTO_UPDATE_COOLDOWN_MS, in ticks
  Windows,      \* the bundle is staged for the launcher, not renamed in place
  MaxFaults     \* bound: restarts, crashes, lost sockets, failed writes and
                \* forced pushes together

ASSUME UpdateConstantsOK ==
  /\ MaxVersion \in Nat \ {0}
  /\ Cooldown \in Nat
  /\ Windows \in BOOLEAN
  /\ MaxFaults \in Nat

Versions == 1 .. MaxVersion
Nothing == 0
Torn == -1         \* a file with a part of a bundle

VARIABLES
  hubVer,     \* the hub's version, and its bundle's
  optIn,      \* hosts.auto_update
  known,      \* hosts.agent_version
  pushedMem,  \* age of lastPushedAtMs, Cooldown when it is older or unset
  pushedDb,   \* age of hosts.last_update_pushed_at, capped likewise
  session,    \* the agent's socket: "none", "open", or "closing" (by the hub)
  hello,      \* version in the hello on its way to the hub
  push,       \* version of the agent_update on its way to the agent
  run,        \* version the agent process runs, Nothing when it is down
  updating,   \* version applyAgentUpdate is writing
  exiting,    \* process.exit is due
  disk,       \* what agent.mjs holds
  staged,     \* what agent.mjs.new, or agent.mjs.pending, holds
  faults,     \* disturbances so far
  since,      \* history: age of the last push recorded, capped at Cooldown
  turn        \* history: flips with every automatic push

hubVars == <<hubVer, optIn, known, pushedMem, pushedDb>>
wire == <<session, hello, push>>
agentVars == <<run, updating, exiting, disk, staged>>
history == <<since, turn>>
vars == <<hubVars, wire, agentVars, faults, history>>

Files == Versions \union {Nothing, Torn}

TypeOK ==
  /\ hubVer \in Versions
  /\ optIn \in BOOLEAN
  /\ known \in Versions \union {Nothing}
  /\ pushedMem \in 0 .. Cooldown /\ pushedDb \in 0 .. Cooldown
  /\ session \in {"none", "open", "closing"}
  /\ hello \in Versions \union {Nothing}
  /\ push \in Versions \union {Nothing}
  /\ run \in Versions \union {Nothing}
  /\ updating \in Versions \union {Nothing}
  /\ exiting \in BOOLEAN
  /\ disk \in Files \ {Nothing} /\ staged \in Files
  /\ faults \in 0 .. MaxFaults
  /\ since \in 0 .. Cooldown
  /\ turn \in BOOLEAN

Init ==
  /\ hubVer \in Versions
  /\ optIn = FALSE
  /\ known = Nothing
  /\ pushedMem = Cooldown /\ pushedDb = Cooldown
  /\ session = "none" /\ hello = Nothing /\ push = Nothing
  /\ run = Nothing /\ updating = Nothing /\ exiting = FALSE
  /\ disk \in Versions /\ staged = Nothing
  /\ faults = 0
  /\ since = Cooldown /\ turn = FALSE

Fault == faults < MaxFaults /\ faults' = faults + 1

NoSession == session' = "none" /\ hello' = Nothing /\ push' = Nothing

------------------------------------------------------------------------------
(* The hub                                                                  *)

\* The push itself, common to both paths: safeSend drops the frame unless the
\* socket is open, and the time of the push is kept either way.
Push ==
  /\ pushedMem' = 0
  /\ pushedDb' = 0
  /\ push' = IF session = "open" THEN hubVer ELSE push
  /\ since' = 0

IsOlder(v) == v # Nothing /\ v < hubVer

Gates(v) == optIn /\ IsOlder(v) /\ pushedMem >= Cooldown

\* maybePushAutoUpdate, for the version v the hosts table holds.
MaybePush(v) ==
  IF Gates(v)
    THEN Push /\ turn' = ~turn
    ELSE UNCHANGED <<pushedMem, pushedDb, push, history>>

\* The agent's hello; the hub takes it from a socket it is closing, too.
HandleHello ==
  /\ session # "none" /\ hello # Nothing
  /\ known' = hello
  /\ hello' = Nothing
  /\ MaybePush(hello)
  /\ UNCHANGED <<hubVer, optIn, session, agentVars, faults>>

SchedulerTick_LooksOnly == UNCHANGED vars

SchedulerTick ==
  /\ session = "open" /\ optIn
  /\ MaybePush(known)
  /\ UNCHANGED <<hubVer, optIn, known, session, hello, agentVars, faults>>

ForceUpdate ==
  /\ session = "open"
  /\ Fault
  /\ Push
  /\ UNCHANGED <<hubVer, optIn, known, session, hello, agentVars, turn>>

SetOptIn ==
  /\ optIn' = ~optIn
  /\ UNCHANGED <<hubVer, known, pushedMem, pushedDb, wire, agentVars, faults, history>>

\* Replaced, disabled or over its rate limit: the hub closes the socket.
HubCloses ==
  /\ session = "open"
  /\ Fault
  /\ session' = "closing"
  /\ UNCHANGED <<hubVars, hello, push, agentVars, history>>

Bootstrap_None == Cooldown

\* bootstrapCooldownFromDb
Bootstrap == pushedDb

HubRestart ==
  /\ Fault
  /\ hubVer' \in Versions
  /\ pushedMem' = Bootstrap
  /\ NoSession
  /\ UNCHANGED <<optIn, known, pushedDb, agentVars, history>>

------------------------------------------------------------------------------
(* The agent, blocked while applyAgentUpdate writes                         *)

Idle == run # Nothing /\ updating = Nothing

Connect ==
  /\ Idle /\ session = "none"
  /\ session' = "open"
  /\ hello' = run
  /\ UNCHANGED <<hubVars, push, agentVars, faults, history>>

SocketLost ==
  /\ session # "none"
  /\ IF session = "open" THEN Fault ELSE UNCHANGED faults
  /\ NoSession
  /\ UNCHANGED <<hubVars, agentVars, history>>

Truncated_InPlace == disk' = Torn /\ UNCHANGED staged

\* writeFileSync has opened the sibling file.
Truncated == staged' = Torn /\ UNCHANGED disk

StageUpdate ==
  /\ Idle /\ push # Nothing
  /\ push' = Nothing
  /\ updating' = push
  /\ Truncated
  /\ UNCHANGED <<hubVars, session, hello, run, exiting, faults, history>>

\* The file is whole and on disk: renamed, or left for the launcher.
FinishUpdate ==
  /\ updating # Nothing
  /\ IF Windows THEN staged' = updating /\ UNCHANGED disk
                ELSE disk' = updating /\ staged' = Nothing
  /\ updating' = Nothing
  /\ exiting' = TRUE
  /\ UNCHANGED <<hubVars, wire, run, faults, history>>

\* The write throws: logged, and the agent keeps running.
UpdateFails ==
  /\ updating # Nothing
  /\ Fault
  /\ updating' = Nothing
  /\ UNCHANGED <<hubVars, wire, run, exiting, disk, staged, history>>

Down ==
  /\ run' = Nothing /\ updating' = Nothing /\ exiting' = FALSE
  /\ NoSession
  /\ UNCHANGED <<hubVars, disk, staged, history>>

Exit == exiting /\ Idle /\ Down /\ UNCHANGED faults

Crash == run # Nothing /\ Fault /\ Down

\* systemd, launchd or launcher.ps1; a torn bundle does not come up.
Start ==
  /\ run = Nothing
  /\ LET swap == Windows /\ staged # Nothing
     IN  /\ disk' = IF swap THEN staged ELSE disk
         /\ staged' = IF swap THEN Nothing ELSE staged
  /\ run' = IF disk' = Torn THEN Nothing ELSE disk'
  /\ UNCHANGED <<hubVars, wire, updating, exiting, faults, history>>

Older(age) == IF age = Cooldown THEN age ELSE age + 1

Tick ==
  /\ pushedMem' = Older(pushedMem)
  /\ pushedDb' = Older(pushedDb)
  /\ since' = Older(since)
  /\ UNCHANGED <<hubVer, optIn, known, wire, agentVars, faults, turn>>

Next ==
  \/ HandleHello \/ SchedulerTick \/ ForceUpdate \/ SetOptIn \/ HubCloses \/ HubRestart
  \/ Connect \/ SocketLost
  \/ StageUpdate \/ FinishUpdate \/ UpdateFails \/ Exit \/ Crash \/ Start
  \/ Tick

Spec == Init /\ [][Next]_vars

\* Timers fire and the clock runs; what was sent on a socket that stays open
\* arrives; a closing socket ends; the supervisor restarts the agent and the
\* agent reconnects.  The exit timer, once due, is served at the next turn of
\* the event loop, whatever else the turns in between were busy with.
Fairness ==
  /\ WF_vars(HandleHello) /\ WF_vars(SchedulerTick) /\ WF_vars(Tick)
  /\ WF_vars(Connect) /\ WF_vars(session = "closing" /\ SocketLost)
  /\ WF_vars(StageUpdate) /\ WF_vars(FinishUpdate)
  /\ SF_vars(Exit) /\ WF_vars(Start)

FairSpec == Spec /\ Fairness

------------------------------------------------------------------------------
(* Properties                                                               *)

AutoPush == turn' # turn

\* An automatic push comes a cooldown after the last push, forced ones and
\* those made before the hub restarted included: bootstrapCooldownFromDb, whose
\* comment wants "the cooldown [to survive] hub restarts".  The comment of the
\* map it fills wants the contrary, see FreshHubForgets.
PushesSpaced == [][AutoPush => since >= Cooldown]_vars

\* "The bundle is [...] swapped atomically": agent.mjs never holds a part of a
\* bundle, whatever dies or fails while an update is applied.
BundleIsWhole == disk # Torn

\* A host that stays opted in always comes back to running the hub's version,
\* or one that is newer, once restarts and failures cease.  (It need not stay:
\* nothing in the code keeps the scheduler from pushing to an agent that has
\* reconnected and whose hello is still on its way, see PushedToOlder.)
UpdatedAtLast == <>[]optIn => []<>(run >= hubVer)

------------------------------------------------------------------------------
(* What the docs and comments say and the code does not keep; with Windows, *)
(* nor BundleIsWhole.                                                       *)

\* last_update_pushed_at is written "only on a successful push": a push that
\* is recorded has been put on an open socket.
RecordedIsSent == [][since' = 0 /\ since # 0 => push' # Nothing]_vars

\* The time of the last push "resets on hub restart, which is exactly what we
\* want" (agentIngestWS.ts:196-198): a hub that starts with another bundle
\* re-pushes right away.  bootstrapCooldownFromDb does not let it (PushesSpaced).
FreshHubForgets == [][hubVer' # hubVer => pushedMem' = Cooldown]_vars

\* An automatic push goes to an agent that runs an older version.
PushedToOlder == [][AutoPush => run < hubVer]_vars
==============================================================================
