----------------------------- MODULE AgentInstall -----------------------------
(***************************************************************************)
(* Putting an agent on a machine, and taking it off: the commands the Add  *)
(* host, Rotate token and Delete host dialogs hand out, and the scripts    *)
(* they run there.  Sources: src/components/settings/EnrollHostModal.tsx,  *)
(* _installCommands.tsx, server/routes/agentDistribution.ts,               *)
(* agent/install.sh.tpl (systemd), install.ps1.tpl (Windows),              *)
(* install.sh.mac.tpl (launchd) and install-agent.sh (Docker).             *)
(*                                                                         *)
(* The modes have the names of _installCommands.tsx.  One script runs at a *)
(* time; it is cut at any of its steps by a failing command, a full disk,  *)
(* Ctrl-C or a reboot, and leaves what it has written.  A run that dies in *)
(* its checks changes nothing and is no step.  What an agent then does is  *)
(* modules AgentTransport and AgentRuntime; updates are AgentUpdate.       *)
(***************************************************************************)
EXTENDS Naturals

CONSTANTS
  HostIds, Keys,  \* the two halves of the tokens the hub has issued
  PageNamed,      \* the hub's page is open under a name, or under an address
  Cards,          \* what the machine may have: a subset of Known
  None,           \* no file, no job, nothing known
  Gone,           \* taken off by an uninstall
  MaxRuns,        \* bound: scripts started
  MaxMishaps      \* bound: cuts, reboots and agents that end

Known == {"nvidia", "rocm", "amdgpu", "intel", "apple"}

ASSUME InstallConstantsOK ==
  /\ Cards \subseteq Known
  /\ PageNamed \subseteq BOOLEAN
  /\ None \notin HostIds
  /\ MaxRuns \in Nat /\ MaxMishaps \in Nat

Modes == {"curl", "docker", "windows", "macos"}

\* A configuration: the lines of an env file that matter.
Confs == [host : HostIds \union {None}, key : Keys, scheme : {"ws", "wss"},
          vendor : {"nvidia", "amd", "intel", "apple", None},
          noPtrace : BOOLEAN, extra : BOOLEAN]

\* What starts an agent, and whether it does.
Units == [ptrace : BOOLEAN, conf : Confs, on : BOOLEAN]

Stages == {"node", "download", "compose", "downloading", "rule", "head", "tail",
           "env", "unit", "up", "stop", "start"}

Jobs == [mode : Modes, how : {"install", "upgrade"}, conf : Confs, given : Confs,
         stage : Stages]

ASSUME NoneIsNoFile ==
  /\ None \notin Confs \union Units \union Jobs
  /\ Gone \notin Confs \union {None}

VARIABLES
  os,        \* "linux", "windows" or "macos"
  card,      \* the GPU of the machine
  node,      \* Node on the PATH: "none", "old" or "good"
  served,    \* the hub's build has the agent bundle
  bundle,    \* per mode: agent.mjs (docker: the compose file): None, "torn", "whole"
  env,       \* per mode: the env file, None or a configuration
  unit,      \* per mode: unit, launcher and task, plist, container: None or a record
  agents,    \* per mode: the configurations the running processes started with
  rule,      \* the sudoers rule for powermetrics (macOS)
  job,       \* the script that runs, or None
  runs, mishaps,
  expected,  \* history: what the last completed script left: None when unknown
  declined,  \* history: the last env file written whole came of --no-ptrace
  added,     \* history: the operator added a variable to it
  forced     \* history: a run passed --force

machine == <<os, card>>
files == <<bundle, env, unit, rule>>
told == <<expected, declined, added, forced>>
installVars == <<machine, node, served, files, agents, job, runs, mishaps, told>>

------------------------------------------------------------------------------
(* The token that is pasted and the URL                                     *)

\* A whole token, one with "gpvr_" before it, or its secret half alone.
Pastes == {"whole", "prefixed", "half"}

Splits(paste) == paste # "half"

\* Split at the first dot; install-agent.sh keeps the prefix, and so sends an
\* id the hub has not.
HostOf(m, h, paste) == IF paste = "prefixed" /\ m = "docker" THEN None ELSE h

WsOf(scheme) == IF scheme \in {"https", "wss"} THEN "wss" ELSE "ws"

\* defaultUseTls: an address or localhost gets http, a name https.
UseTls(named) == IF named THEN "https" ELSE "http"

------------------------------------------------------------------------------
(* What the scripts look at first                                           *)

ModesOf == CASE os = "linux" -> {"curl", "docker"}
             [] os = "windows" -> {"windows"}
             [] os = "macos" -> {"macos"}

\* nvidia-smi, rocm-smi, or a card with the amdgpu, i915 or xe driver.
SystemdCards == {"nvidia", "rocm", "amdgpu", "intel"}

\* With the toolkit or /dev/kfd, which a machine with the drivers has here.
DockerCards == {"nvidia", "rocm", "amdgpu"}

\* The scripts of Windows and macOS only tell what they found.
CardFits(m) == /\ m = "curl" => card \in SystemdCards
               /\ m = "docker" => card \in DockerCards

\* GPU_VENDOR of the env file; the image of the compose file for docker.
Pinned(m) ==
  CASE m = "macos" -> "apple"
    [] m = "windows" -> None
    [] card \in {"rocm", "amdgpu"} -> "amd"
    [] OTHER -> card

\* docker ps -a, or systemctl list-unit-files: stopped ones count.
AlreadyThere(m) == unit[m] # None

\* The cross-mode guard of the two Linux scripts.
Alone(m) == \A other \in ModesOf \ {m} : ~AlreadyThere(other)

\* Scripts that install Node 22 themselves, with NodeSource or winget.
GetNode == {"curl", "windows"}

NodeFits(m) == m = "macos" => node = "good"

Checks(m, force) == (force \/ Alone(m)) /\ CardFits(m) /\ NodeFits(m)

------------------------------------------------------------------------------
(* A script                                                                 *)

Conf(m, h, k, scheme) ==
  [host |-> h, key |-> k, scheme |-> WsOf(scheme),
   vendor |-> Pinned(m), noPtrace |-> FALSE, extra |-> FALSE]

Begins(m, how, conf, given, force) ==
  /\ job = None /\ runs < MaxRuns
  /\ runs' = runs + 1
  /\ job' = [mode |-> m, how |-> how, conf |-> conf, given |-> given,
             stage |-> CASE m \in GetNode -> "node"
                         [] m = "docker" -> "compose"
                         [] OTHER -> "download"]
  /\ forced' = (forced \/ force)
  /\ UNCHANGED <<machine, node, served, files, agents, mishaps, expected, declined, added>>

\* The command of a dialog, with a token issued at any time before.
RunInstall(m, h, k, paste, named, force, noPtrace) ==
  /\ m \in ModesOf /\ Splits(paste)
  /\ force => m \in {"curl", "docker"}
  /\ noPtrace => m = "curl"
  /\ Checks(m, force)
  /\ LET given == [Conf(m, h, k, UseTls(named)) EXCEPT !.noPtrace = noPtrace]
     IN  Begins(m, "install", [given EXCEPT !.host = HostOf(m, h, paste)], given, force)

KeptPtrace_Forgets(noPtrace) == noPtrace

\* GPUVIEWR_NO_PTRACE=1 in the env file stands for --no-ptrace.
KeptPtrace(noPtrace) == noPtrace \/ env["curl"].noPtrace

\* --upgrade: identity, URL and settings come from the env file.
RunUpgrade(force, noPtrace) ==
  /\ "curl" \in ModesOf /\ env["curl"] # None
  /\ Checks("curl", force)
  /\ LET kept == [env["curl"] EXCEPT !.vendor = Pinned("curl"), !.extra = FALSE,
                                     !.noPtrace = KeptPtrace(noPtrace)]
     IN  Begins("curl", "upgrade", kept, kept, force)

At(stage) == job # None /\ job.stage = stage

Goes(stage) == job' = [job EXCEPT !.stage = stage]

Dies == job' = None

\* One that is missing or too old is replaced.
NodeReady ==
  /\ At("node")
  /\ node' = "good"
  /\ Goes("download")
  /\ UNCHANGED <<machine, served, files, agents, runs, mishaps, told>>

Overwriting(m, stage) ==
  /\ Goes(stage)
  /\ bundle' = [bundle EXCEPT ![m] = "torn"]
  /\ expected' = [expected EXCEPT ![m] = None]

\* GET /agent.mjs answers 503 without a bundle, and nothing is written then;
\* else the file in place is being overwritten.
Download ==
  /\ At("download")
  /\ IF served THEN Overwriting(job.mode, "downloading")
               ELSE Dies /\ UNCHANGED <<bundle, expected>>
  /\ UNCHANGED <<machine, node, served, env, unit, rule, agents, runs, mishaps,
                 declined, added, forced>>

\* The compose file of the card, from GitHub.
FetchCompose ==
  /\ At("compose")
  /\ Overwriting("docker", "downloading")
  /\ UNCHANGED <<machine, node, served, env, unit, rule, agents, runs, mishaps,
                 declined, added, forced>>

Downloaded ==
  /\ At("downloading")
  /\ bundle' = [bundle EXCEPT ![job.mode] = "whole"]
  /\ Goes(CASE job.mode = "macos" -> "rule"
            [] job.mode = "curl" -> "head"
            [] OTHER -> "env")
  /\ UNCHANGED <<machine, node, served, env, unit, rule, agents, runs, mishaps, told>>

\* visudo -c on a temporary file, then sudo install.
InstallRule ==
  /\ At("rule")
  /\ rule' = TRUE
  /\ Goes("env")
  /\ UNCHANGED <<machine, node, served, bundle, env, unit, agents, runs, mishaps, told>>

\* The first cat of install.sh: the managed keys, all others gone for now.
Head(conf) == [conf EXCEPT !.vendor = None, !.noPtrace = FALSE, !.extra = FALSE]

\* EXTRA_ENV, read before the file is rewritten.
ExtraEnv == env["curl"] # None /\ env["curl"].extra

WriteEnvHead ==
  /\ At("head")
  /\ env' = [env EXCEPT !["curl"] = Head(job.conf)]
  /\ job' = [job EXCEPT !.stage = "tail", !.conf.extra = ExtraEnv]
  /\ UNCHANGED <<machine, node, served, bundle, unit, rule, agents, runs, mishaps, told>>

\* The lines appended after it.
WriteEnvTail ==
  /\ At("tail")
  /\ env' = [env EXCEPT !["curl"] = job.conf]
  /\ declined' = (job.conf.noPtrace \/ (job.how = "upgrade" /\ declined))
  /\ Goes("unit")
  /\ UNCHANGED <<machine, node, served, bundle, unit, rule, agents, runs, mishaps,
                 expected, added, forced>>

\* agent.env.ps1 and agent.env: written whole, without the operator's lines.
WriteEnvFile ==
  /\ At("env") /\ job.mode # "docker"
  /\ env' = [env EXCEPT ![job.mode] = job.conf]
  /\ Goes("unit")
  /\ UNCHANGED <<machine, node, served, bundle, unit, rule, agents, runs, mishaps, told>>

\* install-agent.sh leaves a .env that exists as it is.
WriteDotEnv ==
  /\ At("env") /\ job.mode = "docker"
  /\ env' = [env EXCEPT !["docker"] = IF @ = None THEN job.conf ELSE @]
  /\ Goes("up")
  /\ UNCHANGED <<machine, node, served, bundle, unit, rule, agents, runs, mishaps, told>>

Writes(m, stage) ==
  /\ At("unit") /\ job.mode = m
  /\ unit' = [unit EXCEPT ![m] = [ptrace |-> ~job.conf.noPtrace, conf |-> job.conf,
                                  on |-> @ # None /\ @.on]]
  /\ Goes(stage)
  /\ UNCHANGED <<machine, node, served, bundle, env, rule, agents, runs, mishaps, told>>

WriteSystemdUnit == Writes("curl", "start")

WriteLauncher == Writes("windows", "stop")

WritePlist == Writes("macos", "stop")

Stopped_TaskOnly(m) == agents[m]

\* What still runs: Stop-ScheduledTask signals, then whatever has the install
\* directory on its command line is killed; bootout and unload on macOS.
Stopped(m) == {}

StopOld ==
  /\ At("stop")
  /\ agents' = [agents EXCEPT ![job.mode] = Stopped(job.mode)]
  /\ unit' = [unit EXCEPT ![job.mode].on = FALSE]
  /\ Goes("start")
  /\ UNCHANGED <<machine, node, served, bundle, env, rule, runs, mishaps, told>>

\* What a start reads: the env file, or what the plist holds (macOS) or the
\* container was made with (docker).
Reads(m) == IF m \in {"macos", "docker"} THEN unit[m].conf ELSE env[m]

\* systemctl restart, not start; where the old one was stopped before, a new
\* one beside whatever is left.
Restarted(m) == (IF m = "curl" THEN {} ELSE agents[m]) \union {Reads(m)}

StartNew ==
  /\ At("start")
  /\ LET m == job.mode IN
     /\ unit' = [unit EXCEPT ![m].on = TRUE]
     /\ agents' = [agents EXCEPT ![m] = Restarted(m)]
     /\ expected' = [expected EXCEPT ![m] = job.given]
  /\ Dies
  /\ UNCHANGED <<machine, node, served, bundle, env, rule, runs, mishaps, declined, added, forced>>

\* docker compose up -d, with the .env that is there.
ComposeUp ==
  /\ At("up")
  /\ unit' = [unit EXCEPT !["docker"] = [ptrace |-> TRUE, conf |-> env["docker"], on |-> TRUE]]
  /\ agents' = [agents EXCEPT !["docker"] = {env["docker"]}]
  /\ expected' = [expected EXCEPT !["docker"] = env["docker"]]
  /\ Dies
  /\ UNCHANGED <<machine, node, served, bundle, env, rule, runs, mishaps, declined, added, forced>>

Removes(m) ==
  /\ job = None /\ m \in ModesOf
  /\ runs < MaxRuns /\ runs' = runs + 1
  /\ agents' = [agents EXCEPT ![m] = {}]
  /\ unit' = [unit EXCEPT ![m] = None]
  /\ expected' = [expected EXCEPT ![m] = Gone]
  /\ UNCHANGED <<machine, node, served, job, mishaps, forced>>

\* --uninstall, -Uninstall; on macOS the rule stays when sudo is refused.
Uninstall(m) ==
  /\ m # "docker" /\ Removes(m)
  /\ bundle' = [bundle EXCEPT ![m] = None]
  /\ env' = [env EXCEPT ![m] = None]
  /\ rule' \in (IF m = "macos" THEN {FALSE, rule} ELSE {rule})
  /\ declined' = (declined /\ m # "curl")
  /\ added' = (added /\ m # "curl")

\* docker rm -f, which leaves the directory with its .env.
RemoveContainer ==
  /\ Removes("docker")
  /\ UNCHANGED <<bundle, env, rule, declined, added>>

------------------------------------------------------------------------------
(* Around the scripts                                                       *)

Mishap == mishaps < MaxMishaps /\ mishaps' = mishaps + 1

\* A cut while the env file is half written loses what only that file held.
Forgets ==
  IF At("tail") THEN declined' = FALSE /\ added' = FALSE
                ELSE UNCHANGED <<declined, added>>

Cut ==
  /\ job # None /\ Mishap
  /\ Forgets /\ Dies
  /\ UNCHANGED <<machine, node, served, files, agents, runs, expected, forced>>

AgentEnds(m) ==
  /\ agents[m] # {} /\ Mishap
  /\ agents' = [agents EXCEPT ![m] = {}]
  /\ UNCHANGED <<machine, node, served, files, job, runs, told>>

Reboot ==
  /\ Mishap /\ job # None
  /\ agents' = [m \in Modes |-> {}]
  /\ Forgets /\ Dies
  /\ UNCHANGED <<machine, node, served, files, runs, expected, forced>>

\* Restart=always, KeepAlive, unless-stopped and the launcher's loop: an agent
\* that is down is started, whatever ended it; a torn bundle does not come up.
\* (docker runs the image, whatever became of the compose file.)
Supervise(m) ==
  /\ unit[m] # None /\ unit[m].on /\ agents[m] = {}
  /\ m # "docker" => bundle[m] = "whole"
  /\ agents' = [agents EXCEPT ![m] = {Reads(m)}]
  /\ UNCHANGED <<machine, node, served, files, job, runs, mishaps, told>>

\* The operator adds OLLAMA_MANIFESTS_DIR, say, to the env file.
AddVariable ==
  /\ job = None /\ env["curl"] # None /\ ~env["curl"].extra
  /\ env' = [env EXCEPT !["curl"].extra = TRUE]
  /\ added' = TRUE
  /\ UNCHANGED <<machine, node, served, bundle, unit, rule, agents, job, runs, mishaps,
                 expected, declined, forced>>

HubRebuilt ==
  /\ served' = ~served
  /\ UNCHANGED <<machine, node, files, agents, job, runs, mishaps, told>>

InstallInit ==
  /\ card \in Cards
  /\ os \in IF card = "apple" THEN {"macos"} ELSE {"linux", "windows"}
  /\ node \in {"none", "old", "good"}
  /\ served = TRUE
  /\ bundle = [m \in Modes |-> None] /\ env = [m \in Modes |-> None]
  /\ unit = [m \in Modes |-> None] /\ agents = [m \in Modes |-> {}]
  /\ rule = FALSE /\ job = None /\ runs = 0 /\ mishaps = 0
  /\ expected = [m \in Modes |-> None]
  /\ declined = FALSE /\ added = FALSE /\ forced = FALSE

InstallNext ==
  \/ \E m \in Modes, h \in HostIds, k \in Keys, paste \in Pastes,
        named \in PageNamed, force, noPtrace \in BOOLEAN : RunInstall(m, h, k, paste, named, force, noPtrace)
  \/ \E force, noPtrace \in BOOLEAN : RunUpgrade(force, noPtrace)
  \/ NodeReady \/ Download \/ FetchCompose \/ Downloaded \/ InstallRule
  \/ WriteEnvHead \/ WriteEnvTail \/ WriteEnvFile \/ WriteDotEnv
  \/ WriteSystemdUnit \/ WriteLauncher \/ WritePlist
  \/ StopOld \/ StartNew \/ ComposeUp \/ RemoveContainer
  \/ \E m \in Modes : Uninstall(m) \/ AgentEnds(m) \/ Supervise(m)
  \/ Cut \/ Reboot \/ AddVariable \/ HubRebuilt

InstallSpec == InstallInit /\ [][InstallNext]_installVars

------------------------------------------------------------------------------
(* Properties                                                               *)

Same(a, b) == [a EXCEPT !.extra = FALSE] = [b EXCEPT !.extra = FALSE]

\* After a script has come to its end, every agent of its mode runs with what
\* that script was given (docker: with the .env it found), until another one
\* starts to overwrite things; after an uninstall none runs.
AsInstalled ==
  \A m \in Modes : expected[m] # None =>
    \A conf \in agents[m] : expected[m] # Gone /\ Same(conf, expected[m])

\* "--no-ptrace is remembered" and "a re-run rewrites the managed keys only":
\* as long as no script is cut half way through the env file, what the operator
\* declined or added by hand outlives any upgrade.
ChoicesKept ==
  /\ declined /\ expected["curl"] \notin {None, Gone} => ~unit["curl"].ptrace
  /\ added /\ ~At("tail") => env["curl"].extra

\* Two agents of one machine, systemd's and docker's, take a --force.
OneAgentUnlessForced ==
  agents["curl"] # {} /\ agents["docker"] # {} => forced

\* No script takes a decision back that the operator took.
OperatorDecides == ChoicesKept /\ OneAgentUnlessForced
==============================================================================
