----------------------------- MODULE AgentRuntime -----------------------------
(***************************************************************************)
(* The agent as a process, agent/src/index.ts and config.ts: it reads its   *)
(* environment, chooses a vendor and a collector, starts what it chose and  *)
(* stops on a signal.  A service manager starts it again when it exits.     *)
(***************************************************************************)
EXTENDS ProcessList, Sequences

CONSTANTS
    Scenarios,          \* records [machine, env, bound]: a host and the environment of its agent
    SysfsBootRetries    \* SYSFS_BOOT_RETRIES

ASSUME RuntimeConstantsOK == SysfsBootRetries \in Nat

VARIABLES
    env,        \* the environment variables of the agent
    phase,      \* "down", "boot", "running", "stopping", "off"
    vendor,     \* resolveVendor
    retries     \* discoveries of the amdgpu collector that found no card

bootVars == <<env, phase, vendor, retries>>
runtimeVars == <<bootVars, hostVars, sourceVars, processVars>>

----------------------------------------------------------------------------
(* config.ts.  A value the code does not know is "other".                   *)

ParseGpuVendor == IF env.vendor \in {"nvidia", "amd", "apple", "intel"} THEN env.vendor ELSE "auto"
ParseGpuBackend == IF env.backend \in {"sysfs", "rocm-smi"} THEN env.backend ELSE "auto"

(* resolveFeaturesEnv, parseFeatures: unset means all; the "gpu" of the     *)
(* first Windows installers means the processes too.                        *)
Features ==
    IF env.features = {"unset"} THEN {"gpu", "system", "temps", "processes"}
    ELSE IF machine.os = "win32" /\ env.features = {"gpu"} THEN {"gpu", "processes"}
    ELSE env.features

(* validateHubUrl.                                                          *)
ValidUrl(url) == url \in {"ws", "wss"}

(* parseHubTargets: the lists of several hubs lose their blanks; one form   *)
(* of configuration only.  No target ends the process.               *)
NoHub == <<>>
NonBlank(list) == SelectSeq(list, LAMBDA x : x # "")
HubTargets ==
    LET urls == NonBlank(env.urls)
        ids == NonBlank(env.ids)
        tokens == NonBlank(env.tokens)
    IN IF urls # <<>>
       THEN IF env.url # "" \/ {Len(ids), Len(tokens)} # {Len(urls)} \/ \E i \in DOMAIN urls : ~ValidUrl(urls[i])
            THEN NoHub
            ELSE [i \in DOMAIN urls |-> [url |-> urls[i], host |-> ids[i], token |-> tokens[i]]]
       ELSE IF ~ValidUrl(env.url) \/ "" \in {env.id, env.token} THEN NoHub
            ELSE <<[url |-> env.url, host |-> env.id, token |-> env.token]>>

----------------------------------------------------------------------------
(* index.ts, the choice of a collector.                                     *)

Tools == (IF machine.nvidiaSmi THEN {"nvidia-smi"} ELSE {})
             \cup (IF machine.rocmSmi THEN {"rocm-smi"} ELSE {})

(* smiResponds: a tool that is installed answers, unless it takes more than *)
(* 3 s.                                                                     *)
Answering(tools) ==
    /\ tools \subseteq Tools
    /\ tools # Tools => faults < MaxFaults
    /\ faults' = IF tools = Tools THEN faults ELSE faults + 1

ResolveVendor(tools) ==
    IF ParseGpuVendor # "auto" THEN ParseGpuVendor
    ELSE IF machine.os = "darwin" THEN "apple"
    ELSE IF env.mock \/ "nvidia-smi" \in tools THEN "nvidia"
    ELSE IF "rocm-smi" \in tools \/ AmdgpuCards # {} THEN "amd"
    ELSE IF IntelCards # {} THEN "intel"
    ELSE IF machine.os = "win32" THEN "amd" ELSE "nvidia"

(* The module is loaded: loadConfig, resolveVendor, transport.start().      *)
Boots ==
    /\ phase = "down" /\ HubTargets # NoHub
    /\ phase' = "boot" /\ retries' = 0
    /\ \E tools \in SUBSET Tools :
        /\ IF ParseGpuVendor # "auto" \/ env.mock THEN tools = Tools ELSE TRUE
        /\ Answering(tools)
        /\ vendor' = ResolveVendor(tools)
    /\ UNCHANGED <<env, hostVars, source, running, streamVars, forkVars, readVars, sampleVars,
                   processVars>>

(* The sysfs collector of AMD is looked for before rocm-smi.                *)
SeeksSysfs ==
    /\ "gpu" \in Features /\ ~env.mock
    /\ vendor = "amd" /\ machine.os # "win32" /\ ParseGpuBackend # "rocm-smi"

(* discover(), at once and then every 5 s for SYSFS_BOOT_RETRIES times.     *)
Discovers ==
    /\ phase = "boot" /\ SeeksSysfs /\ cards = {} /\ retries <= SysfsBootRetries
    /\ cards' = AmdgpuCards
    /\ retries' = IF cards' = {} THEN retries + 1 ELSE retries
    /\ UNCHANGED <<env, phase, vendor, hostVars, source, running, streamVars, forkVars, reading,
                   baseline, sampleVars, faults, processVars>>

(* buildGpuCollector and buildAmdGpuCollector.                              *)
Chosen ==
    CASE vendor = "apple" -> "powermetrics"
      [] vendor = "intel" -> "intel"
      [] vendor = "nvidia" -> "nvidia-smi"
      [] vendor = "amd" /\ machine.os = "win32" -> "pdh"
      [] OTHER -> IF cards # {} \/ ParseGpuBackend = "sysfs" THEN "amdgpu" ELSE "rocm-smi"

(* available(); the Intel collector has just discovered its cards.          *)
Available(s, tools) ==
    CASE s \in {"nvidia-smi", "rocm-smi"} -> s \in tools
      [] s = "amdgpu"       -> cards # {}
      [] s = "intel"        -> IntelCards # {}
      [] s = "powermetrics" -> machine.os = "darwin" /\ machine.sudo
      [] s = "pdh"          -> machine.os = "win32"

(* buildProcessCollector; none on macOS nor with synthetic samples.         *)
ListChosen ==
    IF "processes" \notin Features \/ env.mock \/ machine.os = "darwin" THEN "none"
    ELSE IF machine.os = "win32" THEN "pdh"
    ELSE IF vendor \in {"amd", "intel"} THEN vendor
    ELSE "nvidia"

StartsWith(s, counters) ==
    /\ phase' = "running"
    /\ IF s = "none" THEN UNCHANGED <<source, running, streamVars, forkVars, reading, baseline, sampleVars>>
       ELSE StartSource(s)
    /\ ListStarts(ListChosen, counters)

(* process.exit(1).                                                         *)
Exits ==
    /\ phase' = "down"
    /\ UNCHANGED <<source, running, streamVars, forkVars, reading, baseline, sampleVars,
                   processVars>>

(* The rest of the boot: a collector that is not available ends the agent,  *)
(* but for Windows, where the counters replace it.                          *)
Starts ==
    /\ phase = "boot"
    /\ SeeksSysfs => cards # {} \/ retries > SysfsBootRetries
    /\ \E tools \in SUBSET Tools :
        /\ Answering(tools)
        /\ IF "gpu" \notin Features THEN tools = Tools /\ StartsWith("none", machine.os = "win32" /\ vendor # "nvidia")
           ELSE IF env.mock THEN tools = Tools /\ StartsWith("mock", FALSE)
           ELSE IF Available(Chosen, tools) THEN StartsWith(Chosen, machine.os = "win32" /\ vendor # "nvidia")
           ELSE IF machine.os = "win32" THEN StartsWith("pdh", TRUE)
           ELSE Exits
    /\ cards' = IF phase' = "down" THEN {}
                ELSE IF "gpu" \in Features /\ vendor = "intel" THEN IntelCards
                ELSE cards
    /\ UNCHANGED <<env, vendor, retries, hostVars>>

(* shutdown(); SIGTERM before the handlers are there ends the process.      *)
Stops ==
    /\ phase \in {"boot", "running"}
    /\ IF phase = "running" THEN phase' = "stopping" /\ StopSource /\ collector' = "none"
       ELSE phase' = "off" /\ UNCHANGED <<sourceVars, collector>>
    /\ UNCHANGED <<env, vendor, retries, hostVars, hostProcs, useKfd, windowsPdhGpu, inflight,
                   taken, scanVars, mapVars, rowVars>>

(* 200 ms later.                                                            *)
Ends ==
    /\ phase = "stopping" /\ phase' = "off"
    /\ UNCHANGED <<env, vendor, retries, hostVars, sourceVars, processVars>>

(* The kernel driver of the cards is bound, maybe after the agent started.  *)
Binds ==
    /\ ~bound /\ bound' = TRUE
    /\ UNCHANGED <<bootVars, machine, sourceVars, processVars>>

----------------------------------------------------------------------------
RuntimeInit ==
    /\ \E s \in Scenarios : machine = s.machine /\ env = s.env /\ bound = s.bound
    /\ phase = "down" /\ vendor = "none" /\ retries = 0
    /\ SourceInit /\ ListInit

Working == phase \in {"running", "stopping"}

RuntimeNext ==
    \/ Boots \/ Discovers \/ Starts \/ Stops \/ Ends \/ Binds
    \/ Working /\ SourceNext /\ UNCHANGED <<bootVars, processVars>>
    \/ Working /\ IntelReads /\ UNCHANGED <<bootVars, started, listVars>>
    \/ Working /\ (ProcessTick \/ ProcessTickEnds \/ ListToolHangs) /\ UNCHANGED bootVars
    \/ Working /\ (ProcessStarts \/ ProcessExits) /\ UNCHANGED <<bootVars, hostVars, sourceVars>>

(* The service manager restarts an agent that exited; the event loop and    *)
(* the children make progress.  Nobody has to stop it, nor the driver to    *)
(* be bound.                                                                *)
RuntimeFairness ==
    /\ WF_runtimeVars(Boots) /\ WF_runtimeVars(Discovers) /\ WF_runtimeVars(Starts)
    /\ SourceFairness /\ ProcessFairness

RuntimeSpec == RuntimeInit /\ [][RuntimeNext]_runtimeVars
RuntimeFairSpec == RuntimeSpec /\ RuntimeFairness

----------------------------------------------------------------------------
(* The machine and the settings give samples: a tool or a bound driver for  *)
(* the vendor the settings name, or any for "auto".                         *)
Supported ==
    /\ HubTargets # NoHub /\ "gpu" \in Features
    /\ CASE env.mock              -> TRUE
         [] machine.os = "win32"  -> TRUE
         [] machine.os = "darwin" -> machine.sudo /\ ParseGpuVendor \in {"auto", "apple"}
         [] OTHER ->
              LET v == ParseGpuVendor
              IN \/ v \in {"auto", "nvidia"} /\ machine.nvidiaSmi
                 \/ v \in {"auto", "amd"} /\ machine.amd # {} /\ (ParseGpuBackend = "rocm-smi" => machine.rocmSmi)
                 \/ v \in {"auto", "intel"} /\ machine.intel # {}

(* On such a machine, and once the driver of its cards is bound, samples    *)
(* flow again and again: a boot before the driver, a tool that is slow to   *)
(* answer, a child that exits, an nvidia-smi that hangs do not end them.    *)
(* What does: the operator, a rocm-smi that never returns, a powershell or  *)
(* a powermetrics that falls silent, on which no watchdog looks             *)
(* (_psLoop.ts, gpuMacosPowermetrics.ts), and a loop mode that neither      *)
(* prints nor exits (gpu.ts replaces it for ever and never forks).          *)
SamplesAtLast ==
    <>[](Supported /\ bound) =>
        \/ []<>handed
        \/ <>[](phase \in {"stopping", "off"})
        \/ <>[](reading = "hung")
        \/ <>[](Looping /\ stream = "hung")
        \/ <>[](source = "nvidia-smi" /\ machine.loopMode = "silent")

(* The agent adds no load of its own to the machine that grows with its     *)
(* life: no second child, which would poll the driver for ever, and of the  *)
(* scans of fdinfo one audit record each per process at most.  The reads of *)
(* /proc/<pid>/stat by the CPU sampler (_procTicks.ts) are not counted.     *)
AgentIsQuiet == OneChild /\ ScanIsQuiet

----------------------------------------------------------------------------
(* What CHANGELOG.md says and the code does not keep: of the audit records  *)
(* that "ptrace" reads cost, "what remains is one denial per long-lived     *)
(* host process, once".  On Intel two scans open the same fdinfo, and the   *)
(* CPU sampler reads the stat of every row, which is audited just as well,  *)
(* at every tick (here: at the last one).                                   *)
StatAudited(p) == counted[p] # 0 /\ counted[p] = proc[p].number /\ ~proc[p].readable
OneDenialPerProcess ==
    \A p \in Pids :
        refusals["samples"][p] + refusals["processes"][p] + (IF StatAudited(p) THEN 1 ELSE 0) <= 1
=============================================================================
