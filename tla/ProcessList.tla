----------------------------- MODULE ProcessList -----------------------------
(***************************************************************************)
(* The agent's list of GPU processes, agent/src/collectors/.                *)
(*   "nvidia"  nvidia-smi, whose bus ids are mapped to uuids (processes.ts)  *)
(*   "amd"     KFD from sysfs or rocm-smi, with the DRM fdinfo of every pid  *)
(*             (processesRocm.ts, kfdSysfs.ts, processesAmdgpuFdinfo.ts)     *)
(*   "intel"   the DRM fdinfo alone                                         *)
(*   "pdh"     Windows counters, whose adapters are mapped to uuids          *)
(*             (processesWindowsPdh.ts)                                     *)
(*                                                                         *)
(* The processes of the host come and go: a process holds a card or none.   *)
(* A pid is handed out again only once each collector at work has listed or *)
(* scanned without it: the kernel cycles through pid_max first.             *)
(***************************************************************************)
EXTENDS GpuSource, Functions

CONSTANTS
    ProcessKinds,   \* records [cards, kfd, readable, kernel] of the processes of the host
    SmiRefresh,     \* ROCM_SMI_REFRESH_MS, in ticks
    MapTtl,         \* UUID_MAP_TTL_MS, NVIDIA_MAP_TTL_MS, in ticks
    MaxProcesses    \* bound: processes started

ASSUME ProcessConstantsOK == {SmiRefresh, MapTtl} \subseteq Nat \ {0} /\ MaxProcesses \in Nat

VARIABLES
    started,     \* processes started so far
    collector,   \* the process collector at work
    inflight,    \* "none", "going", or "hung" with nvidia-smi or rocm-smi
    taken,       \* what the tool listed when it was run, <<pid, card>>
    smiAge,      \* ticks since rocm-smi was run, SmiRefresh when due
    smiCards,    \* the cards its output named
    useKfd,      \* useKfdSysfs
    windowsPdhGpu, \* the samples of a Windows machine come from counters
    buses,       \* sysfsBuses, {"unread"} until read
    uuidOf,      \* uuidByBus, byKey: adapter |-> uuid
    mapAge,      \* ticks since the map was asked for, MapTtl when due
    counted,     \* prev of the samplers: pid |-> number of the process counted
    listed,      \* the rows of the last snapshot, <<pid, uuid>>
    mixed        \* history: a percentage was computed from two processes

mapVars == <<smiAge, smiCards, uuidOf, mapAge, buses>>
rowVars == <<counted, mixed, listed>>
listVars == <<collector, useKfd, windowsPdhGpu, inflight, taken, mapVars, rowVars>>
hostProcs == <<proc, started>>
processVars == <<hostProcs, scanVars, listVars>>

Pairs(pids) == {x \in pids \X UNION {proc[p].cards : p \in pids} : x[2] \in proc[x[1]].cards}
PidsOf(pairs) == {x[1] : x \in pairs}

----------------------------------------------------------------------------
(* The host.                                                                *)

(* The cards with a driver.                                                 *)
Usable == machine.nvidia \cup (IF bound THEN machine.amd \cup machine.intel ELSE {})

(* The collectors at work that keep something of a pid.                     *)
AtWork == (IF source = "intel" /\ running THEN {"samples"} ELSE {})
              \cup (IF collector # "none" THEN {"processes"} ELSE {})

Known(p) == p \in PidsOf(taken \cup listed) \cup UNION {recent[k] : k \in AtWork}

ProcessStarts ==
    /\ started < MaxProcesses /\ AtWork # {}
    /\ \E p \in Pids \ Alive, k \in ProcessKinds :
        /\ ~Known(p)
        /\ k.cards \subseteq Usable /\ (k.kfd => AmdgpuCards # {})
        /\ started' = started + 1
        /\ proc' = [proc EXCEPT ![p] = [number |-> started', cards |-> k.cards, kfd |-> k.kfd,
                                        readable |-> k.readable, kernel |-> k.kernel]]
        /\ refusals' = [s \in Scanners |-> [refusals[s] EXCEPT ![p] = 0]]
    /\ UNCHANGED <<recent, firstSeen, denied, kernels, early, listVars>>

ProcessExits ==
    /\ \E p \in Alive :
        /\ proc' = [proc EXCEPT ![p] = Gone]
        /\ recent' = [k \in Scanners |-> IF k \in AtWork THEN recent[k] \cup {p} ELSE recent[k]]
    /\ UNCHANGED <<started, firstSeen, denied, kernels, refusals, early, listVars>>

----------------------------------------------------------------------------
(* The samplers of CPU and GPU time: a percentage takes two readings of one *)
(* process; what is no longer listed is forgotten.                          *)

Recount(p) == IF p \in Alive THEN proc[p].number ELSE counted[p]

Counted_Kept(pids) ==
    /\ counted' = [p \in Pids |-> IF p \in pids THEN Recount(p) ELSE counted[p]]
    /\ mixed' = (mixed \/ \E p \in pids : counted[p] # 0 /\ proc[p].number \notin {0, counted[p]})

Counted(pids) ==
    /\ counted' = [p \in Pids |-> IF p \in pids THEN Recount(p) ELSE 0]
    /\ mixed' = (mixed \/ \E p \in pids : counted[p] # 0 /\ proc[p].number \notin {0, counted[p]})

Snapshot(rows) == listed' = rows /\ Counted({r[1] : r \in rows})

----------------------------------------------------------------------------
(* AMD and Intel.                                                           *)

Scheme == IF collector = "intel" THEN "Intel" ELSE "ROCm"

(* amdgpuBusIds over the drivers of the family.                             *)
BusIds == IF collector = "intel" THEN IntelCards ELSE AmdgpuCards

(* The cards of a process that the family's fdinfo and KFD know.            *)
Held(p) == proc[p].cards \cap (IF collector = "intel" THEN machine.intel ELSE machine.amd)

(* readKfdProcesses: every process with a KFD context.                      *)
KfdPids == {p \in Alive : proc[p].kfd}

FirstOf(S) == IF S = {} THEN "unknown" ELSE CHOOSE x \in S : TRUE

(* The rows of a pid: one per card of its fdinfo, else one per card KFD     *)
(* knows, else one on the first card.                                       *)
RowsOf(p, readable, default) ==
    LET known == IF useKfd \/ p \in readable THEN Held(p) ELSE {}
    IN {<<p, Uuid(Scheme, c)>> : c \in IF known = {} THEN {default} ELSE known}

(* The tick after kfdPids(): the scan, then the rows of the KFD processes   *)
(* and of the other clients it can read.                                    *)
AmdRows(kfd, known) ==
    LET readable == {p \in Opened("processes") : proc[p].readable /\ Held(p) # {}}
    IN UNION {RowsOf(p, readable, FirstOf(known)) : p \in kfd \cup readable}

(* cardBuses(): read once, what it finds is kept.                           *)
CardBuses == IF buses = {"unread"} THEN BusIds ELSE buses

(* createRocmSmiCache: rocm-smi is run again when its output is old; pids   *)
(* that are gone are dropped from what it said.                             *)
SmiListed ==
    IF smiAge < SmiRefresh
    THEN /\ taken' = {x \in taken : x[1] \in Alive}
         /\ smiAge' = smiAge + 1 /\ UNCHANGED <<smiCards, faults>>
    ELSE \E ok \in BOOLEAN :
        /\ ok \/ faults < MaxFaults
        /\ faults' = IF ok THEN faults ELSE faults + 1
        /\ smiAge' = 1
        /\ taken' = IF ok THEN Pairs(KfdPids) ELSE {}
        /\ smiCards' = IF ok THEN AmdgpuCards ELSE {}

(* kfdPids: KFD from sysfs, or the output of rocm-smi where there is one.   *)
UsesSmi == collector = "amd" /\ ~useKfd /\ machine.rocmSmi

AmdTickBegins ==
    /\ collector \in {"amd", "intel"}
    /\ IF UsesSmi THEN SmiListed ELSE UNCHANGED <<taken, smiAge, smiCards, faults>>
    /\ inflight' = "going"
    /\ UNCHANGED <<uuidOf, mapAge, buses, rowVars, scanVars>>

AmdTickEnds ==
    /\ collector \in {"amd", "intel"}
    /\ Scanned("processes")
    /\ buses' = IF UsesSmi /\ smiCards # {} THEN buses ELSE CardBuses
    /\ Snapshot(AmdRows(IF useKfd THEN KfdPids ELSE PidsOf(taken),
                        IF UsesSmi /\ smiCards # {} THEN smiCards ELSE buses'))
    /\ inflight' = "none"
    /\ UNCHANGED <<taken, smiAge, smiCards, uuidOf, mapAge, faults>>

----------------------------------------------------------------------------
(* NVIDIA: the pids by bus id, the uuids of the busses when one is unknown  *)
(* and the last lookup is old, then pmon.                                   *)

Age(n, limit) == IF n < limit THEN n + 1 ELSE n

NvidiaTickBegins ==
    /\ collector = "nvidia"
    /\ \E ok \in BOOLEAN :
        /\ ok \/ faults < MaxFaults
        /\ faults' = IF ok THEN faults ELSE faults + 1
        /\ taken' = IF ok THEN {x \in Pairs(Alive) : x[2] \in machine.nvidia} ELSE {}
    /\ inflight' = "going"
    /\ mapAge' = Age(mapAge, MapTtl)
    /\ UNCHANGED <<smiAge, smiCards, uuidOf, buses, rowVars, scanVars>>

(* resolveUuids, and refresh of the adapters: only when a card listed has   *)
(* no uuid and the last lookup is old.                                      *)
LookedUp(map) ==
    IF {x[2] : x \in taken} \subseteq DOMAIN uuidOf \/ mapAge < MapTtl
    THEN UNCHANGED <<uuidOf, mapAge, faults>>
    ELSE \E ok \in BOOLEAN :
        /\ ok \/ faults < MaxFaults
        /\ faults' = IF ok THEN faults ELSE faults + 1
        /\ mapAge' = 0
        /\ uuidOf' = IF ok THEN map ELSE uuidOf

(* mergeQueryPids: rows on a card whose uuid is unknown are dropped.        *)
MergedRows(map) == {<<x[1], map[x[2]]>> : x \in {y \in taken : y[2] \in DOMAIN map}}

(* The samplers forget what is gone, without a scan.                        *)
ListedWithoutScan ==
    /\ recent' = [recent EXCEPT !["processes"] = {}]
    /\ UNCHANGED <<firstSeen, denied, kernels, refusals, early>>

NvidiaTickEnds ==
    /\ collector = "nvidia"
    /\ LookedUp([c \in machine.nvidia |-> Uuid("GPU", c)])
    /\ Snapshot(MergedRows(uuidOf'))
    /\ inflight' = "none" /\ taken' = {}
    /\ ListedWithoutScan
    /\ UNCHANGED <<smiAge, smiCards, buses>>

----------------------------------------------------------------------------
(* Windows: the adapters of the counters are mapped to the cards of         *)
(* nvidia-smi by the pids they share.                                       *)

(* matchAdaptersToUuids: each adapter one uuid and each uuid one adapter,   *)
(* the pairs with the most pids first, ties as the rows come.               *)
Votes(a, u) == Cardinality({x \in taken : x[2] = a /\ u \in proc[x[1]].cards})
Adapters == {x[2] : x \in taken}
AdapterMatches ==
    {m \in UNION {Injection(S, machine.nvidia) : S \in SUBSET Adapters} :
        /\ \A a \in DOMAIN m : Votes(a, m[a]) > 0
        /\ \A a \in Adapters, u \in machine.nvidia : Votes(a, u) > 0 =>
              \/ a \in DOMAIN m /\ Votes(a, m[a]) >= Votes(a, u)
              \/ \E b \in DOMAIN m : m[b] = u /\ Votes(b, u) >= Votes(a, u)}

(* One JSON line of the counters; a line that comes while the lookup of an  *)
(* earlier one runs is dropped.                                             *)
PdhTickBegins ==
    /\ collector = "pdh"
    /\ taken' = Pairs(Alive)
    /\ inflight' = "going" /\ mapAge' = Age(mapAge, MapTtl)
    /\ UNCHANGED <<smiAge, smiCards, uuidOf, buses, rowVars, scanVars, faults>>

(* nvidiaSmiPath is not given when the samples come from the counters too.  *)
PdhOnly == windowsPdhGpu

(* handleLine, after nvidiaMap.refresh, which times out in 10 s.            *)
PdhTickEnds ==
    /\ collector = "pdh"
    /\ IF PdhOnly
       THEN /\ UNCHANGED <<uuidOf, mapAge, faults>>
            /\ Snapshot({<<x[1], Uuid("PDH", x[2])>> : x \in taken})
       ELSE /\ \E m \in AdapterMatches : LookedUp([a \in DOMAIN m |-> Uuid("GPU", m[a])])
            /\ Snapshot(MergedRows(uuidOf'))
    /\ inflight' = "none" /\ taken' = {}
    /\ ListedWithoutScan
    /\ UNCHANGED <<smiAge, smiCards, buses>>

----------------------------------------------------------------------------
hostAndSource == <<hostVars, source, running, streamVars, forkVars, readVars, sampleVars>>

(* tick() drops out while one is under way.                                 *)
ProcessTick ==
    /\ inflight = "none"
    /\ AmdTickBegins \/ NvidiaTickBegins \/ PdhTickBegins
    /\ UNCHANGED <<hostProcs, collector, useKfd, windowsPdhGpu, hostAndSource>>

ProcessTickEnds ==
    /\ inflight = "going"
    /\ AmdTickEnds \/ NvidiaTickEnds \/ PdhTickEnds
    /\ UNCHANGED <<proc, started, collector, useKfd, windowsPdhGpu, hostAndSource>>

(* An nvidia-smi or rocm-smi that does not return, and a powershell that    *)
(* prints no more: there is no timeout.                                     *)
ListToolHangs ==
    /\ \/ (collector = "nvidia" \/ UsesSmi) /\ inflight = "going"
       \/ collector = "pdh" /\ inflight = "none"
    /\ faults < MaxFaults /\ faults' = faults + 1
    /\ inflight' = "hung"
    /\ UNCHANGED <<hostProcs, collector, useKfd, windowsPdhGpu, taken, scanVars, mapVars, rowVars,
                   hostAndSource>>

ListInit ==
    /\ ScanInit /\ started = 0
    /\ collector = "none" /\ inflight = "none" /\ taken = {}
    /\ smiAge = SmiRefresh /\ smiCards = {} /\ useKfd = FALSE /\ windowsPdhGpu = FALSE /\ buses = {"unread"}
    /\ uuidOf = <<>> /\ mapAge = MapTtl
    /\ counted = [p \in Pids |-> 0] /\ listed = {} /\ mixed = FALSE

(* The kernel exposes the KFD process list once amdgpu is bound.            *)
KfdAvailable == machine.kfd /\ AmdgpuCards # {}

(* available(), at boot.                                                    *)
ListAvailable(c) ==
    CASE c = "nvidia" -> machine.nvidiaSmi
      [] c = "amd"    -> KfdAvailable \/ machine.rocmSmi \/ AmdgpuCards # {}
      [] c = "intel"  -> IntelCards # {}
      [] c = "pdh"    -> TRUE
      [] OTHER        -> FALSE

ListStarts(c, counters) ==
    /\ collector' = IF ListAvailable(c) THEN c ELSE "none"
    /\ useKfd' = (c = "amd" /\ KfdAvailable)
    /\ windowsPdhGpu' = counters
    /\ UNCHANGED <<hostProcs, inflight, taken, scanVars, mapVars, rowVars>>

ProcessFairness ==
    /\ WF_processVars(ProcessTick) /\ WF_processVars(ProcessTickEnds)

----------------------------------------------------------------------------
(* A percentage of CPU or GPU time is never computed from the counters of   *)
(* two processes that had the same pid.                                     *)
OneProcessCounted == ~mixed

(* A process the collector can see, for as long as it runs, is listed again *)
(* and again: a refusal, a kernel thread or a lookup that failed under the  *)
(* same pid or card does not hide it.  A tool that never returns does.      *)
Seen(p) ==
    CASE collector = "nvidia" -> proc[p].cards \cap machine.nvidia # {}
      [] collector = "amd"    -> (proc[p].kfd /\ (useKfd \/ UsesSmi)) \/ (proc[p].readable /\ Held(p) # {})
      [] collector = "intel"  -> proc[p].readable /\ Held(p) # {}
      [] collector = "pdh"    -> IF PdhOnly THEN proc[p].cards # {}
                                 ELSE proc[p].cards \cap machine.nvidia # {}
      [] OTHER                -> FALSE
ClientsListed ==
    \A p \in Pids : []<>~Seen(p) \/ []<>(p \in PidsOf(listed)) \/ <>[](inflight = "hung")

(* The rows sent name cards as the samples do, whichever collectors the     *)
(* boot combined: the browser joins the two by uuid.                        *)
SampledUuids ==
    CASE source = "nvidia-smi" -> {NvidiaSample(c).uuid : c \in machine.nvidia}
      [] source = "pdh"        -> {PdhSample(c).uuid : c \in PdhAdapters(TRUE)}
      [] source = "rocm-smi"   -> {RocmSample(c).uuid : c \in machine.amd}
      [] source = "amdgpu"     -> {SysfsSample(c).uuid : c \in machine.amd}
      [] source = "intel"      -> {IntelSample(c, TRUE).uuid : c \in machine.intel}
      [] OTHER                 -> {}
RowsOnCards == source # "none" => {r[2] : r \in listed} \subseteq SampledUuids

(* A row is of the process and of the card it says.                         *)
RowsTrue == RowsOnCards /\ OneProcessCounted
=============================================================================
