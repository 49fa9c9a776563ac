------------------------------ MODULE GpuSource ------------------------------
(***************************************************************************)
(* Where the agent's GPU samples come from, agent/src/collectors/:          *)
(*   "nvidia-smi"    one long-lived nvidia-smi in loop mode with a watchdog, *)
(*                   or a fork per tick where loop mode does not work        *)
(*   "pdh"           a powershell.exe that prints Windows counters           *)
(*   "powermetrics"  a sudo powermetrics that prints plists on macOS         *)
(*   "rocm-smi"      a fork per tick, at most one at a time                  *)
(*   "amdgpu", "intel"  sysfs, read at each tick                             *)
(*                                                                         *)
(* A card is its bus id.  Of a sample the model keeps the identity of the   *)
(* card and the metrics that are not null: wording, units and the other     *)
(* figures are left out.  A child that is killed may still deliver events.  *)
(***************************************************************************)
EXTENDS FdinfoScan

CONSTANTS
    MaxColdFailures,  \* MAX_COLD_FAILURES
    SilenceLimit,     \* ticks: max(5 * tickMs, 10 s)
    MaxForks,         \* bound: nvidia-smi forks under way at once
    MaxFaults         \* bound: hangs, wakes and exits of the tools

ASSUME SourceConstantsOK ==
    /\ {MaxColdFailures, SilenceLimit, MaxForks} \subseteq Nat \ {0}
    /\ MaxFaults \in Nat

VARIABLES
    machine,    \* the host: what is installed, its cards and their sensors
    bound,      \* the kernel driver of its AMD or Intel cards is bound
    source,     \* the collector at work
    running     \* started and not stopped

hostVars == <<machine, bound>>

VARIABLES
    stream,     \* the child listened to: "none", "up", "hung"
    stale,      \* a child the watchdog killed, whose close is still to come
    spare,      \* history: children alive that nobody listens to nor killed
    printed,    \* cards whose line the child printed in this interval
    batch,      \* lines of createQueryBatcher
    produced,   \* streamProduced
    cold,       \* coldFailures
    silent,     \* ticks since lastLineAt
    respawn,    \* respawn timeouts pending
    forking,    \* timer: nvidia-smi is forked at every tick
    forks,      \* forks under way
    dmonWorks   \* PCIe throughput is read with dmon

VARIABLES
    cards,      \* cards of a sysfs source, {} until one is found
    reading,    \* inflight: "none", "going", or "hung" with the tool
    baseline,   \* cards with a previous busy counter (intel)
    last,       \* the last samples handed over
    handed,     \* history: samples were handed over since the last tick
    faults      \* faults so far

streamVars == <<stream, stale, spare, printed, batch, produced, cold, silent, respawn>>
forkVars == <<forking, forks, dmonWorks>>
readVars == <<cards, reading, baseline>>
sampleVars == <<last, handed>>
sourceVars == <<source, running, streamVars, forkVars, readVars, sampleVars, faults>>

Metrics == {"utilization", "memory_total", "fan", "machine_fan", "pcie"}
Sample(uuid, known) == [uuid |-> uuid, known |-> known]

(* The uuids of the collectors are disjoint: GPU-..., ROCm-<bus>,           *)
(* Intel-<bus>, PDH-<luid>; powermetrics has none.                          *)
Uuid(scheme, card) == <<scheme, card>>

Has(m) == machine.sensors \cap m

----------------------------------------------------------------------------
(* What each tool says of a card.                                           *)

(* The cards the driver of the family is bound to, from device/uevent:      *)
(* discoverAmdgpuCards, discoverIntelCards.  Only Linux has a sysfs.        *)
Sysfs(family) == IF machine.os = "linux" /\ bound THEN family ELSE {}
AmdgpuCards == Sysfs(machine.amd)
IntelCards == Sysfs(machine.intel)

(* parseOutput: a row of --query-gpu; the throughput of the card by bus id, *)
(* else by the order of the blocks.                                         *)
NvidiaSample(c) == Sample(Uuid("GPU", c), Has({"utilization", "memory_total", "fan", "pcie"}))

(* mapRocmCardToSample: no fan and no PCIe.                                 *)
RocmSample(c) == Sample(Uuid("ROCm", c), Has({"utilization", "memory_total"}))

(* rocm-smi --json lists the cards once the driver is bound; output that is *)
(* empty or not JSON has none.                                              *)
RocmInfo(readable) == IF readable THEN {RocmSample(c) : c \in AmdgpuCards} ELSE {}

(* readFanPct: pwm1, else the RPM ratio; null where the card has no fan.    *)
SysfsSample(c) == Sample(Uuid("ROCm", c), Has({"utilization", "memory_total", "fan"}))

(* utilization(): a percentage needs a counter in ns (not xe), one of an    *)
(* earlier reading, and no client gone in between.                          *)
IntelUtilization(c, shrunk) ==
    IF "utilization" \in machine.sensors /\ c \in baseline /\ ~shrunk THEN {"utilization"} ELSE {}
IntelSample(c, shrunk) == Sample(Uuid("Intel", c), IntelUtilization(c, shrunk))

(* Emit-Snapshot: one adapter per LUID of the counters; handleLine.         *)
PdhAdapters(counters) == IF counters THEN machine.amd \cup machine.intel \cup machine.nvidia ELSE {}
PdhSample(c) == Sample(Uuid("PDH", c), Has({"utilization", "memory_total"}))

(* extractMacGpuFields over the parsed plist: one sample, no uuid.          *)
MacSample == Sample("none", Has({"utilization", "memory_total"}))

(* readMachineFanPct and withMachineFan: on Linux a card without a fan of   *)
(* its own gets the machine's, flagged.                                     *)
MachineFan == IF machine.os = "linux" /\ "machine_fan" \in machine.sensors THEN {"machine_fan"} ELSE {}
WithMachineFan(s) ==
    IF "fan" \in s.known THEN s ELSE [s EXCEPT !.known = @ \cup MachineFan]

(* onSample; a batch without a sample is not handed over.                   *)
HandOver(samples) ==
    IF samples = {} THEN UNCHANGED sampleVars
    ELSE last' = {WithMachineFan(s) : s \in samples} /\ handed' = TRUE

----------------------------------------------------------------------------
(* The child of nvidia-smi, and those of powershell and powermetrics.       *)

Looping == source \in {"pdh", "powermetrics"}

(* startStream, spawnPs, spawnPowermetrics.                                 *)
Spawned ==
    /\ stream' = "up" /\ printed' = {} /\ silent' = 0
    /\ spare' = IF stream = "none" THEN spare ELSE spare + 1

FlushBatch == HandOver({NvidiaSample(c) : c \in batch}) /\ batch' = {}

(* A line of nvidia-smi: a card seen twice starts the next interval.        *)
Line(c) ==
    /\ source = "nvidia-smi" /\ stream = "up" /\ machine.loopMode = "works"
    /\ c \in machine.nvidia \ printed
    /\ printed' = printed \cup {c}
    /\ IF c \in batch
       THEN HandOver({NvidiaSample(d) : d \in batch}) /\ batch' = {c}
       ELSE batch' = batch \cup {c} /\ UNCHANGED sampleVars
    /\ produced' = TRUE /\ silent' = 0
    /\ UNCHANGED <<hostVars, source, running, stream, stale, spare, cold, respawn, forkVars,
                   readVars, faults>>

(* flushTimer, 50 ms after the last line of a burst.                        *)
FlushFires ==
    /\ running /\ batch # {}
    /\ FlushBatch
    /\ UNCHANGED <<hostVars, source, running, stream, stale, spare, printed, produced, cold,
                   silent, respawn, forkVars, readVars, faults>>

(* A JSON line or a plist document; a powershell without counters prints    *)
(* no adapter.                                                              *)
LoopLine ==
    /\ Looping /\ stream = "up" /\ printed = {}
    /\ printed' = {"line"}
    /\ \E counters \in BOOLEAN :
        /\ ~counters => faults < MaxFaults
        /\ faults' = IF counters THEN faults ELSE faults + 1
        /\ IF source = "pdh" THEN HandOver({PdhSample(c) : c \in PdhAdapters(counters)})
           ELSE IF counters THEN HandOver({MacSample}) ELSE UNCHANGED sampleVars
    /\ UNCHANGED <<hostVars, source, running, stream, stale, spare, batch, produced, cold,
                   silent, respawn, forkVars, readVars>>

(* startForking: a first fork, and one per tick from then on.               *)
StartForking == forking' = TRUE /\ forks' = forks + 1 /\ UNCHANGED <<dmonWorks, respawn>>

(* The close event of nvidia-smi: the third without a line gives up.        *)
StreamClosed ==
    /\ FlushBatch
    /\ cold' = IF running /\ ~produced THEN cold + 1 ELSE cold
    /\ IF running /\ ~produced /\ cold + 1 >= MaxColdFailures THEN StartForking
       ELSE /\ respawn' = IF running THEN respawn + 1 ELSE respawn
            /\ UNCHANGED forkVars

(* That of powershell and powermetrics.                                     *)
LoopClosed ==
    /\ respawn' = IF running THEN respawn + 1 ELSE respawn
    /\ UNCHANGED <<batch, cold, forkVars, sampleVars>>

ChildClosed == stream' = "none" /\ printed' = {} /\ IF Looping THEN LoopClosed ELSE StreamClosed

(* The child exits: by a fault, or because it knows no loop mode.           *)
ChildExits ==
    /\ stream = "up"
    /\ IF source = "nvidia-smi" /\ machine.loopMode = "exits" THEN UNCHANGED faults
       ELSE faults < MaxFaults /\ faults' = faults + 1
    /\ ChildClosed
    /\ UNCHANGED <<hostVars, source, running, stale, spare, produced, silent, readVars>>

(* A child that falls silent and may come back: nvidia-smi before the       *)
(* watchdog looks, powershell and powermetrics, which have none, at any     *)
(* time or never.                                                           *)
ChildHangs ==
    /\ stream \in {"up", "hung"}
    /\ faults < MaxFaults /\ faults' = faults + 1
    /\ stream' = IF stream = "up" THEN "hung" ELSE "up"
    /\ UNCHANGED <<hostVars, source, running, stale, spare, printed, batch, produced, cold,
                   silent, respawn, forkVars, readVars, sampleVars>>

StaleCloses_Unchecked ==
    /\ stale /\ stale' = FALSE
    /\ ChildClosed
    /\ spare' = IF stream = "none" THEN spare ELSE spare + 1
    /\ UNCHANGED <<hostVars, source, running, produced, silent, readVars, faults>>

(* The close event of the child the watchdog killed: if (stream !== child)  *)
(* return.                                                                  *)
StaleCloses ==
    /\ stale /\ stale' = FALSE
    /\ UNCHANGED <<hostVars, source, running, stream, spare, printed, batch, produced, cold,
                   silent, respawn, forkVars, readVars, sampleVars, faults>>

(* The respawn timeout, 3 s after a close.                                  *)
RespawnFires ==
    /\ respawn > 0 /\ respawn' = respawn - 1
    /\ IF running /\ ~forking THEN Spawned ELSE UNCHANGED <<stream, printed, silent, spare>>
    /\ UNCHANGED <<hostVars, source, running, stale, batch, produced, cold, forkVars, readVars,
                   sampleVars, faults>>

Capped(n) == IF n > SilenceLimit THEN n ELSE n + 1

Watched_Never == FALSE

(* checkStream looks at a child that is listened to and silent for too long. *)
Watched == stream # "none" /\ silent > SilenceLimit

(* It is killed, no longer listened to, and replaced.                       *)
Replaced == stale' = TRUE /\ stream' = "up" /\ printed' = {} /\ silent' = 0 /\ UNCHANGED spare

(* The child that works has printed its interval when the next one begins.  *)
IntervalOver ==
    stream = "up" => \/ Looping /\ printed # {}
                     \/ ~Looping /\ printed = machine.nvidia /\ batch = {}
                     \/ ~Looping /\ machine.loopMode = "silent"

----------------------------------------------------------------------------
(* One tick of a source that works: the watchdog and the children, a fork,  *)
(* or a reading unless one is under way.                                    *)
ChildTick ==
    /\ source = "nvidia-smi" \/ Looping
    /\ ~forking /\ IntervalOver
    /\ IF source = "nvidia-smi" /\ Watched THEN Replaced
       ELSE /\ silent' = IF stream = "none" \/ Looping THEN silent ELSE Capped(silent)
            /\ printed' = {}
            /\ UNCHANGED <<stream, stale, spare>>
    /\ UNCHANGED <<batch, produced, cold, respawn, forkVars, readVars>>

ForkTick ==
    /\ forking /\ forks < MaxForks
    /\ forks' = forks + 1
    /\ UNCHANGED <<streamVars, forking, dmonWorks, readVars>>

(* buildMockSamples, at every tick of MOCK_GPU.                             *)
MockTick ==
    /\ source = "mock" /\ running
    /\ last' = {Sample(Uuid("GPU-mock", i), Metrics \ {"machine_fan"}) : i \in 0..1}
    /\ handed' = TRUE
    /\ UNCHANGED <<hostVars, source, running, streamVars, forkVars, readVars, faults>>

ReadTick ==
    /\ source \in {"rocm-smi", "amdgpu", "intel"}
    /\ reading' = IF reading = "none" THEN "going" ELSE reading
    /\ UNCHANGED <<streamVars, forkVars, cards, baseline>>

SourceTick ==
    /\ running
    /\ ChildTick \/ ForkTick \/ ReadTick
    /\ handed' = FALSE
    /\ UNCHANGED <<hostVars, source, running, last, faults>>

(* A fork ends, in the order the children please.                           *)
ForkEnds ==
    /\ forks > 0 /\ forks' = forks - 1
    /\ \E ok \in BOOLEAN :
        /\ ok \/ faults < MaxFaults
        /\ faults' = IF ok THEN faults ELSE faults + 1
        /\ IF ok THEN HandOver({NvidiaSample(c) : c \in machine.nvidia}) ELSE UNCHANGED sampleVars
    /\ UNCHANGED <<hostVars, source, running, streamVars, forking, dmonWorks, readVars>>

(* refreshSlowdownTemps().then(refreshPcieThroughput): dmon until it gives  *)
(* no row, -q from then on.                                                 *)
PcieRefreshed ==
    /\ source = "nvidia-smi" /\ running
    /\ dmonWorks /\ "pcie" \notin machine.sensors
    /\ dmonWorks' = FALSE
    /\ UNCHANGED <<hostVars, source, running, streamVars, forking, forks, readVars, sampleVars,
                   faults>>

Ended == reading = "going" /\ reading' = "none"

(* close of rocm-smi: an exit code, or empty output, hands nothing over.    *)
RocmReads ==
    /\ source = "rocm-smi" /\ Ended
    /\ \E ok \in BOOLEAN :
        /\ ok \/ faults < MaxFaults
        /\ faults' = IF ok THEN faults ELSE faults + 1
        /\ HandOver(RocmInfo(ok))
    /\ UNCHANGED <<hostVars, source, running, streamVars, forkVars, cards, baseline>>

(* tick of the sysfs collector: an empty discovery is not kept.             *)
AmdgpuReads ==
    /\ source = "amdgpu" /\ Ended
    /\ cards' = IF cards # {} THEN cards ELSE AmdgpuCards
    /\ HandOver({SysfsSample(c) : c \in cards'})
    /\ UNCHANGED <<hostVars, source, running, streamVars, forkVars, baseline, faults>>

(* tick of the Intel collector, which keeps what discover() found: the busy *)
(* time is the sum of the clients its own scan of fdinfo can read.          *)
IntelReads ==
    /\ source = "intel" /\ Ended
    /\ Scanned("samples")
    /\ \E shrunk \in SUBSET cards : HandOver({IntelSample(c, c \in shrunk) : c \in cards})
    /\ baseline' = IF "utilization" \in machine.sensors THEN cards ELSE {}
    /\ UNCHANGED <<hostVars, proc, source, running, streamVars, forkVars, cards, faults>>

(* A rocm-smi that does not return keeps "inflight" set for good.           *)
ToolHangs ==
    /\ source = "rocm-smi" /\ reading = "going"
    /\ faults < MaxFaults /\ faults' = faults + 1
    /\ reading' = "hung"
    /\ UNCHANGED <<hostVars, source, running, streamVars, forkVars, cards, baseline, sampleVars>>

----------------------------------------------------------------------------
SourceInit ==
    /\ source = "none" /\ running = FALSE
    /\ stream = "none" /\ stale = FALSE /\ spare = 0 /\ printed = {} /\ batch = {}
    /\ produced = FALSE /\ cold = 0 /\ silent = 0 /\ respawn = 0
    /\ forking = FALSE /\ forks = 0 /\ dmonWorks = TRUE
    /\ cards = {} /\ reading = "none" /\ baseline = {}
    /\ last = {} /\ handed = FALSE /\ faults = 0

(* start(): the long-lived child, or a first reading at once.  The caller   *)
(* sets cards and faults.                                                   *)
StartSource(s) ==
    /\ source' = s /\ running' = TRUE
    /\ IF s \in {"nvidia-smi", "pdh", "powermetrics"} THEN Spawned
       ELSE UNCHANGED <<stream, printed, silent, spare>>
    /\ reading' = IF s \in {"rocm-smi", "amdgpu", "intel"} THEN "going" ELSE reading
    /\ UNCHANGED <<stale, batch, produced, cold, respawn, forkVars, baseline, sampleVars>>

(* stop(): the timers are cleared, but not the respawn's; the child killed. *)
StopSource ==
    /\ running' = FALSE /\ forking' = FALSE
    /\ stream' = "none" /\ printed' = {}
    /\ UNCHANGED <<source, stale, spare, batch, produced, cold, silent, respawn, forks, dmonWorks,
                   readVars, sampleVars, faults>>

(* The Intel collector's reading apart, these meet no process of the host.  *)
SourceNext ==
    \/ \E c \in machine.nvidia : Line(c)
    \/ FlushFires \/ LoopLine \/ ChildExits \/ ChildHangs \/ StaleCloses \/ RespawnFires
    \/ SourceTick \/ MockTick \/ ForkEnds \/ PcieRefreshed
    \/ RocmReads \/ AmdgpuReads \/ ToolHangs

(* Timers fire, children that work print, readings and forks end.           *)
SourceFairness ==
    /\ WF_sourceVars(\E c \in machine.nvidia : Line(c))
    /\ WF_sourceVars(FlushFires) /\ WF_sourceVars(LoopLine)
    /\ WF_sourceVars(source = "nvidia-smi" /\ machine.loopMode = "exits" /\ ChildExits)
    /\ WF_sourceVars(RespawnFires) /\ WF_sourceVars(SourceTick) /\ WF_sourceVars(MockTick) /\ WF_sourceVars(ForkEnds)
    /\ WF_sourceVars(RocmReads) /\ WF_sourceVars(AmdgpuReads) /\ WF_sourceVars(IntelReads)

----------------------------------------------------------------------------
(* At most one nvidia-smi, powershell or powermetrics runs for the source:  *)
(* no watchdog, respawn or late close leaves a second one, and stopping     *)
(* leaves none.                                                             *)
OneChild == spare = 0 /\ (~running => stream = "none")
=============================================================================
