------------------------------ MODULE FdinfoScan ------------------------------
(***************************************************************************)
(* The scan of the DRM fdinfo of every process of the host,                 *)
(* agent/src/collectors/processesAmdgpuFdinfo.ts, and the processes it      *)
(* meets.  Two collectors scan, each with a state of its own: that of the   *)
(* AMD and Intel processes, and that of the Intel samples (gpuIntel.ts).    *)
(*                                                                         *)
(* A process may be a kernel thread, and its fdinfo may be refused to the   *)
(* agent.                                                                  *)
(***************************************************************************)
EXTENDS Integers, FiniteSets

CONSTANTS
    Pids,
    MinAge          \* FDINFO_MIN_AGE_MS, in scans

ASSUME ScanConstantsOK == MinAge \in Nat \ {0}

Scanners == {"samples", "processes"}

VARIABLES
    proc,        \* what runs under a pid: its kind and its number, or Gone
    recent,      \* by scanner: pids whose process ended since its last scan
    firstSeen,   \* by scanner: scans since a pid was first seen, Unseen
    denied,      \* deniedPids of each scanner
    kernels,     \* kernelThreads of each scanner
    refusals,    \* history: refusals the process of each pid caused each scanner
    early        \* history: a kernel thread or a young process was opened

scanVars == <<recent, firstSeen, denied, kernels, refusals, early>>

Gone == [number |-> 0, cards |-> {}, kfd |-> FALSE, readable |-> FALSE, kernel |-> FALSE]
Unseen == MinAge + 1

Alive == {p \in Pids : proc[p].number # 0}

(* createFdinfoScanState.                                                   *)
ScanInit ==
    /\ proc = [p \in Pids |-> Gone]
    /\ recent = [k \in Scanners |-> {}]
    /\ firstSeen = [k \in Scanners |-> [p \in Pids |-> Unseen]]
    /\ denied = [k \in Scanners |-> {}] /\ kernels = [k \in Scanners |-> {}]
    /\ refusals = [k \in Scanners |-> [p \in Pids |-> 0]] /\ early = FALSE

Aged(k, p) == IF firstSeen[k][p] = Unseen THEN 0
              ELSE IF firstSeen[k][p] < MinAge THEN firstSeen[k][p] + 1 ELSE firstSeen[k][p]

(* isKernelThread, asked of a pid seen for the first time.                  *)
NewKernels(k) == {p \in Alive : firstSeen[k][p] = Unseen /\ p \notin denied[k] /\ proc[p].kernel}

(* The pids left alone: refused before, or kernel threads.                  *)
Skipped(k) == denied[k] \cup kernels[k] \cup NewKernels(k)

(* The pids whose fdinfo is opened are old enough.                          *)
Opened(k) == {p \in Alive : p \notin Skipped(k) /\ Aged(k, p) >= MinAge}

(* Those that refuse are remembered while they live.                        *)
Refused(k) == {p \in Opened(k) : ~proc[p].readable}

StillThere_Unpurged(pids) == pids

(* Pids that are gone are forgotten, so that the next process starts over.  *)
StillThere(pids) == pids \cap Alive

(* scanAmdgpuFdinfo: one scan by k.                                         *)
Scanned(k) ==
    /\ recent' = [recent EXCEPT ![k] = {}]
    /\ denied' = [denied EXCEPT ![k] = StillThere(@ \cup Refused(k))]
    /\ kernels' = [kernels EXCEPT ![k] = StillThere(@ \cup NewKernels(k))]
    /\ firstSeen' = [firstSeen EXCEPT ![k] =
                        [p \in Pids |-> IF p \notin Alive THEN Unseen
                                        ELSE IF p \in Skipped(k) THEN @[p] ELSE Aged(k, p)]]
    /\ refusals' = [refusals EXCEPT ![k] =
                        [p \in Pids |-> IF p \in Refused(k) THEN @[p] + 1 ELSE @[p]]]
    /\ early' = (early \/ \E p \in Opened(k) : proc[p].kernel \/ firstSeen[k][p] = Unseen)

----------------------------------------------------------------------------
(* A scan causes at most one refusal, hence one audit record, in the life   *)
(* of a process, and opens neither kernel threads nor processes just seen.  *)
(* On an Intel host two collectors scan, each for itself.                   *)
ScanIsQuiet == ~early /\ \A k \in Scanners, p \in Pids : refusals[k][p] <= 1
=============================================================================
