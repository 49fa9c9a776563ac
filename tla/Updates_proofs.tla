--------------------------- MODULE Updates_proofs ----------------------------
(***************************************************************************)
(* Proofs about the three ways a new version or a new identity reaches a   *)
(* machine: AgentUpdate, for any number of versions, any cooldown and any  *)
(* number of disturbances; AgentInstall, for any tokens, cards, runs and   *)
(* mishaps; and HubInstall, for any number of runs.                        *)
(*                                                                         *)
(* What carries PushesSpaced is that the two places that keep the time of  *)
(* the last push, one of which a hub restart loses, never disagree with    *)
(* the time it was made.  What carries AsInstalled and OperatorDecides is  *)
(* InstallInv: what a script has come to, it has done (JobDone), the       *)
(* operator's choices are in the env file or in what is about to be        *)
(* appended to it (Carried), and what is expected is also what a start     *)
(* would read (Installed).  What carries OwnersThingsStay is that a run    *)
(* past its first step has a .env with both secrets, whatever an earlier   *)
(* run left of it, and so has what it starts.                              *)
(***************************************************************************)
EXTENDS AgentUpdate, AgentInstall, HubInstall, TLAPS

TimesAgree == pushedMem = since /\ pushedDb = since

\* Only the Windows launcher moves a file it has not written.
Whole == ~Windows => BundleIsWhole

PushInv == TypeOK /\ TimesAgree /\ Whole

LEMMA FaultBound == ASSUME TypeOK, Fault PROVE faults' \in 0 .. MaxFaults
BY UpdateConstantsOK DEF TypeOK, Fault, UpdateConstantsOK

LEMMA VersionsApart == Nothing \notin Versions /\ Torn \notin Versions /\ Torn # Nothing
BY DEF Versions, Nothing, Torn

LEMMA RangeBounds == 0 \in 0 .. Cooldown /\ Cooldown \in 0 .. Cooldown /\ 0 \in 0 .. MaxFaults
BY UpdateConstantsOK DEF UpdateConstantsOK

LEMMA PushInitInv == Init => PushInv
<1> SUFFICES ASSUME Init PROVE PushInv
  OBVIOUS
<1>1. TypeOK
  BY RangeBounds, VersionsApart DEF Init, TypeOK, Files
<1>2. TimesAgree /\ Whole
  BY VersionsApart DEF Init, TimesAgree, Whole, BundleIsWhole
<1>3. QED
  BY <1>1, <1>2 DEF PushInv

LEMMA MaybePushOK ==
  ASSUME PushInv, NEW v \in Versions \union {Nothing}, MaybePush(v)
  PROVE  /\ pushedMem' \in 0 .. Cooldown /\ pushedDb' \in 0 .. Cooldown
         /\ since' \in 0 .. Cooldown
         /\ push' \in Versions \union {Nothing} /\ turn' \in BOOLEAN
         /\ TimesAgree'
<1>1. CASE Gates(v)
  <2>1. pushedMem' = 0 /\ pushedDb' = 0 /\ since' = 0 /\ TimesAgree'
    BY <1>1 DEF MaybePush, Push, TimesAgree
  <2>2. push' \in Versions \union {Nothing} /\ turn' \in BOOLEAN
    BY <1>1 DEF MaybePush, Push, PushInv, TypeOK
  <2>3. QED
    BY <2>1, <2>2, RangeBounds
<1>2. CASE ~Gates(v)
  BY <1>2 DEF MaybePush, history, PushInv, TypeOK, TimesAgree
<1>3. QED
  BY <1>1, <1>2

LEMMA HubPushInv ==
  ASSUME PushInv,
         HandleHello \/ SchedulerTick \/ ForceUpdate \/ SetOptIn \/ HubCloses \/ HubRestart
  PROVE  PushInv'
<1> USE DEF PushInv
<1>1. CASE HandleHello
  <2>1. hello \in Versions \union {Nothing} /\ MaybePush(hello)
    BY <1>1 DEF HandleHello, TypeOK
  <2>2. /\ pushedMem' \in 0 .. Cooldown /\ pushedDb' \in 0 .. Cooldown
        /\ since' \in 0 .. Cooldown
        /\ push' \in Versions \union {Nothing} /\ turn' \in BOOLEAN
        /\ TimesAgree'
    BY <2>1, MaybePushOK
  <2>3. QED
    BY <1>1, <2>2 DEF HandleHello, TypeOK, Whole, BundleIsWhole, agentVars
<1>2. CASE SchedulerTick
  <2>1. known \in Versions \union {Nothing} /\ MaybePush(known)
    BY <1>2 DEF SchedulerTick, TypeOK
  <2>2. /\ pushedMem' \in 0 .. Cooldown /\ pushedDb' \in 0 .. Cooldown
        /\ since' \in 0 .. Cooldown
        /\ push' \in Versions \union {Nothing} /\ turn' \in BOOLEAN
        /\ TimesAgree'
    BY <2>1, MaybePushOK
  <2>3. QED
    BY <1>2, <2>2 DEF SchedulerTick, TypeOK, Whole, BundleIsWhole, agentVars
<1>3. CASE ForceUpdate
  <2>1. faults' \in 0 .. MaxFaults
    BY <1>3, FaultBound DEF ForceUpdate
  <2>2. 0 \in 0 .. Cooldown
    BY UpdateConstantsOK DEF UpdateConstantsOK
  <2>3. QED
    BY <1>3, <2>1, <2>2
       DEF ForceUpdate, Push, TypeOK, TimesAgree, Whole, BundleIsWhole, agentVars
<1>4. CASE SetOptIn
  BY <1>4 DEF SetOptIn, TypeOK, TimesAgree, Whole, BundleIsWhole, agentVars, wire, history
<1>5. CASE HubCloses
  <2>1. faults' \in 0 .. MaxFaults
    BY <1>5, FaultBound DEF HubCloses
  <2>2. QED
    BY <1>5, <2>1
       DEF HubCloses, TypeOK, TimesAgree, Whole, BundleIsWhole, agentVars, hubVars, history
<1>6. CASE HubRestart
  <2>1. faults' \in 0 .. MaxFaults
    BY <1>6, FaultBound DEF HubRestart
  <2>2. QED
    BY <1>6, <2>1
       DEF HubRestart, Bootstrap, NoSession, TypeOK, TimesAgree, Whole, BundleIsWhole,
           agentVars, history
<1>7. QED
  BY <1>1, <1>2, <1>3, <1>4, <1>5, <1>6

LEMMA AgentPushInv ==
  ASSUME PushInv,
         \/ Connect \/ SocketLost
         \/ StageUpdate \/ FinishUpdate \/ UpdateFails \/ Exit \/ Crash \/ Start
  PROVE  PushInv'
<1> USE DEF PushInv
<1>1. CASE Connect
  BY <1>1 DEF Connect, Idle, TypeOK, TimesAgree, Whole, BundleIsWhole, agentVars, hubVars,
              history
<1>2. CASE SocketLost
  <2>1. faults' \in 0 .. MaxFaults
    BY <1>2, FaultBound DEF SocketLost, TypeOK
  <2>2. QED
    BY <1>2, <2>1 DEF SocketLost, NoSession, TypeOK, TimesAgree, Whole, BundleIsWhole,
                      agentVars, hubVars, history
<1>3. CASE StageUpdate
  BY <1>3 DEF StageUpdate, Truncated, Files, TypeOK, TimesAgree, Whole, BundleIsWhole,
              hubVars, history
<1>4. CASE FinishUpdate
  <2>1. updating \in Versions /\ updating # Torn
    BY <1>4, VersionsApart DEF FinishUpdate, TypeOK
  <2>2. disk' \in Files \ {Nothing} /\ staged' \in Files /\ Whole'
    BY <1>4, <2>1, VersionsApart DEF FinishUpdate, Files, TypeOK, Whole, BundleIsWhole
  <2>3. QED
    BY <1>4, <2>2 DEF FinishUpdate, TypeOK, TimesAgree, hubVars, wire, history
<1>5. CASE UpdateFails
  <2>1. faults' \in 0 .. MaxFaults
    BY <1>5, FaultBound DEF UpdateFails
  <2>2. QED
    BY <1>5, <2>1 DEF UpdateFails, TypeOK, TimesAgree, Whole, BundleIsWhole, hubVars, wire,
                      history
<1>6. CASE Exit \/ Crash
  <2>1. faults' \in 0 .. MaxFaults /\ Down
    BY <1>6, FaultBound DEF Exit, Crash, TypeOK
  <2>2. QED
    BY <2>1 DEF Down, NoSession, TypeOK, TimesAgree, Whole, BundleIsWhole, hubVars, history
<1>7. CASE Start
  <2>1. /\ disk' \in Files \ {Nothing}
        /\ staged' \in Files
        /\ ~Windows => disk' = disk
    BY <1>7 DEF Start, TypeOK, Files
  <2>2. run' \in Versions \union {Nothing}
    BY <1>7, <2>1 DEF Start, Files
  <2>3. QED
    BY <1>7, <2>1, <2>2 DEF Start, TypeOK, TimesAgree, Whole, BundleIsWhole, hubVars, wire,
                            history
<1>8. QED
  BY <1>1, <1>2, <1>3, <1>4, <1>5, <1>6, <1>7

LEMMA TickPushInv == ASSUME PushInv, Tick PROVE PushInv'
<1>1. pushedMem' \in 0 .. Cooldown /\ pushedDb' \in 0 .. Cooldown /\ since' \in 0 .. Cooldown
  BY UpdateConstantsOK DEF Tick, Older, PushInv, TypeOK, UpdateConstantsOK
<1>2. TimesAgree'
  BY DEF Tick, Older, PushInv, TimesAgree
<1>3. QED
  BY <1>1, <1>2 DEF Tick, PushInv, TypeOK, Whole, BundleIsWhole, wire, agentVars

LEMMA PushStepInv == PushInv /\ [Next]_vars => PushInv'
<1> SUFFICES ASSUME PushInv, [Next]_vars PROVE PushInv'
  OBVIOUS
<1>1. CASE UNCHANGED vars
  BY <1>1 DEF vars, hubVars, wire, agentVars, history, PushInv, TypeOK, TimesAgree, Whole,
              BundleIsWhole
<1>2. CASE Next
  BY <1>2, HubPushInv, AgentPushInv, TickPushInv DEF Next
<1>3. QED
  BY <1>1, <1>2

LEMMA PushInvariant == Spec => []PushInv
BY PushInitInv, PushStepInv, PTL DEF Spec

\* Every reachable state has the types TypeOK gives.
THEOREM TypeCorrect == Spec => []TypeOK
<1>1. PushInv => TypeOK
  BY DEF PushInv
<1>2. QED
  BY <1>1, PushInvariant, PTL

\* Where the bundle is renamed in place, agent.mjs is whole at all times.
THEOREM BundleIsWholeHolds == ASSUME ~Windows PROVE Spec => []BundleIsWhole
<1>1. PushInv => BundleIsWhole
  BY DEF PushInv, Whole
<1>2. QED
  BY <1>1, PushInvariant, PTL

\* An automatic push comes a cooldown after the last push of any kind, over
\* any restarts of the hub.
THEOREM PushesSpacedHolds == Spec => PushesSpaced
<1>1. ASSUME PushInv, [Next]_vars, AutoPush
      PROVE  since >= Cooldown
  <2>1. HandleHello \/ SchedulerTick
    BY <1>1 DEF AutoPush, Next, vars, history, ForceUpdate, SetOptIn, HubCloses, HubRestart,
                Connect, SocketLost, StageUpdate, FinishUpdate, UpdateFails, Exit, Crash,
                Down, Start, Tick
  <2>2. pushedMem >= Cooldown
    BY <1>1, <2>1 DEF AutoPush, HandleHello, SchedulerTick, MaybePush, Gates, history
  <2>3. QED
    BY <1>1, <2>2 DEF PushInv, TimesAgree
<1>2. PushInv /\ [Next]_vars => [AutoPush => since >= Cooldown]_vars
  BY <1>1
<1>3. QED
  BY <1>2, PushInvariant, PTL DEF Spec, PushesSpaced

-----------------------------------------------------------------------------
\* The stages a script of each mode comes through.
Course ==
  [curl    |-> {"node", "download", "downloading", "head", "tail", "unit", "start"},
   docker  |-> {"compose", "downloading", "env", "up"},
   windows |-> {"node", "download", "downloading", "env", "unit", "stop", "start"},
   macos   |-> {"download", "downloading", "rule", "env", "unit", "stop", "start"}]

\* Those in which it has begun to overwrite things.
Begun == Stages \ {"node", "download", "compose"}

InstallTypeOK ==
  /\ os \in {"linux", "windows", "macos"} /\ card \in Known
  /\ env \in [Modes -> Confs \union {None}]
  /\ unit \in [Modes -> Units \union {None}]
  /\ agents \in [Modes -> SUBSET Confs]
  /\ expected \in [Modes -> Confs \union {None, Gone}]
  /\ job \in Jobs \union {None}
  /\ declined \in BOOLEAN /\ added \in BOOLEAN /\ forced \in BOOLEAN

\* What the running script has come to, it has done.
JobDone == job # None =>
  /\ job.stage \in Course[job.mode]
  /\ job.stage \in Begun => expected[job.mode] = None
  /\ job.mode # "docker" => Same(job.conf, job.given)
  /\ job.stage = "up" => env["docker"] # None
  /\ job.stage \in {"unit", "stop", "start"} => env[job.mode] = job.conf
  /\ job.stage \in {"stop", "start"} =>
       /\ unit[job.mode] # None
       /\ unit[job.mode].conf = job.conf
       /\ unit[job.mode].ptrace = ~job.conf.noPtrace
  /\ job.stage = "start" /\ job.mode # "curl" =>
       agents[job.mode] = {} /\ ~unit[job.mode].on

\* A script nobody forced found no unit of the other mode, nor is there one.
Unforced ==
  /\ unit["curl"] # None /\ unit["docker"] # None => forced
  /\ job # None /\ ~forced =>
       /\ job.mode = "curl" => unit["docker"] = None
       /\ job.mode = "docker" => unit["curl"] = None

\* The operator's choices are in the env file or, while that is half written,
\* in what the script is about to append.
Carried ==
  /\ job # None => /\ job.how = "upgrade" /\ declined => job.conf.noPtrace
                   /\ job.stage = "tail" /\ added => job.conf.extra
  /\ declined => env["curl"] # None /\ (~At("tail") => env["curl"].noPtrace)
  /\ added => env["curl"] # None /\ (~At("tail") => env["curl"].extra)

\* An agent has its unit, and a unit that reads an env file has that.
Supported ==
  \A m \in Modes :
    /\ agents[m] # {} => unit[m] # None
    /\ unit[m] # None /\ m \notin {"docker", "macos"} => env[m] # None

\* What is expected is what runs and what a start would read.
Installed(m) ==
  /\ expected[m] = Gone => agents[m] = {} /\ unit[m] = None
  /\ expected[m] \notin {None, Gone} =>
       /\ unit[m] # None
       /\ Same(Reads(m), expected[m])
       /\ \A conf \in agents[m] : Same(conf, expected[m])
       /\ m = "curl" => unit[m].ptrace = ~env[m].noPtrace

AllInstalled == \A m \in Modes : Installed(m)

InstallInv ==
  InstallTypeOK /\ JobDone /\ Unforced /\ Carried /\ Supported /\ AllInstalled

LEMMA FilesApart ==
  /\ \A conf \in Confs : conf # None /\ conf # Gone
  /\ \A u \in Units : u # None
  /\ \A j \in Jobs : j # None
  /\ None # Gone
BY NoneIsNoFile

\* The lines of the operator are not what a script is given.
LEMMA ExtraApart ==
  ASSUME NEW conf \in Confs, NEW extra \in BOOLEAN
  PROVE  LET c == [conf EXCEPT !.extra = extra]
         IN  c \in Confs /\ Same(c, conf) /\ c.extra = extra /\ c.noPtrace = conf.noPtrace
<1>1. [conf EXCEPT !.extra = extra] \in Confs
  BY DEF Confs
<1>2. Same([conf EXCEPT !.extra = extra], conf)
  BY DEF Confs, Same
<1>3. QED
  BY <1>1, <1>2 DEF Confs

LEMMA JobGoes ==
  ASSUME job \in Jobs, NEW stage \in Stages, Goes(stage)
  PROVE  /\ job' \in Jobs /\ job' # None /\ job'.stage = stage
         /\ job'.mode = job.mode /\ job'.how = job.how
         /\ job'.conf = job.conf /\ job'.given = job.given
BY FilesApart DEF Jobs, Goes

LEMMA InstallInitInv == InstallInit => InstallInv
<1> SUFFICES ASSUME InstallInit PROVE InstallInv
  OBVIOUS
<1>1. InstallTypeOK
  BY InstallConstantsOK DEF InstallInit, InstallTypeOK, InstallConstantsOK
<1>2. JobDone /\ Unforced /\ Carried /\ Supported
  BY DEF InstallInit, JobDone, Unforced, Carried, Supported, Modes
<1>3. AllInstalled
  BY FilesApart DEF InstallInit, AllInstalled, Installed
<1>4. QED
  BY <1>1, <1>2, <1>3 DEF InstallInv

----------------------------------------------------------------------------
\* The start of a script.
LEMMA BeginsInv ==
  ASSUME InstallInv, NEW m \in ModesOf, NEW how \in {"install", "upgrade"},
         NEW conf \in Confs, NEW given \in Confs, NEW force \in BOOLEAN,
         Begins(m, how, conf, given, force),
         m # "docker" => Same(conf, given),
         how = "upgrade" /\ declined => conf.noPtrace,
         force \/ Alone(m)
  PROVE  InstallInv'
<1> USE DEF InstallInv
<1> DEFINE stage == CASE m \in GetNode -> "node"
                      [] m = "docker" -> "compose"
                      [] OTHER -> "download"
<1>0. m \in Modes /\ (m \in {"curl", "docker"} => ModesOf = {"curl", "docker"})
  BY DEF ModesOf, Modes, InstallTypeOK
<1>1. stage \in Stages /\ stage \in Course[m] /\ stage \notin Begun /\ stage \notin {"up", "unit", "stop", "start", "tail"}
  BY <1>0 DEF Stages, Course, Begun, GetNode, Modes
<1>2. /\ job' = [mode |-> m, how |-> how, conf |-> conf, given |-> given, stage |-> stage]
      /\ job = None /\ forced' = (forced \/ force)
      /\ UNCHANGED <<os, card, env, unit, agents, expected, declined, added>>
  BY DEF Begins, machine, files
<1> HIDE DEF stage
<1>3. /\ job' \in Jobs /\ job' # None /\ job'.stage = stage /\ job'.mode = m
      /\ job'.how = how /\ job'.conf = conf /\ job'.given = given
  BY <1>0, <1>1, <1>2, FilesApart DEF Jobs
<1>4. InstallTypeOK'
  BY <1>2, <1>3 DEF InstallTypeOK
<1>5. JobDone'
  BY <1>1, <1>2, <1>3 DEF JobDone
<1>6. Unforced'
  BY <1>0, <1>2, <1>3 DEF Unforced, Alone, AlreadyThere
<1>7. Carried'
  BY <1>1, <1>2, <1>3 DEF Carried, At
<1>8. Supported' /\ AllInstalled'
  BY <1>2 DEF Supported, AllInstalled, Installed, Reads, Same
<1>9. QED
  BY <1>4, <1>5, <1>6, <1>7, <1>8

LEMMA VendorPinned ==
  ASSUME InstallInv, NEW m \in Modes, CardFits(m), m \in ModesOf
  PROVE  Pinned(m) \in {"nvidia", "amd", "intel", "apple", None}
BY DEF InstallInv, InstallTypeOK, CardFits, Pinned, Known, SystemdCards, DockerCards

LEMMA RunInstallInv ==
  ASSUME InstallInv, NEW m \in Modes, NEW h \in HostIds, NEW k \in Keys, NEW paste \in Pastes,
         NEW named \in PageNamed, NEW force \in BOOLEAN, NEW noPtrace \in BOOLEAN,
         RunInstall(m, h, k, paste, named, force, noPtrace)
  PROVE  InstallInv'
<1> DEFINE given == [Conf(m, h, k, UseTls(named)) EXCEPT !.noPtrace = noPtrace]
           conf == [given EXCEPT !.host = HostOf(m, h, paste)]
<1>1. m \in ModesOf /\ CardFits(m) /\ (force \/ Alone(m)) /\ Begins(m, "install", conf, given, force)
  BY DEF RunInstall, Checks
<1>2. Pinned(m) \in {"nvidia", "amd", "intel", "apple", None}
  BY <1>1, VendorPinned
<1>3. WsOf(UseTls(named)) \in {"ws", "wss"}
  BY DEF WsOf
<1>4. Conf(m, h, k, UseTls(named)) \in Confs /\ Conf(m, h, k, UseTls(named)).host = h
  BY <1>2, <1>3 DEF Confs, Conf
<1>5. given \in Confs /\ given.host = h
  BY <1>4 DEF Confs
<1>6. HostOf(m, h, paste) \in HostIds \union {None}
  BY DEF HostOf
<1> HIDE DEF given
<1>8. conf \in Confs /\ (m # "docker" => conf = given)
  BY <1>5, <1>6 DEF Confs, HostOf
<1> HIDE DEF conf
<1>9. m # "docker" => Same(conf, given)
  BY <1>8 DEF Same
<1>10. QED
  BY <1>1, <1>5, <1>8, <1>9, BeginsInv

LEMMA RunUpgradeInv ==
  ASSUME InstallInv, NEW force \in BOOLEAN, NEW noPtrace \in BOOLEAN,
         RunUpgrade(force, noPtrace)
  PROVE  InstallInv'
<1> DEFINE kept == [env["curl"] EXCEPT !.vendor = Pinned("curl"), !.extra = FALSE,
                                       !.noPtrace = KeptPtrace(noPtrace)]
<1>1. /\ "curl" \in ModesOf /\ CardFits("curl") /\ (force \/ Alone("curl"))
      /\ env["curl"] # None /\ Begins("curl", "upgrade", kept, kept, force)
  BY DEF RunUpgrade, Checks
<1>2. "curl" \in Modes /\ env["curl"] \in Confs
  BY <1>1 DEF InstallInv, InstallTypeOK, Modes
<1>3. Pinned("curl") \in {"nvidia", "amd", "intel", "apple", None}
  BY <1>1, <1>2, VendorPinned
<1>4. env["curl"].noPtrace \in BOOLEAN
  BY <1>2 DEF Confs
<1>5. KeptPtrace(noPtrace) \in BOOLEAN /\ (env["curl"].noPtrace => KeptPtrace(noPtrace))
  BY <1>4 DEF KeptPtrace
<1>6. kept \in Confs /\ kept.noPtrace = KeptPtrace(noPtrace)
  BY <1>2, <1>3, <1>5 DEF Confs
<1>7. declined => env["curl"].noPtrace
  BY <1>1 DEF InstallInv, Carried, At, Begins
<1> HIDE DEF kept
<1>8. declined => kept.noPtrace
  BY <1>5, <1>6, <1>7
<1>9. Same(kept, kept)
  BY DEF Same
<1>10. QED
  BY <1>1, <1>6, <1>8, <1>9, BeginsInv

----------------------------------------------------------------------------
\* The steps of a script up to its env file.
LEMMA EarlyInv ==
  ASSUME InstallInv, NodeReady \/ Download \/ FetchCompose \/ Downloaded \/ InstallRule
  PROVE  InstallInv'
<1> USE DEF InstallInv
<1>0. job \in Jobs /\ job # None /\ job.mode \in Modes
  BY DEF NodeReady, Download, FetchCompose, Downloaded, InstallRule, At, InstallTypeOK, Jobs
<1>1. ASSUME NEW stage \in Stages, Goes(stage),
             stage \in Course[job.mode], stage \notin {"tail", "unit", "up", "stop", "start"},
             job.stage # "tail",
             UNCHANGED <<os, card, env, unit, agents, declined, added, forced>>,
             \/ stage \notin Begun /\ expected' = expected
             \/ expected' = [expected EXCEPT ![job.mode] = None]
             \/ job.stage \in Begun /\ expected' = expected
      PROVE  InstallInv'
  <2>1. /\ job' \in Jobs /\ job' # None /\ job'.stage = stage
        /\ job'.mode = job.mode /\ job'.how = job.how
        /\ job'.conf = job.conf /\ job'.given = job.given
    BY <1>0, <1>1, JobGoes
  <2>2. expected' \in [Modes -> Confs \union {None, Gone}]
    BY <1>0, <1>1 DEF InstallTypeOK
  <2>3. \A m \in Modes : expected'[m] = expected[m] \/ expected'[m] = None
    BY <1>0, <1>1 DEF InstallTypeOK
  <2>4. stage \in Begun => expected'[job.mode] = None
    BY <1>0, <1>1 DEF InstallTypeOK, JobDone
  <2>5. InstallTypeOK'
    BY <1>1, <2>1, <2>2 DEF InstallTypeOK
  <2>6. JobDone'
    BY <1>0, <1>1, <2>1, <2>4 DEF JobDone, Same
  <2>7. Unforced' /\ Supported'
    BY <1>0, <1>1, <2>1 DEF Unforced, Supported
  <2>8. Carried'
    BY <1>0, <1>1, <2>1 DEF Carried, At
  <2>9. AllInstalled'
    BY <1>1, <2>3, FilesApart DEF AllInstalled, Installed, Reads, Same
  <2>10. QED
    BY <2>5, <2>6, <2>7, <2>8, <2>9
<1>2. CASE NodeReady
  <2>1. "download" \in Stages \ Begun /\ "download" \in Course[job.mode]
    BY <1>0, <1>2 DEF NodeReady, At, Stages, Begun, Course, JobDone, Modes
  <2>2. QED
    BY <1>1, <1>2, <2>1 DEF NodeReady, At, machine, files, told
<1>3. CASE (Download /\ served) \/ FetchCompose
  <2>1. "downloading" \in Stages /\ "downloading" \in Course[job.mode]
    BY <1>0 DEF Stages, Course, Modes
  <2>2. /\ Goes("downloading") /\ job.stage # "tail"
        /\ expected' = [expected EXCEPT ![job.mode] = None]
    BY <1>0, <1>3 DEF Download, FetchCompose, Overwriting, At, JobDone, Course, Modes
  <2>3. UNCHANGED <<os, card, env, unit, agents, declined, added, forced>>
    BY <1>3 DEF Download, FetchCompose, machine
  <2>4. QED
    BY <1>1, <2>1, <2>2, <2>3
<1>4. CASE Download /\ ~served
  <2>1. job' = None /\ ~At("tail") /\ UNCHANGED <<os, card, env, unit, agents, expected, declined, added, forced>>
    BY <1>4 DEF Download, Dies, machine, At
  <2>2. QED
    BY <2>1 DEF InstallTypeOK, JobDone, Unforced, Carried, Supported, AllInstalled, Installed, Reads, Same, At
<1>5. CASE Downloaded
  <2> DEFINE stage == CASE job.mode = "macos" -> "rule"
                        [] job.mode = "curl" -> "head"
                        [] OTHER -> "env"
  <2>1. stage \in Stages /\ stage \in Course[job.mode] /\ stage \notin {"tail", "unit", "up", "stop", "start"}
    BY <1>0 DEF Stages, Course, Modes
  <2>2. Goes(stage) /\ job.stage # "tail" /\ job.stage \in Begun /\ expected' = expected
    BY <1>5 DEF Downloaded, At, told, Begun, Stages
  <2>3. UNCHANGED <<os, card, env, unit, agents, declined, added, forced>>
    BY <1>5 DEF Downloaded, machine, told
  <2> HIDE DEF stage
  <2>4. QED
    BY <1>1, <2>1, <2>2, <2>3
<1>6. CASE InstallRule
  <2>1. "env" \in Stages /\ "env" \in Course[job.mode]
    BY <1>0, <1>6 DEF InstallRule, At, JobDone, Stages, Course, Modes
  <2>2. Goes("env") /\ job.stage # "tail" /\ job.stage \in Begun /\ expected' = expected
    BY <1>6 DEF InstallRule, At, told, Begun, Stages
  <2>3. UNCHANGED <<os, card, env, unit, agents, declined, added, forced>>
    BY <1>6 DEF InstallRule, machine, told
  <2>4. QED
    BY <1>1, <2>1, <2>2, <2>3
<1>7. QED
  BY <1>2, <1>3, <1>4, <1>5, <1>6

----------------------------------------------------------------------------
\* The env file.
LEMMA HeadInv == ASSUME InstallInv, WriteEnvHead PROVE InstallInv'
<1> USE DEF InstallInv
<1> DEFINE j == [job EXCEPT !.stage = "tail", !.conf.extra = ExtraEnv]
<1>1. /\ job \in Jobs /\ job # None /\ job.stage = "head" /\ job.mode = "curl"
      /\ expected["curl"] = None
  BY DEF WriteEnvHead, At, InstallTypeOK, JobDone, Course, Modes, Jobs, Begun, Stages
<1>2. ExtraEnv \in BOOLEAN /\ (added => ExtraEnv)
  BY <1>1 DEF ExtraEnv, Carried, At, InstallTypeOK, Modes, Confs
<1>3. job.conf \in Confs /\ job.given \in Confs
  BY <1>1 DEF Jobs
<1>4. /\ [job.conf EXCEPT !.extra = ExtraEnv] \in Confs
      /\ Same([job.conf EXCEPT !.extra = ExtraEnv], job.conf)
      /\ [job.conf EXCEPT !.extra = ExtraEnv].extra = ExtraEnv
      /\ [job.conf EXCEPT !.extra = ExtraEnv].noPtrace = job.conf.noPtrace
  BY <1>2, <1>3, ExtraApart
<1>5. /\ j.conf = [job.conf EXCEPT !.extra = ExtraEnv]
      /\ j.mode = job.mode /\ j.how = job.how /\ j.given = job.given /\ j.stage = "tail"
      /\ j \in Jobs
  BY <1>1, <1>4 DEF Jobs, Stages
<1>6. job' = j /\ UNCHANGED <<os, card, unit, agents, expected, declined, added, forced>>
  BY DEF WriteEnvHead, machine, told
<1> HIDE DEF j
<1>7. job' \in Jobs /\ job' # None
  BY <1>5, <1>6, FilesApart
<1>8. Head(job.conf) \in Confs
  BY <1>3 DEF Head, Confs
<1>9. env' \in [Modes -> Confs \union {None}] /\ env'["curl"] # None
      /\ \A m \in Modes \ {"curl"} : env'[m] = env[m]
  BY <1>8, FilesApart DEF WriteEnvHead, InstallTypeOK, Modes
<1>10. InstallTypeOK'
  BY <1>6, <1>7, <1>9 DEF InstallTypeOK
<1>11. JobDone'
  <2>1. Same(job'.conf, job'.given)
    BY <1>1, <1>4, <1>5, <1>6 DEF JobDone, Same
  <2>2. QED
    BY <1>1, <1>5, <1>6, <2>1 DEF JobDone, Course
<1>12. Unforced' /\ Supported'
  BY <1>1, <1>5, <1>6, <1>9 DEF Unforced, Supported
<1>13. Carried'
  BY <1>1, <1>2, <1>4, <1>5, <1>6, <1>7, <1>9 DEF Carried, At
<1>14. AllInstalled'
  BY <1>1, <1>6, <1>9, FilesApart DEF AllInstalled, Installed, Reads, Same
<1>15. QED
  BY <1>10, <1>11, <1>12, <1>13, <1>14

LEMMA TailInv == ASSUME InstallInv, WriteEnvTail PROVE InstallInv'
<1> USE DEF InstallInv
<1>1. /\ job \in Jobs /\ job # None /\ job.stage = "tail" /\ job.mode = "curl"
      /\ expected["curl"] = None /\ job.conf \in Confs
  BY DEF WriteEnvTail, At, InstallTypeOK, JobDone, Course, Modes, Jobs, Begun, Stages
<1>2. UNCHANGED <<os, card, unit, agents, expected, added, forced>> /\ Goes("unit")
  BY DEF WriteEnvTail, machine
<1>3. /\ job' \in Jobs /\ job' # None /\ job'.stage = "unit"
      /\ job'.mode = job.mode /\ job'.how = job.how
      /\ job'.conf = job.conf /\ job'.given = job.given
  BY <1>1, <1>2, JobGoes DEF Stages
<1>4. /\ env' \in [Modes -> Confs \union {None}] /\ env'["curl"] = job.conf
      /\ \A m \in Modes \ {"curl"} : env'[m] = env[m]
  BY <1>1 DEF WriteEnvTail, InstallTypeOK, Modes
<1>5. job.conf.noPtrace \in BOOLEAN
  BY <1>1 DEF Confs
<1>6. declined' \in BOOLEAN /\ (declined' => job.conf.noPtrace)
  BY <1>1, <1>5 DEF WriteEnvTail, Carried, InstallTypeOK
<1>7. InstallTypeOK'
  BY <1>2, <1>3, <1>4, <1>6 DEF InstallTypeOK
<1>8. JobDone'
  BY <1>1, <1>2, <1>3, <1>4 DEF JobDone, Course, Same
<1>9. Unforced' /\ Supported'
  BY <1>1, <1>2, <1>3, <1>4, FilesApart DEF Unforced, Supported
<1>10. Carried'
  BY <1>1, <1>2, <1>3, <1>4, <1>6, FilesApart DEF Carried, At
<1>11. AllInstalled'
  BY <1>1, <1>2, <1>4, FilesApart DEF AllInstalled, Installed, Reads, Same
<1>12. QED
  BY <1>7, <1>8, <1>9, <1>10, <1>11

LEMMA EnvFileInv == ASSUME InstallInv, WriteEnvFile PROVE InstallInv'
<1> USE DEF InstallInv
<1>1. /\ job \in Jobs /\ job # None /\ job.stage = "env" /\ job.mode \in Modes \ {"docker", "curl"}
      /\ expected[job.mode] = None /\ job.conf \in Confs
  BY DEF WriteEnvFile, At, InstallTypeOK, JobDone, Course, Modes, Jobs, Begun, Stages
<1>2. UNCHANGED <<os, card, unit, agents, expected, declined, added, forced>> /\ Goes("unit")
  BY DEF WriteEnvFile, machine, told
<1>3. /\ job' \in Jobs /\ job' # None /\ job'.stage = "unit"
      /\ job'.mode = job.mode /\ job'.how = job.how
      /\ job'.conf = job.conf /\ job'.given = job.given
  BY <1>1, <1>2, JobGoes DEF Stages
<1>4. /\ env' \in [Modes -> Confs \union {None}] /\ env'[job.mode] = job.conf
      /\ \A m \in Modes \ {job.mode} : env'[m] = env[m]
  BY <1>1 DEF WriteEnvFile, InstallTypeOK
<1>5. InstallTypeOK'
  BY <1>2, <1>3, <1>4 DEF InstallTypeOK
<1>6. JobDone'
  BY <1>1, <1>2, <1>3, <1>4 DEF JobDone, Course, Same, Modes
<1>7. Unforced' /\ Supported'
  BY <1>1, <1>2, <1>3, <1>4, FilesApart DEF Unforced, Supported
<1>8. env'["curl"] = env["curl"]
  BY <1>1, <1>4 DEF Modes
<1>9. Carried'
  BY <1>1, <1>2, <1>3, <1>8, FilesApart DEF Carried, At
<1>10. AllInstalled'
  BY <1>1, <1>2, <1>4, FilesApart DEF AllInstalled, Installed, Reads, Same
<1>11. QED
  BY <1>5, <1>6, <1>7, <1>9, <1>10

LEMMA DotEnvInv == ASSUME InstallInv, WriteDotEnv PROVE InstallInv'
<1> USE DEF InstallInv
<1>1. /\ job \in Jobs /\ job # None /\ job.stage = "env" /\ job.mode = "docker"
      /\ expected["docker"] = None /\ job.conf \in Confs
  BY DEF WriteDotEnv, At, InstallTypeOK, JobDone, Modes, Jobs, Begun, Stages
<1>2. UNCHANGED <<os, card, unit, agents, expected, declined, added, forced>> /\ Goes("up")
  BY DEF WriteDotEnv, machine, told
<1>3. /\ job' \in Jobs /\ job' # None /\ job'.stage = "up"
      /\ job'.mode = job.mode /\ job'.how = job.how
      /\ job'.conf = job.conf /\ job'.given = job.given
  BY <1>1, <1>2, JobGoes DEF Stages
<1>4. /\ env' \in [Modes -> Confs \union {None}] /\ env'["docker"] # None
      /\ \A m \in Modes \ {"docker"} : env'[m] = env[m]
  BY <1>1, FilesApart DEF WriteDotEnv, InstallTypeOK, Modes
<1>5. InstallTypeOK'
  BY <1>2, <1>3, <1>4 DEF InstallTypeOK
<1>6. JobDone'
  BY <1>1, <1>2, <1>3, <1>4 DEF JobDone, Course
<1>7. Unforced' /\ Supported'
  BY <1>1, <1>2, <1>3, <1>4, FilesApart DEF Unforced, Supported
<1>8. env'["curl"] = env["curl"]
  BY <1>4 DEF Modes
<1>9. Carried'
  BY <1>1, <1>2, <1>3, <1>8, FilesApart DEF Carried, At
<1>10. AllInstalled'
  BY <1>1, <1>2, <1>4, FilesApart DEF AllInstalled, Installed, Reads, Same
<1>11. QED
  BY <1>5, <1>6, <1>7, <1>9, <1>10

----------------------------------------------------------------------------
\* What starts the agent, and the starts and stops.
LEMMA WritesInv ==
  ASSUME InstallInv, WriteSystemdUnit \/ WriteLauncher \/ WritePlist
  PROVE  InstallInv'
<1> USE DEF InstallInv
<1>1. PICK m \in Modes, stage \in {"start", "stop"} :
        Writes(m, stage) /\ m # "docker" /\ (m = "curl" <=> stage = "start")
  BY DEF WriteSystemdUnit, WriteLauncher, WritePlist, Modes
<1>2. /\ job \in Jobs /\ job # None /\ job.stage = "unit" /\ job.mode = m
      /\ expected[m] = None /\ job.conf \in Confs /\ env[m] = job.conf
  BY <1>1 DEF Writes, At, InstallTypeOK, JobDone, Modes, Jobs, Begun, Stages
<1>3. UNCHANGED <<os, card, env, agents, expected, declined, added, forced>> /\ Goes(stage)
  BY <1>1 DEF Writes, machine, told
<1>4. /\ job' \in Jobs /\ job' # None /\ job'.stage = stage
      /\ job'.mode = job.mode /\ job'.how = job.how
      /\ job'.conf = job.conf /\ job'.given = job.given
  BY <1>2, <1>3, JobGoes DEF Stages
<1> DEFINE u == [ptrace |-> ~job.conf.noPtrace, conf |-> job.conf,
                 on |-> unit[m] # None /\ unit[m].on]
<1>5. (unit[m] # None /\ unit[m].on) \in BOOLEAN /\ (~job.conf.noPtrace) \in BOOLEAN
  BY <1>2 DEF InstallTypeOK, Units
<1>6. u \in Units
  BY <1>2, <1>5 DEF Units
<1>7. u.conf = job.conf /\ u.ptrace = ~job.conf.noPtrace
  OBVIOUS
<1>8. unit' = [unit EXCEPT ![m] = u]
  BY <1>1 DEF Writes
<1> HIDE DEF u
<1>9. /\ unit' \in [Modes -> Units \union {None}] /\ unit'[m] = u /\ unit'[m] # None
      /\ \A o \in Modes \ {m} : unit'[o] = unit[o]
  BY <1>6, <1>8, FilesApart DEF InstallTypeOK
<1>10. InstallTypeOK'
  BY <1>3, <1>4, <1>9 DEF InstallTypeOK
<1>11. JobDone'
  BY <1>1, <1>2, <1>3, <1>4, <1>7, <1>9 DEF JobDone, Course, Same, Modes
<1>12. Unforced'
  BY <1>1, <1>2, <1>3, <1>4, <1>9 DEF Unforced, Modes
<1>13. Supported'
  BY <1>2, <1>3, <1>9, FilesApart DEF Supported
<1>14. Carried'
  BY <1>2, <1>3, <1>4 DEF Carried, At
<1>15. AllInstalled'
  BY <1>2, <1>3, <1>9, FilesApart DEF AllInstalled, Installed, Reads, Same
<1>16. QED
  BY <1>10, <1>11, <1>12, <1>13, <1>14, <1>15

LEMMA StopOldInv == ASSUME InstallInv, StopOld PROVE InstallInv'
<1> USE DEF InstallInv
<1> DEFINE m == job.mode
<1>1. /\ job \in Jobs /\ job # None /\ job.stage = "stop" /\ m \in {"windows", "macos"}
      /\ expected[m] = None /\ unit[m] \in Units
  BY DEF StopOld, At, InstallTypeOK, JobDone, Modes, Jobs, Begun, Stages, Course
<1>2. UNCHANGED <<os, card, env, expected, declined, added, forced>> /\ Goes("start")
  BY DEF StopOld, machine, told
<1>3. /\ job' \in Jobs /\ job' # None /\ job'.stage = "start"
      /\ job'.mode = m /\ job'.how = job.how
      /\ job'.conf = job.conf /\ job'.given = job.given
  BY <1>1, <1>2, JobGoes DEF Stages
<1>4. /\ agents' \in [Modes -> SUBSET Confs] /\ agents'[m] = {}
      /\ \A o \in Modes \ {m} : agents'[o] = agents[o]
  BY <1>1 DEF StopOld, Stopped, InstallTypeOK, Modes
<1> DEFINE u == [unit[m] EXCEPT !.on = FALSE]
<1>5. /\ u \in Units /\ u.on = FALSE /\ u.conf = unit[m].conf /\ u.ptrace = unit[m].ptrace
  BY <1>1 DEF Units
<1>6. unit' = [unit EXCEPT ![m] = u]
  BY DEF StopOld
<1> HIDE DEF u
<1>7. /\ unit' \in [Modes -> Units \union {None}] /\ unit'[m] = u /\ unit'[m] # None
      /\ \A o \in Modes \ {m} : unit'[o] = unit[o]
  BY <1>1, <1>5, <1>6, FilesApart DEF InstallTypeOK, Modes
<1> HIDE DEF m
<1>8. InstallTypeOK'
  BY <1>2, <1>3, <1>4, <1>7 DEF InstallTypeOK
<1>9. JobDone'
  <2>1. m = job.mode
    BY DEF m
  <2>2. QED
    BY <1>1, <1>2, <1>3, <1>4, <1>5, <1>7, <2>1 DEF JobDone, Course, Same, Modes
<1>10. Unforced'
  BY <1>1, <1>2, <1>3, <1>7 DEF Unforced, Modes
<1>11. Supported'
  BY <1>1, <1>2, <1>4, <1>7, FilesApart DEF Supported
<1>12. Carried'
  BY <1>1, <1>2, <1>3 DEF Carried, At
<1>13. AllInstalled'
  BY <1>1, <1>2, <1>4, <1>7, FilesApart DEF AllInstalled, Installed, Reads, Same
<1>14. QED
  BY <1>8, <1>9, <1>10, <1>11, <1>12, <1>13

LEMMA StartNewInv == ASSUME InstallInv, StartNew PROVE InstallInv'
<1> USE DEF InstallInv
<1>0. PICK m, given, reads : m = job.mode /\ given = job.given /\ reads = Reads(m)
  OBVIOUS
<1>1. /\ job \in Jobs /\ job # None /\ job.stage = "start" /\ m \in Modes \ {"docker"}
      /\ expected[m] = None /\ job.conf \in Confs /\ given \in Confs
  BY <1>0 DEF StartNew, At, InstallTypeOK, JobDone, Modes, Jobs, Begun, Stages, Course
<1>2. /\ unit[m] \in Units /\ unit[m].conf = job.conf /\ env[m] = job.conf
      /\ unit[m].ptrace = ~job.conf.noPtrace /\ Same(job.conf, given)
      /\ m # "curl" => agents[m] = {}
  BY <1>0, <1>1 DEF JobDone, InstallTypeOK
<1>3. reads = job.conf
  BY <1>0, <1>2 DEF Reads
<1>4. UNCHANGED <<os, card, env, declined, added, forced>> /\ job' = None
  BY DEF StartNew, machine, Dies
<1>5. Restarted(m) = {reads}
  BY <1>0, <1>2 DEF Restarted
<1>6. /\ agents' \in [Modes -> SUBSET Confs] /\ agents'[m] = {reads}
      /\ \A o \in Modes \ {m} : agents'[o] = agents[o]
  BY <1>0, <1>1, <1>3, <1>5 DEF StartNew, InstallTypeOK
<1>7. /\ expected' \in [Modes -> Confs \union {None, Gone}] /\ expected'[m] = given
      /\ \A o \in Modes \ {m} : expected'[o] = expected[o]
  BY <1>0, <1>1 DEF StartNew, InstallTypeOK
<1> DEFINE u == [unit[m] EXCEPT !.on = TRUE]
<1>8. /\ u \in Units /\ u.conf = unit[m].conf /\ u.ptrace = unit[m].ptrace
  BY <1>2 DEF Units
<1>9. unit' = [unit EXCEPT ![m] = u]
  BY <1>0 DEF StartNew
<1> HIDE DEF u
<1>10. /\ unit' \in [Modes -> Units \union {None}] /\ unit'[m] = u /\ unit'[m] # None
       /\ \A o \in Modes \ {m} : unit'[o] = unit[o]
  BY <1>1, <1>8, <1>9, FilesApart DEF InstallTypeOK
<1>11. Reads(m)' = reads
  BY <1>0, <1>2, <1>4, <1>8, <1>10 DEF Reads
<1>12. InstallTypeOK'
  BY <1>4, <1>6, <1>7, <1>10 DEF InstallTypeOK
<1>13. JobDone'
  BY <1>4 DEF JobDone
<1>14. Unforced'
  BY <1>1, <1>2, <1>4, <1>10, FilesApart DEF Unforced, Modes
<1>15. Supported'
  BY <1>1, <1>2, <1>4, <1>6, <1>10, FilesApart DEF Supported
<1>16. Carried'
  BY <1>1, <1>4 DEF Carried, At
<1>17. AllInstalled'
  <2>1. ASSUME NEW o \in Modes \ {m} PROVE Installed(o)'
    BY <1>4, <1>6, <1>7, <1>10, <2>1 DEF AllInstalled, Installed, Reads, Same
  <2>2. Installed(m)'
    BY <1>1, <1>2, <1>3, <1>4, <1>6, <1>7, <1>8, <1>10, <1>11, FilesApart DEF Installed, Same
  <2>3. QED
    BY <2>1, <2>2 DEF AllInstalled
<1>18. QED
  BY <1>12, <1>13, <1>14, <1>15, <1>16, <1>17

LEMMA ComposeUpInv == ASSUME InstallInv, ComposeUp PROVE InstallInv'
<1> USE DEF InstallInv
<1>1. /\ job \in Jobs /\ job # None /\ job.stage = "up" /\ job.mode = "docker"
      /\ expected["docker"] = None /\ env["docker"] \in Confs
  BY DEF ComposeUp, At, InstallTypeOK, JobDone, Modes, Jobs, Begun, Stages, Course
<1>2. UNCHANGED <<os, card, env, declined, added, forced>> /\ job' = None
  BY DEF ComposeUp, machine, Dies
<1> DEFINE u == [ptrace |-> TRUE, conf |-> env["docker"], on |-> TRUE]
<1>3. u \in Units /\ u.conf = env["docker"]
  BY <1>1 DEF Units
<1>4. unit' = [unit EXCEPT !["docker"] = u]
  BY DEF ComposeUp
<1> HIDE DEF u
<1>5. /\ unit' \in [Modes -> Units \union {None}] /\ unit'["docker"] = u /\ u # None
      /\ \A o \in Modes \ {"docker"} : unit'[o] = unit[o]
  BY <1>3, <1>4, FilesApart DEF InstallTypeOK, Modes
<1>6. /\ agents' \in [Modes -> SUBSET Confs] /\ agents'["docker"] = {env["docker"]}
      /\ \A o \in Modes \ {"docker"} : agents'[o] = agents[o]
  BY <1>1 DEF ComposeUp, InstallTypeOK, Modes
<1>7. /\ expected' \in [Modes -> Confs \union {None, Gone}] /\ expected'["docker"] = env["docker"]
      /\ \A o \in Modes \ {"docker"} : expected'[o] = expected[o]
  BY <1>1 DEF ComposeUp, InstallTypeOK, Modes
<1>8. InstallTypeOK'
  BY <1>2, <1>5, <1>6, <1>7 DEF InstallTypeOK
<1>9. JobDone'
  BY <1>2 DEF JobDone
<1>10. Unforced'
  BY <1>1, <1>2, <1>5 DEF Unforced, Modes
<1>11. Supported'
  BY <1>1, <1>2, <1>5, <1>6 DEF Supported
<1>12. Carried'
  BY <1>1, <1>2 DEF Carried, At
<1>13. AllInstalled'
  <2>1. ASSUME NEW o \in Modes \ {"docker"} PROVE Installed(o)'
    BY <1>2, <1>5, <1>6, <1>7, <2>1 DEF AllInstalled, Installed, Reads, Same
  <2>2. Installed("docker")'
    BY <1>1, <1>2, <1>3, <1>5, <1>6, <1>7, FilesApart DEF Installed, Reads, Same
  <2>3. QED
    BY <2>1, <2>2 DEF AllInstalled
<1>14. QED
  BY <1>8, <1>9, <1>10, <1>11, <1>12, <1>13

LEMMA RemovesInv ==
  ASSUME InstallInv, RemoveContainer \/ (\E m \in Modes : Uninstall(m))
  PROVE  InstallInv'
<1> USE DEF InstallInv
<1>1. PICK m \in Modes : Removes(m) /\ (RemoveContainer \/ Uninstall(m)) /\ (RemoveContainer => m = "docker")
  BY DEF RemoveContainer, Uninstall, Modes
<1>2. job = None /\ job' = None /\ UNCHANGED <<os, card, forced>>
  BY <1>1 DEF Removes, machine
<1>3. /\ unit' \in [Modes -> Units \union {None}] /\ unit'[m] = None
      /\ \A o \in Modes \ {m} : unit'[o] = unit[o]
  BY <1>1 DEF Removes, InstallTypeOK
<1>4. /\ agents' \in [Modes -> SUBSET Confs] /\ agents'[m] = {}
      /\ \A o \in Modes \ {m} : agents'[o] = agents[o]
  BY <1>1 DEF Removes, InstallTypeOK
<1>5. /\ expected' \in [Modes -> Confs \union {None, Gone}] /\ expected'[m] = Gone
      /\ \A o \in Modes \ {m} : expected'[o] = expected[o]
  BY <1>1 DEF Removes, InstallTypeOK
<1>6. /\ env' \in [Modes -> Confs \union {None}]
      /\ \A o \in Modes \ {m} : env'[o] = env[o]
  BY <1>1 DEF RemoveContainer, Uninstall, InstallTypeOK
<1>7. declined' \in BOOLEAN /\ (declined' => declined /\ m # "curl")
  <2>1. declined \in BOOLEAN
    BY DEF InstallTypeOK
  <2>2. CASE RemoveContainer
    BY <1>1, <2>1, <2>2 DEF RemoveContainer
  <2>3. CASE Uninstall(m)
    BY <2>1, <2>3 DEF Uninstall
  <2>4. QED
    BY <1>1, <2>2, <2>3
<1>8. added' \in BOOLEAN /\ (added' => added /\ m # "curl")
  <2>1. added \in BOOLEAN
    BY DEF InstallTypeOK
  <2>2. CASE RemoveContainer
    BY <1>1, <2>1, <2>2 DEF RemoveContainer
  <2>3. CASE Uninstall(m)
    BY <2>1, <2>3 DEF Uninstall
  <2>4. QED
    BY <1>1, <2>2, <2>3
<1>9. InstallTypeOK'
  BY <1>2, <1>3, <1>4, <1>5, <1>6, <1>7, <1>8 DEF InstallTypeOK
<1>10. JobDone'
  BY <1>2 DEF JobDone
<1>11. Unforced'
  BY <1>2, <1>3 DEF Unforced, Modes
<1>12. Supported'
  BY <1>3, <1>4, <1>6 DEF Supported
<1>13. Carried'
  BY <1>2, <1>6, <1>7, <1>8 DEF Carried, At, Modes
<1>14. AllInstalled'
  BY <1>3, <1>4, <1>5, <1>6, FilesApart DEF AllInstalled, Installed, Reads, Same
<1>15. QED
  BY <1>9, <1>10, <1>11, <1>12, <1>13, <1>14

----------------------------------------------------------------------------
\* Around the scripts.
LEMMA CutInv == ASSUME InstallInv, Cut \/ Reboot PROVE InstallInv'
<1> USE DEF InstallInv
<1>1. job' = None /\ UNCHANGED <<os, card, env, unit, expected, forced>>
  BY DEF Cut, Reboot, Dies, machine, files
<1>2. agents' \in [Modes -> SUBSET Confs] /\ \A m \in Modes : agents'[m] \subseteq agents[m]
  BY DEF Cut, Reboot, InstallTypeOK
<1>3. /\ declined' \in BOOLEAN /\ added' \in BOOLEAN
      /\ declined' => declined /\ ~At("tail")
      /\ added' => added /\ ~At("tail")
  BY DEF Cut, Reboot, Forgets, InstallTypeOK
<1>4. InstallTypeOK'
  BY <1>1, <1>2, <1>3 DEF InstallTypeOK
<1>5. JobDone' /\ Unforced'
  BY <1>1 DEF JobDone, Unforced
<1>6. Supported'
  BY <1>1, <1>2 DEF Supported
<1>7. Carried'
  BY <1>1, <1>3 DEF Carried, At
<1>8. AllInstalled'
  BY <1>1, <1>2, FilesApart DEF AllInstalled, Installed, Reads, Same
<1>9. QED
  BY <1>4, <1>5, <1>6, <1>7, <1>8

LEMMA AgentsInv ==
  ASSUME InstallInv, NEW m \in Modes, AgentEnds(m) \/ Supervise(m)
  PROVE  InstallInv'
<1> USE DEF InstallInv
<1>1. UNCHANGED <<os, card, env, unit, expected, job, declined, added, forced>>
  BY DEF AgentEnds, Supervise, machine, files, told
<1>2. CASE AgentEnds(m)
  <2>1. agents' \in [Modes -> SUBSET Confs] /\ \A o \in Modes : agents'[o] \in {{}, agents[o]}
    BY <1>2 DEF AgentEnds, InstallTypeOK
  <2>2. InstallTypeOK' /\ JobDone'
    BY <1>1, <2>1 DEF InstallTypeOK, JobDone, Same, Jobs
  <2>3. Unforced' /\ Carried' /\ Supported'
    BY <1>1, <2>1 DEF Unforced, Carried, At, Supported
  <2>4. AllInstalled'
    BY <1>1, <2>1 DEF AllInstalled, Installed, Reads, Same
  <2>5. QED
    BY <2>2, <2>3, <2>4
<1>3. CASE Supervise(m)
  <2>1. unit[m] \in Units /\ unit[m] # None /\ unit[m].on /\ Reads(m) \in Confs
    BY <1>3, FilesApart DEF Supervise, InstallTypeOK, Supported, Reads, Units
  <2>2. /\ agents' \in [Modes -> SUBSET Confs] /\ agents'[m] = {Reads(m)}
        /\ \A o \in Modes \ {m} : agents'[o] = agents[o]
    BY <1>3, <2>1 DEF Supervise, InstallTypeOK
  <2>3. InstallTypeOK'
    BY <1>1, <2>2 DEF InstallTypeOK
  <2>4. JobDone'
    BY <1>1, <2>1, <2>2 DEF JobDone, Same, InstallTypeOK, Jobs
  <2>5. Unforced' /\ Carried' /\ Supported'
    BY <1>1, <2>1, <2>2 DEF Unforced, Carried, At, Supported
  <2>6. AllInstalled'
    BY <1>1, <2>1, <2>2 DEF AllInstalled, Installed, Reads, Same
  <2>7. QED
    BY <2>3, <2>4, <2>5, <2>6
<1>4. QED
  BY <1>2, <1>3

LEMMA AddVariableInv == ASSUME InstallInv, AddVariable PROVE InstallInv'
<1> USE DEF InstallInv
<1>1. /\ job = None /\ job' = None /\ env["curl"] \in Confs
      /\ UNCHANGED <<os, card, unit, agents, expected, declined, forced>>
  BY DEF AddVariable, machine, InstallTypeOK, Modes
<1> DEFINE conf == [env["curl"] EXCEPT !.extra = TRUE]
<1>2. /\ conf \in Confs /\ conf # None /\ Same(conf, env["curl"]) /\ conf.extra = TRUE
      /\ conf.noPtrace = env["curl"].noPtrace
  BY <1>1, ExtraApart, FilesApart
<1>3. env' = [env EXCEPT !["curl"] = conf] /\ added' = TRUE
  BY DEF AddVariable
<1> HIDE DEF conf
<1>4. /\ env' \in [Modes -> Confs \union {None}] /\ env'["curl"] = conf
      /\ \A o \in Modes \ {"curl"} : env'[o] = env[o]
  BY <1>2, <1>3 DEF InstallTypeOK, Modes
<1>5. InstallTypeOK'
  BY <1>1, <1>3, <1>4 DEF InstallTypeOK
<1>6. JobDone' /\ Unforced'
  BY <1>1 DEF JobDone, Unforced
<1>7. Supported'
  BY <1>1, <1>2, <1>4 DEF Supported
<1>8. Carried'
  BY <1>1, <1>2, <1>3, <1>4 DEF Carried, At
<1>9. AllInstalled'
  <2>1. ASSUME NEW o \in Modes \ {"curl"} PROVE Installed(o)'
    BY <1>1, <1>4, <2>1 DEF AllInstalled, Installed, Reads, Same
  <2>2. Installed("curl")'
    <3>1. Installed("curl")
      BY DEF AllInstalled, Modes
    <3>2. Reads("curl") = env["curl"] /\ Reads("curl")' = conf
      BY <1>4 DEF Reads
    <3>3. QED
      BY <1>1, <1>2, <1>4, <3>1, <3>2 DEF Installed, Same
  <2>3. QED
    BY <2>1, <2>2 DEF AllInstalled
<1>10. QED
  BY <1>5, <1>6, <1>7, <1>8, <1>9

LEMMA NothingInv == ASSUME InstallInv, HubRebuilt \/ UNCHANGED installVars PROVE InstallInv'
<1>1. UNCHANGED <<os, card, env, unit, agents, expected, job, declined, added, forced>>
  BY DEF HubRebuilt, installVars, machine, files, told
<1>2. InstallTypeOK' /\ JobDone'
  BY <1>1 DEF InstallInv, InstallTypeOK, JobDone, Same
<1>3. Unforced' /\ Carried' /\ Supported' /\ AllInstalled'
  BY <1>1 DEF InstallInv, Unforced, Carried, At, Supported, AllInstalled, Installed, Reads, Same
<1>4. QED
  BY <1>2, <1>3 DEF InstallInv

LEMMA InstallStepInv == InstallInv /\ [InstallNext]_installVars => InstallInv'
BY RunInstallInv, RunUpgradeInv, EarlyInv, HeadInv, TailInv, EnvFileInv, DotEnvInv,
   WritesInv, StopOldInv, StartNewInv, ComposeUpInv, RemovesInv, CutInv, AgentsInv,
   AddVariableInv, NothingInv
   DEF InstallNext

LEMMA InstallInvariant == InstallSpec => []InstallInv
BY InstallInitInv, InstallStepInv, PTL DEF InstallSpec

\* Once a script has come to its end, and until another one begins to
\* overwrite things, every agent of its mode runs with what it was given, or
\* none after an uninstall: for any tokens, cut, reboot and restart anywhere.
THEOREM AsInstalledHolds == InstallSpec => []AsInstalled
<1>1. InstallInv => AsInstalled
  BY DEF InstallInv, AllInstalled, Installed, AsInstalled
<1>2. QED
  BY <1>1, InstallInvariant, PTL

\* No script takes back what the operator declined or added by hand, and two
\* agents on one machine take a --force.
THEOREM OperatorDecidesHolds == InstallSpec => []OperatorDecides
<1>1. ASSUME InstallInv PROVE OperatorDecides
  <2>1. "curl" \in Modes /\ "docker" \in Modes
    BY DEF Modes
  <2>2. declined /\ expected["curl"] \notin {None, Gone} => ~unit["curl"].ptrace
    <3>1. SUFFICES ASSUME declined, expected["curl"] \notin {None, Gone}
                   PROVE  ~unit["curl"].ptrace
      OBVIOUS
    <3>2. Installed("curl")
      BY <1>1, <2>1 DEF InstallInv, AllInstalled
    <3>3. ~At("tail")
      BY <1>1, <3>1 DEF InstallInv, JobDone, At, Course, Begun, Stages, InstallTypeOK, Jobs, Modes
    <3>4. QED
      BY <1>1, <3>1, <3>2, <3>3 DEF InstallInv, Carried, Installed
  <2>3. added /\ ~At("tail") => env["curl"].extra
    BY <1>1 DEF InstallInv, Carried
  <2>4. OneAgentUnlessForced
    BY <1>1, <2>1 DEF InstallInv, OneAgentUnlessForced, Unforced, Supported
  <2>5. QED
    BY <2>2, <2>3, <2>4 DEF OperatorDecides, ChoicesKept
<1>2. QED
  BY <1>1, InstallInvariant, PTL

-----------------------------------------------------------------------------
\* A .env, whole or cut short.
EnvFiles == [jwt : Nat \union {Absent}, boot : Nat \union {Absent}, profile : Profiles \union {Absent}]

Complete(lines) == \A s \in Secrets : lines[s] # Absent

EnvTyped ==
  /\ hubRuns \in Nat
  /\ hubStage \in HubStages \union {Absent}
  /\ gpu \in Profiles
  /\ dotenv # Absent => dotenv \in EnvFiles

PastEnv == hubStage \in HubStages \ {"env"} => dotenv \in EnvFiles /\ Complete(dotenv)

\* The file a first fetch has begun is nobody's.
FetchIsOurs == hubStage = "fetching" => compose.kind = "torn"

StackComplete == stack # Absent => Complete(stack.env)

HubInv == EnvTyped /\ PastEnv /\ FetchIsOurs /\ StackComplete

LEMMA Apart == Absent \notin Nat /\ Absent \notin HubStages
BY HubInstallConstantsOK DEF HubInstallConstantsOK

LEMMA SecretLines == ASSUME NEW lines \in EnvFiles PROVE lines.jwt = lines["jwt"] /\ lines.boot = lines["boot"]
OBVIOUS

\* What EnvReady writes over a .env has both secrets, and those that were there.
LEMMA BackFilledKeeps ==
  ASSUME hubRuns \in Nat, gpu \in Profiles, NEW old \in EnvFiles
  PROVE  /\ Reprofiled(BackFilled(old)) \in EnvFiles
         /\ Complete(Reprofiled(BackFilled(old)))
         /\ \A s \in Secrets : old[s] # Absent => Reprofiled(BackFilled(old))[s] = old[s]
<1> DEFINE jwt == IF old.jwt = Absent THEN Fresh ELSE old.jwt
           boot == IF old.boot = Absent THEN Fresh ELSE old.boot
           filled == [old EXCEPT !.jwt = jwt, !.boot = boot]
<1>1. jwt \in Nat /\ boot \in Nat /\ jwt # Absent /\ boot # Absent
  BY Apart DEF Fresh, EnvFiles
<1>2. BackFilled(old) = filled
  BY DEF BackFilled
<1>3. filled \in EnvFiles /\ filled.jwt = jwt /\ filled.boot = boot
  BY <1>1 DEF EnvFiles
<1>4. Vendor \in Profiles
  BY DEF Vendor, Profiles
<1> HIDE DEF filled
<1>5. /\ Reprofiled(filled) \in EnvFiles
      /\ Reprofiled(filled).jwt = filled.jwt /\ Reprofiled(filled).boot = filled.boot
  BY <1>3, <1>4 DEF Reprofiled, EnvFiles, Profiles
<1>6. QED
  BY <1>1, <1>2, <1>3, <1>5 DEF Complete, Secrets

LEMMA HubInitInv == HubInstallInit => HubInv
BY Apart DEF HubInstallInit, HubInv, EnvTyped, PastEnv, FetchIsOurs, StackComplete, HubStages

\* What one step must not do to the owner's things.
StaysOnce ==
  /\ dotenv # Absent => \A s \in Secrets : dotenv[s] # Absent => dotenv'[s] = dotenv[s]
  /\ compose.kind = "edited" => compose \in backups' \union {compose'}
  /\ stack' # Absent => \A s \in Secrets : stack'.env[s] # Absent

LEMMA EnvStep == ASSUME HubInv, EnvReady PROVE HubInv' /\ StaysOnce
<1>1. /\ dotenv' \in EnvFiles /\ Complete(dotenv')
      /\ dotenv # Absent => \A s \in Secrets : dotenv[s] # Absent => dotenv'[s] = dotenv[s]
  <2>1. CASE dotenv = Absent
    <3> DEFINE fresh == [jwt |-> Fresh, boot |-> Fresh, profile |-> Vendor]
    <3>1. Fresh \in Nat /\ Fresh # Absent /\ Vendor \in Profiles
      BY Apart DEF Fresh, Vendor, HubInv, EnvTyped, Profiles
    <3>2. fresh \in EnvFiles /\ Complete(fresh)
      BY <3>1 DEF EnvFiles, Complete, Secrets
    <3>3. QED
      BY <2>1, <3>2 DEF EnvReady
  <2>2. CASE dotenv # Absent
    <3>1. dotenv \in EnvFiles /\ hubRuns \in Nat /\ gpu \in Profiles
      BY <2>2 DEF HubInv, EnvTyped
    <3>2. dotenv' = Reprofiled(BackFilled(dotenv))
      BY <2>2 DEF EnvReady
    <3>3. QED
      BY <3>1, <3>2, BackFilledKeeps
  <2>3. QED
    BY <2>1, <2>2
<1>2. EnvTyped' /\ PastEnv'
  BY <1>1 DEF EnvReady, HubInv, EnvTyped, PastEnv, HubStages, Complete
<1>3. FetchIsOurs' /\ StackComplete' /\ StaysOnce
  BY <1>1 DEF EnvReady, HubInv, FetchIsOurs, StackComplete, StaysOnce, Complete
<1>4. QED
  BY <1>2, <1>3 DEF HubInv

\* A .env that was cut short holds nothing made before.
LEMMA EnvCutStep == ASSUME HubInv, EnvCut PROVE HubInv' /\ StaysOnce
<1>1. dotenv' \in EnvFiles
  BY Apart DEF EnvCut, EnvFiles, Fresh, HubInv, EnvTyped
<1>2. QED
  BY <1>1, Apart DEF EnvCut, HubInv, EnvTyped, PastEnv, FetchIsOurs, StackComplete,
     StaysOnce, HubStages, Complete, Secrets

LEMMA ComposeStep ==
  ASSUME HubInv, FetchFirst \/ Fetched \/ Compared \/ BranchMoves \/ OwnerEdits
  PROVE  HubInv' /\ StaysOnce
<1> USE DEF HubInv, EnvTyped, PastEnv, FetchIsOurs, StackComplete, StaysOnce, HubStages, Complete, File
<1>1. CASE FetchFirst
  BY <1>1, Apart DEF FetchFirst
<1>2. CASE Fetched
  BY <1>2, Apart DEF Fetched
<1>3. CASE Compared
  BY <1>3, Apart DEF Compared, Overwrite
<1>4. CASE BranchMoves
  BY <1>4, Apart DEF BranchMoves
<1>5. CASE OwnerEdits
  BY <1>5, Apart DEF OwnerEdits
<1>6. QED
  BY <1>1, <1>2, <1>3, <1>4, <1>5

LEMMA OtherStep ==
  ASSUME HubInv, RunHubInstall \/ Up \/ HubRunCut \/ HostChanges \/ UNCHANGED installerVars
  PROVE  HubInv' /\ StaysOnce
<1> USE DEF HubInv, EnvTyped, PastEnv, FetchIsOurs, StackComplete, StaysOnce, HubStages, Complete,
        hubFiles
<1>1. CASE RunHubInstall
  BY <1>1, Apart DEF RunHubInstall
<1>2. CASE Up
  BY <1>2, Apart DEF Up, Secrets
<1>3. CASE HubRunCut
  BY <1>3, Apart DEF HubRunCut
<1>4. CASE HostChanges
  BY <1>4, Apart DEF HostChanges
<1>5. CASE UNCHANGED installerVars
  BY <1>5 DEF installerVars
<1>6. QED
  BY <1>1, <1>2, <1>3, <1>4, <1>5

LEMMA HubStepInv == ASSUME HubInv, [HubInstallNext]_installerVars PROVE HubInv' /\ StaysOnce
BY EnvStep, EnvCutStep, ComposeStep, OtherStep DEF HubInstallNext

\* install.sh, run again over what an earlier run left, cut anywhere: no secret
\* in the .env is changed, an edited compose file is kept or backed up, and what
\* is started has both secrets.
THEOREM OwnersThingsStayHolds == HubInstallSpec => OwnersThingsStay
<1>1. HubInstallInit => HubInv
  BY HubInitInv
<1>2. HubInv /\ [HubInstallNext]_installerVars => HubInv'
  BY HubStepInv
<1>3. HubInv /\ [HubInstallNext]_installerVars => [StaysOnce]_installerVars
  BY HubStepInv
<1>4. HubInstallSpec => [][StaysOnce]_installerVars
  BY <1>1, <1>2, <1>3, PTL DEF HubInstallSpec
<1>5. QED
  BY <1>4, PTL DEF OwnersThingsStay, StaysOnce
=============================================================================
