# GpuViewR: TLA+ models and proofs

GpuViewR monitors the GPUs of a fleet. A **hub** (`server/`, Node.js and SQLite)
receives samples from **agents** (`agent/`, one process per machine) over
WebSockets the agents open, stores them, evaluates alert rules, feeds exporters
and serves a React dashboard (`src/`) that keeps a live stream open. One hub may
be fed by many agents and one agent may feed several hubs.

This directory holds TLA+ modules of the parts of that system whose difficulty
is in what happens in which order: TLC checks them on small instances, TLAPS
proves the main invariants for every value of the constants. Paths below are
relative to the repository's root.

## 1. Inventory

| Part | State it keeps | Operations | Talks to |
|---|---|---|---|
| Agent transport, `agent/src/transport.ts` | per hub: socket, ring buffer of 3600 frames, `replaying`, reconnect, ping and replay timers, refusal count | enqueue, open, welcome, replay chunk, close by code, reconnect, stop | hub ingest, over one WebSocket per hub |
| Agent bootstrap and collectors, `agent/src/index.ts`, `collectors/` | child processes, forks under way, last readings, caches by pid and by bus id | boot, choose a source, tick, watchdog, respawn, list processes, shutdown | vendor tools and sysfs; calls the transport's enqueue functions |
| LLM settings and names, `routes/llm.ts`, `llmConfig.ts`, `LlmSettings.tsx`, `llmProbe.ts`, `ollamaManifests.ts`, `llmClassifier.ts` | settings at the hub, config per hub at the agent, indices of manifests, answers of servers | edit and save, push a frame, poll, resolve a name | page, hub, agent, local LLM servers |
| Hub ingest, `server/services/agentIngestWS.ts` | `liveAgentSockets`, per-socket rate window and throttle, push cooldowns | handshake (awaits bcrypt), frames, close, push of LLM settings, disconnect | hosts table, metrics bus, agents |
| Host registry, `routes/hosts.ts`, `models/Host.ts`, `hostsWatchdog.ts` | the `hosts` table | enroll, patch, rotate token, delete, watchdog | ingest (`disconnectAgent`), bus (`host_status`) |
| Host tokens, the same routes, `HostsSettingsTab.tsx`, `EnrollHostModal.tsx` | the hash in the row, the token in the one dialog that shows it, the token an agent is installed with | enroll, rotate, delete, close the dialog, install | several admins, handshakes |
| Agent update, ingest, `agentUpdateScheduler.ts`, transport, `install.ps1.tpl` | cooldown in memory and in the row, the agent's bundle file | push at hello, on schedule, forced; verify, swap, exit, launcher | both sides of the socket |
| Installers, `agent/install.*.tpl`, `install-agent.sh`, `install.sh`, `agentDistribution.ts` | files, units, tasks and containers of a machine | install, upgrade, uninstall; cut at any step | the dialogs' commands, the service manager |
| Update check, `updateService.ts`, `updateStore.ts` | cached result, background check, a tab's banner | check, peek, settings | GitHub, the image registry |
| Metrics bus and persistor, `_metricsBus.ts`, `agentMetricsPersistor.ts` | latest sample per host, rows waiting for the minute flush | emit, upsert device, buffer, flush, prune | all consumers of samples |
| Process store and history, `agentProcessStore.ts`, `processHistory.ts` | last snapshot per host, minute buckets | set, get with a time-to-live, record, flush | bus |
| Alerts, `alertService.ts`, `models/Alert.ts`, `routes/alerts.ts` | rules and events in the database, rule cache, `RuleState` per rule and series | evaluate a sample, edit rules, restart | bus, browser streams, webhook |
| Alerts page, `AlertsPage.tsx` | rows as of the last load, a form, the presets dialog | switch, save, install, delete, reload | alert routes, other admins |
| Chart thresholds, `chartThresholds.ts`, `thresholdsStore.ts` | one document; a copy in every tab | load, seed, edit, delayed write of the whole | tabs of several admins |
| Exporters, `exportService.ts`, `ExportsSettings.tsx`, `atRestCrypto.ts` | settings with sealed secrets, MQTT client, intervals, latest samples; the page's draft | apply settings, publish, announce to Home Assistant, push, scrape; edit, save, test | bus, alert events, brokers |
| Accounts, `authService.ts`, `models/User.ts`, `routes/auth.ts` | the `users` table with `token_version` | register, login, change password or name, verify | every route, browser streams |
| Browser streams, `gpuStreamWS.ts` | per socket: token, listeners, recheck timer | open, recheck, close on revocation | bus, accounts |
| Browser session, `src/lib/api.ts`, `useGpuStream.ts`, `authStore.ts` | token in `localStorage` and in each tab | stream with reconnects, polls, 401 handling | accounts, streams |
| Browser stores, `hostsStore.ts`, `gpuStore.ts` | hosts, latest samples, series | poll, event, edit | routes, stream |
| Database schema, `connection.ts` | tables and their columns | idempotent migrations at boot | all repositories |
| Others: public API, MCP, access settings, statistics, demo, UI | listed in `PROJECT.json` with the reason each is left out | | |

**What makes it hard.** Node runs one handler at a time, so the interesting
interleavings are those of handlers around an `await` (bcrypt in the handshake
and in every account operation, HTTP in the browser) and of timers with socket
events that belong to an older socket. Three kinds of processes stop and start
independently (hub, agents, tabs). Sockets close in two steps: `close()` and,
later, the `close` event, with frames still delivered in between. Several facts
are kept twice, in memory and in the database, with throttles or caches between
them. `PROJECT.json` lists under `hazards` the line
where each of these bites and the properties that would catch it.

**What makes each part correct.**

* transport: no frame sent twice, order kept after the welcome, loss only when
  the ring overflows, a hub always has a way forward, a session's own replay
  keeps under the hub's rate limit as long as its frames are delayed by less than the
  spacing of the chunks exceeds the hub's window;
* ingest: one session per host and it is the registered one, a disabled host has
  none, the status column tells who was heard of lately;
* update: `agent.mjs` is always a whole bundle, pushes keep a cooldown across
  restarts, an agent that can be updated is;
* alerts: firing and resolved events alternate, repeats keep the cooldown, an
  event follows the rules stored at that moment, the threshold was crossed for
  the whole duration;
* accounts: a session that is accepted was earned with the present password, a
  refused one stays refused, one admin, streams of revoked sessions end;
* browser session: a revoked tab leaves, without a loop, and a valid one has its
  stream again and again;
* browser stores: one poll at a time and always a next one, charts of the
  selected host, a list that is the hub's in the end;
* tokens: the token a dialog shows opens the hub;
* agent: one child and one refused read per process and scan, samples in the end
  unless a child without a watchdog falls silent, rows that are of the process and the card they say;
* LLM: a name was at some time that of the very model, settings arrive;
* installers: what runs afterwards has the identity the last script was given,
  and no decision or secret of the owner is taken back;
* update check: a tab whose pages are opened again and again learns of the release
  and its image in the end;
* alerts page, thresholds: a page whose rows are old brings nothing back that
  another admin has set and its user has not asked for;
* exporters: what leaves follows the settings as stored, the page's boxes and
  masks mean what is sent and stored, an exporter that is on goes on;
* database: no boot, cut off where it may be, loses a row or gives it to another
  host, and every stored row has its card in `gpu_devices`;
* MQTT: what reaches the broker follows the settings as they are, and a lasting
  connection has its announcement.

## 2. Modules

In the order they were written, the agent's link and the hub's ingest first
because everything else hangs on them.

| Module | Models | Uses | Proofs |
|---|---|---|---|
| `AgentTransport` | the agent's side of the connection, for any set of hubs | | `Agent_proofs` |
| `ReplayPacing` | the same for one hub with clocks, frames that arrive late, and the hub's rate window | extends `AgentTransport` | `Agent_proofs` |
| `HostSessions` | abstract: one session per host, none while barred | | |
| `HostIngest` | sockets, registry and `hosts` rows of the hub | implements `HostSessions` | `HostIngest_proofs` |
| `AgentUpdate` | the update of one agent, both sides of the socket | | `Updates_proofs` |
| `AlertEvaluator` | rules, cache, `RuleState`, events | | `Alerts_proofs` |
| `Accounts` | users, requests around their awaits, tokens, streams | | `Database_proofs` |
| `BrowserSessions` | tabs of one browser: stored and in-memory token, stream, polls | | |
| `SchemaMigration` | the boot's statements on a database of any version | | `Database_proofs` |
| `MetricsStore` | samples, flush, retention and purge over those boots | extends `SchemaMigration` | `Database_proofs` |
| `HostsStore` | one tab's list of hosts, its poll, its requests and its charts | | `Hosts_proofs` |
| `MqttExport` | the MQTT client, its timers and the announcement | | `Exports_proofs` |
| `FdinfoScan` | the scan of the processes' fdinfo, a state of its own for each collector that scans | | `Agent_proofs` |
| `GpuSource` | where an agent's samples come from: children, forks, sysfs | extends `FdinfoScan` | `Agent_proofs` |
| `ProcessList` | its list of GPU processes and the caches behind it | extends `GpuSource` | `Agent_proofs` |
| `AgentRuntime` | the agent as a process: environment, choice, start, stop | extends `ProcessList` | `Agent_proofs` |
| `LlmNames` | how a GPU process gets the name of its model | | `LlmSettings_proofs` |
| `LlmSettings` | the settings from the page to the agent | extends `LlmNames` | `LlmSettings_proofs` |
| `AgentInstall` | the four agent installers and what they leave | | `Updates_proofs` |
| `HubInstall` | the hub's installer, run over its former runs | | `Updates_proofs` |
| `UpdateCheck` | the hub's release check and a tab's banner | | |
| `AlertsPage` | an admin's page, the alert routes, another admin | | `Alerts_proofs` |
| `ChartThresholds` | the document and the tabs' copies | | `Alerts_proofs` |
| `HostTokens` | tokens from the dialogs to the handshakes | | `Hosts_proofs` |
| `HostGpuFilter` | the operators of the exporters' filter | | `Exports_proofs` |
| `ExportSlots` | one exporter other than MQTT, settings and pushes | extends `HostGpuFilter` | `Exports_proofs` |
| `ExportsPage` | the page that edits and tests it | extends `ExportSlots` | `Exports_proofs` |

`ReplayPacing` composes the two ends of the socket: each of its actions is one
of `AgentTransport` conjoined with the clocks, or one of the hub's end and of the wire.
`MetricsStore` composes the writer with the schema's boots, `AgentRuntime` the
process with its two collectors, `LlmSettings` page, hub and agent,
`ExportsPage` page and exporter. The other modules meet at an interface each
describes in its header (a token's version in `Accounts` and `BrowserSessions`, a
`host_status` event in `HostIngest` and `HostsStore`).

`MCLink`, `MCAgentRuntime`, `MCLlmSettings`, `MCAlerts`, `MCUpdates`,
`MCDatabase`, `MCHosts` and `MCExports` only instantiate them for TLC. Where one
of these takes several modules that share no state, its `part` (in `MCExports`,
the kind of the exporter) chooses one in the initial state and the others stay as
they are: the states are those of the modules one after the other, never their
product, and each property is about its own module.

## 3. How the modules correspond to the code

The row-by-row correspondence is `map` in `PROJECT.json`. An action is a whole
handler; a handler that awaits is one action per stretch between two awaits.

**AgentTransport** (`agent/src/transport.ts`). `ws`, `buffer`, `replaying`,
`authFailures` and the four timers are the fields of `HubConnection`. `Broadcast`
is one frame of a collector given to every hub; a frame is its number. `drains`
counts the pending `drainChunk` timeouts and `replayTimer` says whether the
newest one is the one the field holds: the close handler forgets the timeout
without clearing it, so a second may be armed beside it. `wire` is what the
present session has had since its welcome, `sent` what was ever given to a
socket. Delays are kept only as the back-off's exponent.

**ReplayPacing**. Timers fire exactly on time; a frame is counted when it reaches
the hub, up to `MaxDelay` ticks after it was handed to the socket, which stands for
the network and both event loops. Frames handed over at one instant travel together
and none overtakes another. The hub's window (`messageWindow`) holds what arrived in
the last `WindowTicks`: hello, pings, chunks and what each of the `Collectors` sends
(every `LivePeriod`; the processes' collector is slower, which is less). `hubEnd` is
the hub's end of the socket: what arrives before its message handler is attached is
not counted, and a close it asks for reaches the agent as a step of its own
(`RateLimitClosed`), until which the agent sends to nobody. Each pending drain
timeout in `drainIn` says whether it is `stale`, armed by the replay of an earlier
session. The run keeps the order of the code's times and not their ratio: a reconnect
(2 to 3 ticks) comes before the next chunk (4), the window (2) and the delay (1)
together are shorter than the chunks' spacing, and the limit (5) has room for hello,
a ping, a chunk of 2 and a live frame.

**HostIngest** (`agentIngestWS.ts`, `routes/hosts.ts`, `Host.ts`,
`hostsWatchdog.ts`). `Connect` reads the row and starts bcrypt, `CheckDone` is
the rest of the handshake with the row read before, `DropWhileChecking` a socket
that dies meanwhile, `Frame` the message handler with its throttled `markSeen`,
`Closed` the close handler, which comes after `closing`. `lag` is the age of
`last_seen`, `quiet` the age of the last frame taken: the watchdog knows only
the first. Token values are left out, a token matches or it does not (`good`).

**AgentUpdate**. `hubVer`, `known` (`agent_version` in the row), `pushedMem` and
`pushedDb` (the two places the cooldown is kept) on the hub; `run`, `disk`
(`agent.mjs`), `staged` (`agent.mjs.new`, or `.pending` on Windows) on the agent;
`session`, `hello`, `push` between them. `StageUpdate` is the moment the file is
open and not whole, `FinishUpdate` the rename or, on Windows, the file left for
the launcher, which `Start` moves into place.

**AlertEvaluator**. `states` is the map of `RuleState`s, stored instants as ages
capped where the code stops telling them apart; `cache`/`hot` the rules' cache,
which a `Tick` may end; `over` whether the measured value crosses the threshold.
`Sample(S)` evaluates every rule against one event that carries the series `S`.

**Accounts**. `request[r]` is what a request holds across its `bcrypt` await: the
row it read and the session it came with. `Register`/`Registered`,
`Login`/`SignedIn`, `ChangePassword`/`PasswordChecked`/`PasswordChanged` are its
stretches (the last has two awaits), `Refused` any early return. A token is the
account and its `token_version`; `proved` is the password it was earned with.
`ResetPassword` and `DeleteAccount` are other writers of the database file.

**BrowserSessions**. `saved` is `localStorage`, `held[t]` the store of tab `t`,
`stream[t]` where `useGpuStream` has got to. The hub's answer and its arrival in
the tab are two steps, with other tabs in between.

**SchemaMigration, MetricsStore**. `pc` is the statement the boot has come to,
`tx` an open transaction, `db` the last commit, `safe` an earlier commit that a
power cut gives back (`synchronous = NORMAL`). `Init` takes the database of every
earlier version. `buffer`/`upserted` are the persistor's memory, `Sample` one
reading, `Flush` the minute's transaction, `Prune` the retention or a purge.

**HostsStore**. `calls` are the requests in flight, each first served by the hub
(`Serve`) and later answered (`Answered`), `events` the stream's `host_status`
frames, `loop` the state of `pollWhileVisible`, `shown` whose bucket the charts
draw and whether it is the present one.

**MqttExport**. `timers` and `retries` hold the configuration their closures were
made with, `closing` an ended client whose `close` event is still to come. The
mqtt library is modelled from how it is used (marked external in `map`): it
reconnects by itself, says `close` for every connection or attempt that ended,
and keeps what is published while it is not connected. `wire` is what reached the
broker in the last step, `told` the cards announced over the present connection.

**AgentRuntime, GpuSource, ProcessList** (`agent/src/index.ts`, `config.ts`,
`mock.ts`, `collectors/`). A scenario is a machine and the environment of its
agent; a card is its bus id, a sample the name the reader gives it and the set of
metrics it has, not their values. `stream` is the long-lived child the source
holds, `spare` counts children it no longer holds and that still run: the
watchdog (`Watched`, `Replaced`) leaves a killed one whose `close` comes later
(`StaleCloses`). `reading` is a fork or sysfs read under way, of which the code
allows one. The sysfs readers see a family once its driver is bound (`Sysfs`), and
only such cards are held by a process (`Usable`). A process is a pid with its kind and its number, so that a pid used
again is another process; `Scanned`, `Recount` and `StillThere` are the caches
kept by pid. An Intel
machine that lists processes scans twice, with a state for each collector
(`gpuIntel.ts:166`, `processesRocm.ts:161`): `Scanners`, and `refusals` counts the
refused reads each process has caused each of them. A child may hang, of whatever
kind (`ChildHangs`): nvidia-smi is replaced by the watchdog, powershell and
powermetrics are not.

**LlmNames, LlmSettings** (`llmClassifier.ts`, `llmProbe.ts`,
`ollamaManifests.ts`, `llmConfig.ts`, `routes/llm.ts`, `LlmSettings.tsx`). A
command line is the record of what the classifier looks for. `NamesTick` is the
collector's tick (`enrich` and the polls it starts), `OllamaAnswers`,
`ServedAnswers` and `PollFails` the ends of a poll, each by then possibly about
another server. `hubConfigs` is what each hub sent, merged with the first hub's
settings in front.

**AgentInstall** (`install.sh.tpl`, `install.ps1.tpl`, `install.sh.mac.tpl`,
`install-agent.sh`, `_installCommands.tsx`, `agentDistribution.ts`). One script
runs at a time, `job` is where it has come to; a step that overwrites a file in
place leaves it torn until the next one. `Cut` ends it anywhere. `expected`,
`declined` and `added` remember what was asked for.

**HubInstall** (`install.sh`), **UpdateCheck** (`updateService.ts`,
`routes/updates.ts`, `updateStore.ts`, `UpdateBanner.tsx`,
`UpdateSettings.tsx`). The secrets are numbers, so that one made anew differs.
A check asks for tags and then for the image; `asks` are the checks under way
with what they have heard, `cache` is the row, with its age in hours. `page` is what
the tab shows: the banner and the settings ask once, when they are mounted, and
nothing but its user opens a page (`TabLoads`, `TabLeaves`) or asks by hand
(`CheckNow`).

**AlertsPage, ChartThresholds** (`AlertsPage.tsx`, `routes/alerts.ts`,
`Alert.ts`, `alertFormatter.ts`; `thresholdsStore.ts`, `ThresholdsSettings.tsx`,
`chartThresholds.ts`). A request is handled by the hub in one step and answered
in another, and either may be lost. `theirs`, `blind`, `stale` and `touched` are
history: what another admin set, and what this page's user asked for.

**HostTokens** (`routes/hosts.ts`, `HostsSettingsTab.tsx`, `EnrollHostModal.tsx`,
`agentIngestWS.ts`). A token is its number; `rows[h].hash` is the token the hash
is of. Generating and storing are two steps (`Generate`, `StoreRotated`,
`StoreEnrolled`) with bcrypt in between, as are reading the row and comparing
(`Knock`, `Compared`).

**HostGpuFilter, ExportSlots, ExportsPage** (`exportService.ts`,
`routes/exports.ts`, `routes/metrics.ts`, `atRestCrypto.ts`,
`ExportsSettings.tsx`). `kept` is the row, its secret sealed under a key;
`intervals` hold the settings their closures were made with; `sent` is what left
in the last step: the lines of cards, what goes along of a host (`includeSystemStats`,
`gpuviewr_host_info`) and the secret. `DispatchInfo` is the entry of the panel for
Prometheus and InfluxDB, which names no card; a webhook has none, and that of MQTT,
with its list of topics, is left out. The page's `draft` is edited while `reads` of the settings and
the request `busy` are under way.

## 4. What the runs check

| Run | Bounds | What it shows |
|---|---|---|
| `transport` (`MCLink`) | one hub, ring of 5, chunks of 2, 6 frames, 3 refusals to give up; where time counts, limit 5, delay 0 or 1 tick, one network drop beside the hub's own closes | no frame twice, order after the welcome, loss only by a full ring, no backlog without a replay, one way forward (`LinkSound`); the hub's limit is exceeded only beside a drain loop of an earlier session (`OwnReplayWithinLimit`); drain and reconnect get somewhere and a welcomed hub is not given up (`Progress`); the backlog leaves the buffer for good (`TimedBacklogReplayed`) |
| `agent_runtime` | 36 hosts with their environments, two pids, two processes, one hang or failure | one child and at most one refusal per process and scan (`AgentIsQuiet`); rows of one process and of a card that is sampled (`RowsTrue`); samples and processes keep coming, unless a tool without a watchdog hangs for good (`SamplesAtLast`, `ClientsListed`) |
| `llm_names` | an Ollama and a llama.cpp process, two hubs, three edits, one change, one fault | a name was that model's (`NamesTrue`); settings reach the agent and the names (`SettledAtLast`) |
| `ingest` | one enrolled host and the sidecar's, two sockets | one open session per host, the registered one, as `HostSessions` says (`OneRegisteredSession`); a disabled host stays so and offline means quiet (`StatusHasReasons`); a host shown online is heard of again and again |
| `ingest_disabled_handshake` | one host, one socket | violation, section 7 |
| `alerts` (`MCAlerts`) | one rule, one series, duration 2, cooldown 3, one restart; two rules, three clicks, one foreign change; two tabs, two cards, two edits, one failure | what the event log tells holds (`EventsTrue`), a clear alert resolves; an old page undoes nothing of another admin's, presets are installed once; a saved line moves no other |
| `update` (`MCUpdates`) | versions 0..2, cooldown 2, three faults; three installer runs, one mishap, two keys; three hub installer runs; two releases, frequency 2 h, two turns | `agent.mjs` is whole, pushes are spaced, the host is up to date in the end; what runs is what was installed, no decision is taken back; the hub's secrets and edits stay; a tab whose dashboard is opened again and again learns of a release |
| `database` (`MCDatabase`) | two accounts, one password change each, two requests in flight, one stream; two hosts with two cards, 3 rows, one left by an older version, two crashes or power cuts | sessions are earned with the present password and end with it, accounts are made by an admin or as the first (`SessionsFollowAccounts`); rows survive every boot cut off anywhere and have their devices (`HistoryKept`), every boot gets to a modern schema (`BootsModern`) |
| `tab` | two tabs that may hide, two password changes | a revoked tab in front leaves without a loop, a good one has its stream again |
| `hosts` (`MCHosts`) | one agent beside the local host, two changes, two requests in flight, one fault; one tab, two hosts, one machine, three tokens, two clicks, one lost answer | one poll at a time and always a next one, charts of the selected host, the list is right in the end; the token shown opens |
| `token_rotation` | one host, two tokens | violation, section 7 |
| `mqtt_export` (`MCExports`) | MQTT: two cards, two prefixes, two saves or restarts; the others: two hosts, two fields, two edits, one save, two keys, one restart | writes follow the settings, a lasting connection has its announcement; pushes follow the settings as stored, but for the digest that ignores the filter; secrets and boxes mean what the operator typed and ticked, an exporter that is on goes on |

Why the bounds are enough:

* a ring of 5 with 6 frames overflows, wraps while a replay of 3 chunks runs, and
  leaves room for a stale drain timeout beside the new one, so that the hub's limit is
  exceeded; the closes that follow from the one network drop go on with it; the safety parts are
  proved for all values and any set of hubs, which share no state but the
  frame's number;
* two sockets are a connection and the one that replaces it, with every order of
  their close events; a third adds no relation the registry can express. The two
  hosts are the two kinds the code distinguishes. The ingest's safety is proved
  for any number of each;
* duration 2 and cooldown 3 are the smallest values at which an age can be below,
  at and above each, and neither implies the other;
* three faults are a hub restart, an agent crash and a failed write in one
  history; the fault budget also ends the disturbances that liveness needs ended;
* one password change per account lets a request hold a stale row, and two
  requests race; two accounts are needed for a registration beside a deletion.
  `Requests` and `Passwords` are interchangeable, hence the symmetry, which is
  used with safety only. The proofs cover any number of all of these;
* two tabs and two changes are a tab that is revoked twice while another holds
  each of the tokens;
* two crashes cut off a boot and the boot that repairs it;
* two requests in flight are a poll and an edit or a page's refresh, served and
  answered in every order;
* the hosts of `agent_runtime` are one of each kind the boot tells apart: loop mode
  that works, exits or is silent; a card before and after its driver is bound; each
  fallback of each vendor; samples and processes at once, with AMD cards of which the
  driver is not bound, and with cards of two families. Two pids and two processes are a pid used again beside
  one that stays; one fault is a hang, or a failure, at any point;
* three installer runs are an install, what undoes or repeats it, and one over what
  a cut one left; two keys tell an old identity from a new one;
* three clicks on the alerts page are an open form, a switch and an install that
  overtake one another; one foreign change is enough for the page to be out of date;
* two edits and two tabs are one field saved from a copy that misses another's;
* two clicks and three tokens are a rotation and an enrolment, or two rotations of
  one host under way at a time, since a dialog may be closed while its request runs.

Deadlock is checked in `ingest` and `tab`. In the others the system may stop: the
agent was stopped, every budget of clicks, frames, faults or restarts is used up, or
a run that counts one module has come to the end of it.

## 5. Fairness

Safety is checked and proved without fairness. For liveness each run assumes only
what the code schedules:

* Node fires its timers and delivers the answers and events of sockets that stay
  open: weak fairness of each timer's or answer's action. Nothing is assumed of
  frames from the network, of admins, or of which close code comes;
* the `ws` library ends a closing handshake by itself after a time-out, hence
  fairness of `Closed` for a socket in state "closing" (`transport`, `update`);
* `ReplayPacing` also assumes a hub that is up, accepts and welcomes, whose close
  reaches the agent, and frames that arrive within their longest delay, since its
  property is about what happens after the network's last failure;
* the agent's supervisor (systemd, launchd, the launcher) restarts it (`Start`),
  and `process.exit`, once its timer is due, is reached although turns of the
  event loop with other work come in between: strong fairness of `Exit`;
* an agent behind a series keeps sending readings (`Sample`), which is what an
  alert needs to resolve at all;
* in the browser a stream tried again and again gets an answer in the end, either
  of the two that answer it (strong fairness of `Connected` and `ClosedRefused`,
  whose guards exclude each other), and a visible page polls. None of this is
  assumed of a hidden tab;
* the agent's intervals, polls and respawn timers fire (`SourceFairness`,
  `ProcessFairness`, `NamesFairness`); a child, a server or a tool need never
  answer, and each property says what it excuses: a rocm-smi that never returns, a
  powershell or powermetrics that falls silent, a loop mode that neither prints nor exits;
* a linked hub's frames arrive and a lost link is made again (`LlmSettings`);
* an hour passes and a check under way ends (`UpdateCheck`). The pages have no timer:
  they ask when they are opened, so the property is about a dashboard that its user
  opens again and again. No failing answer is excluded, so it says "while checks stay
  on" and lets the failures run out with the bound on `turns`;
* an exporter's interval fires and the service manager starts a hub that ended
  (`MCExports`);
* a poll of the host list is served and answered or fails, at most `MaxFaults`
  times; no other request need be answered;
* the mqtt library notices a connection that is gone (its keep-alive). It need
  not ever connect.

## 6. Proofs

TLAPS checks the theorems below for every value of the constants, from the
constants' assumptions alone (`...ConstantsOK` in each module: sizes are naturals,
the local host is a host, a table has finitely many rows, the first tags and servers
are of the given models) and from assumptions that a model value for "nothing" is
none of the things it is used beside (`NoneIsNoClient`, `NoTableIsNone`,
`NoneIsNoFile`); the pacing also needs `PacingRoom` (below). A constant's bound (`Max...`) is any natural number, so the runs'
bounds limit nothing that is proved. Every safety property of a passing run has its
theorem.

The proofs of modules that belong together share a file. Each has the same form: an
inductive invariant as a conjunction of named parts, the initial states, one lemma for
an action or a few actions alike, and the temporal step.

**`Agent_proofs`**, of the transport:

* Two invariants per hub. Control (`ConnOK`): which timer
  each socket state allows, that only a welcome starts a replay, that a replay in
  progress has a timeout pending, that a given-up hub or a stopped agent holds no
  socket. Frames (`FrameOK`): buffered frames are at least as far apart as their
  positions, so that the head of a full ring is `BufferMax` older than what pushes
  it out; what is on the wire precedes what is buffered; every frame of this
  process is sent, buffered, or that old. `Delivery` alone is not inductive, order
  on the wire rests on the replay's flag and the flag on the timeouts, stale ones
  included. From them `TypeCorrect`, `DeliveryHolds`, `NeverStuckHolds`, their
  parts and both (`LinkSoundHolds`), and `WelcomedNeverGivesUpHolds`.

of the replay under the hub's limit (`PacedInv`, over both invariants above):

* `OwnReplayWithinLimitHolds`: when the window holds more than the limit, a frame in
  it was sent by a loop of an earlier session. A timeout is a session's own until the
  close makes it stale; there is one at most, only in a welcomed session
  (`OwnOK`). What is on the way or in the window was sent no longer ago than `Reach`, the
  window and the longest delay together (`FramesOK`). The next chunk, ping or live frame
  is a whole period after the last one of its sender (`SpacedOK`), so by the time it is
  sent the frames before have left, and frames and window together never hold more
  than hello, one ping, one chunk of the session's own, and of each collector one frame
  and one more for every `LivePeriod` in `Reach` (`FewOK`); anything beyond is a stale
  loop's. It is proved for every chunk, limit, delay, period and set of
  collectors for which `PacingRoom` holds: chunks and pings are further apart than
  `Reach` (1100 ms against 1000 ms and the delay: a delay below 100 ms), and the limit
  has room for that sum (100 against 52 and the collectors' frames; `TICK_MS` is 1000
  unless the operator sets it, to any positive number). Beyond that delay the code does
  exceed the limit (section 7).

and of the collectors, for any scenarios, pids and kinds of process (`AgentInv`):

* `AgentIsQuietHolds`: a child runs only for a source at work and a respawn waits
  only while there is none (`ChildInv`); what the scan keeps of a pid is about the
  process that runs there, until the scan made after its end (`ScanInv`, a clause for each of the two
  scans), so that a process causes each scan one refused read and no second one, and a
  pid used again is looked at afresh. The CPU sampler's reads of `/proc/<pid>/stat` are
  not counted (section 7). The properties alone are not inductive: a forgotten `denied` or an
  outlived `firstSeen` harms two lists later.
* `RowsTrueHolds`: a pid is counted only while listed, and for the process that runs
  there (`CountInv`). Rows name a card that is sampled because the boot joins a
  collector of processes to a source of the same family (`JoinInv`) and everything
  kept between two lists is of that family (`KeptInv`); `RowsNamed` says it row by
  row, after `UuidsOfSamples` has computed the samples' uuids. It rests on `ProcInv`:
  a card is held only while its driver is bound.

**`HostIngest_proofs`.** What is registered under a host authenticates as it, and an
open socket is registered (`RegistryInv`); `last_seen` trails the last frame by
at most one throttle period, which the socket's age bounds (`QuietInv`). From it
`OpenIsRegistered`, `DisableCuts`, `DisabledIsSticky`, `OfflineOnlyWhenQuiet` for every
threshold, and `Implements`: every step of the hub is one of `HostSessions` or a
stutter. `OneRegisteredSessionHolds` and `StatusHasReasonsHolds` are what the run
checks.

**`Updates_proofs`**

* agent update: the two places that keep the time of the last push, one of
  which a hub restart loses, agree with the time it was made (`TimesAgree`); and away
  from Windows only a whole file is renamed over `agent.mjs`. `PushesSpacedHolds`,
  `BundleIsWholeHolds`;
* hub installer: a run past its first step has a `.env` with both secrets,
  whatever an earlier run left of it (`PastEnv`), a file a first fetch has begun is
  nobody's, and a stack was started with both: `OwnersThingsStayHolds`;
* agent installers (`InstallInv`), for any number of runs, cuts and reboots: what
  the running script has come to, it has done (`JobDone`); an agent has its unit and a
  unit its env file (`Supported`); what is expected is what runs and what the next
  start would read (`AllInstalled`): `AsInstalledHolds`. The operator's choices are in
  the env file or, while that is half written, in what the script is about to append
  (`Carried`), and unless forced a script found no agent of the other mode
  (`Unforced`): `OperatorDecidesHolds`. `Carried` must name the half-written stage: it
  is false of the file alone.

**`Alerts_proofs`**

* evaluation: a usable cache is the stored rules; a firing entry has a
  firing event as the last one of its pair, at least as old as it says; an alert
  forgotten by a restart has been crossed again since; `crossedSince` of an
  unedited rule is no older than the last clear reading. `EventsTrueHolds` joins the
  four properties that follow;
* alerts page, `OthersKeptHolds` (`KeptInv`): what another admin set is in a rule that
  is or was in the table (`TheirsListed`), and a patch under way names only switches
  its user turned, none of them the other admin's (`PatchesSpare`);
* `PresetsOnceHolds` (`OnceInv`): as long as the dialog was opened over rows that
  were the hub's with no request under way, and no answer was lost, no one else
  installed and no form was saved since (otherwise the page is `blind`), one installation is under way at
  most, the dialog waits for it, and what it is to install is not in the table
  (`OneInstall`, `DialogWaits`, `StillNew`). What the dialog knows (`DialogKnows`) must
  speak of the shown rows, of the reads under way and of the boxes ticked, for each of
  them is where the next one comes from. Without "no form was saved" the property is
  false, beyond the clicks of the run: a rule the user saves from the form may be the
  preset's;
* thresholds, `OtherLinesKeptHolds` (`LinesInv`): a tab that is not stale has the
  document but for what its user edited, and so has what it sent (`CopiesAgree`,
  `PutsAgree`).

**`Database_proofs`**

* accounts: every token, and every row a request holds across an await, is
  a snapshot of its account's past: its version is not above the row's, and at the
  same version the password is the same (`TokensArePast`, `RequestsReadPast`). From it
  `AcceptedIsProved`, `RefusedForGood`, `OneAdmin`, `RegistrationCloses`,
  `ChangeCutsStreams`, and the run's `SessionsFollowAccounts`, for any number of
  requests in flight;
* schema (`SchemaInv`): the database, and the earlier commit a power cut would give
  back, are of a form that a sequence of the versions' boots can leave (`Legal`); up to
  its next statement a boot has done what it is to do (`Progress`); an open
  transaction differs from the last commit in the two tables it rebuilds, and at each
  statement those are what they are (`RelaxTx`, `RescopeTx`), so that a cut inside one
  loses nothing. `BootsModernHolds`;
* samples (`StoreInv`): every committed row is still in `gpu_metrics`, a row that waits
  has its card in `gpu_devices`: `HistoryKeptHolds`, for any hosts, cards, numbers of
  rows and of restarts. It needs the schema's invariant, since a boot moves the rows
  through two rebuilt tables.

**`Hosts_proofs`**

* host list: the loop's flags and the requests in flight tell the same
  (`RunIsAPoll`, `LoopOK`): a run is on exactly while one poll is, and a loop that
  was stopped has left neither a timer nor a poll. `OnePoll` does not say the
  second, and without it a loop started anew could find an old poll. For the type of
  the list each answer must fit its request (`AnswersFit`). From it `OnePollHolds`
  and `ShownIsSelectedHolds`, for any hosts and any number of requests in flight;
* tokens, `ShownTokenOpensHolds` (`TokensInv`): a token was generated for the host of
  its request, of its answer and of the dialog that shows it (`HashersOwn`,
  `AnswersStand`, `DialogsStand`), and two hashes under way for one host make rivals of
  both tokens (`HashersAgree`). The last is what makes it inductive: of two rotations
  either may be stored last.

**`Exports_proofs`**

* MQTT: client and interval are always the stored settings' own
  (`ClientAsStored`, `TimerAsStored`), and what a client that is not connected keeps
  is announcements only (`KeepsAnnouncements`), so that connecting late sends no state
  of older settings: `WritesFollowConfigHolds`;
* the others: intervals are of the settings as stored (`IntervalsAsStored`), and what
  leaves was made under the settings of that moment (`MadeUnder`):
  `PushedAsStoredHolds`, which excepts the digest to Discord and Telegram from the
  filter. Every secret on its way between page and row is the mask or
  one that was typed, under every key (`PageAsTyped`, `KeptAsTyped`); and, by the lemmas
  about the filter's operators (`BaselineOK`, `CommitOK`, `ToggleHostOK`, `SetOK`), a box
  that is turned changes what passes for that host or card and for nothing else:
  `AsTheOperatorMeantHolds`, for any finite set of cards.

**`LlmSettings_proofs`**, `NamesTrueHolds` (`NamesInv`): each index, cache and table of
answers holds names that were true at some time (`CachesTrue`), whatever the operator
types and however frames, polls and changed servers overtake each other; the settings
that arrive name only endpoints that were typed (`SettingsOK`), without which a poll's
answer could be filed under a server that is none of the agent's.

Only model-checked: every liveness property (the prover has no rule for fairness
and ENABLED), `OnlineMeansHeard` and those of `BrowserSessions` and `UpdateCheck` among
them. No module uses a RECURSIVE operator.

## 7. Where code and documents part

Two statements have a run that refutes them (`findings` in `PROJECT.json`):

* `DisabledBlocksHandshake` (`ingest_disabled_handshake`): a host disabled while
  its handshake awaits bcrypt is let in with the row read before;
* `RotationDisconnects` (`token_rotation`): "The existing agent will be
  disconnected" (`src/src/i18n/locales/en.json:740`), but rotating stores the hash and leaves the
  agent's open session alone until it ends by itself.

The others are defined at the end of their modules, under a heading that says so,
or named below; put one in the module's cfg in place of the properties there and
TLC shows the behaviour.

* `ReplayThenNormalFlow`, `StopFlushesBuffer` (`AgentTransport`): a frame produced
  between the socket's opening and the welcome overtakes the backlog
  (`Docs/MULTI_HOST_PLAN.md:206`), and stopping drops the buffer instead of
  flushing it (same, line 611).
* `NoTwoChunksShareWindow` (`ReplayPacing`): "1100ms guarantees no two chunks can
  ever share a window, regardless of jitter" (`transport.ts:117`). The hub counts by
  arrival (`agentIngestWS.ts:490`): a chunk that waits 100 ms longer on its way than the
  next one shares the window of 1000 ms with it, and hello and two chunks of 50 are 101
  frames of 100 (`MaxDelay = 2` in `MCLink.cfg` and no drop at all shows it). And without any
  delay, the drain timeout of a replay cut off by a close goes on in the next session
  beside that one's own replay. `OwnReplayWithinLimit` says that nothing else exceeds
  the limit, `TimedBacklogReplayed` that the loop of closes it makes ends.
* `OneDenialPerProcess` (`AgentRuntime`): "What remains is one denial per long-lived
  host process, once, when the agent starts" (`CHANGELOG.md:504`). The Intel samples scan
  with a state of their own (`gpuIntel.ts:166`, 204) beside the process list's, so such a
  process is refused to both; and the CPU sampler reads `/proc/<pid>/stat` of every row
  at every tick, a read that `processesAmdgpuFdinfo.ts:144-146` says is audited.
  `AgentIsQuiet` is therefore per scan, and of the scans only.
* `FreshHubForgets` (`AgentUpdate`): the comment of `lastPushedAtMs` says that it "resets
  on hub restart, which is exactly what we want - a fresh hub means a fresh bundle, so
  re-pushing right away is correct behaviour" (`agentIngestWS.ts:196-198`). The code does
  the opposite, and says so a few lines below (209-223): `bootstrapCooldownFromDb` fills
  the map from the `hosts` table at every boot, so that a restarted hub waits for the rest
  of the cooldown. `PushesSpaced` follows the code and that second comment, against the
  first.
* `FilterRestricts` (`ExportsPage`): "Restrict this exporter to specific hosts (and
  per-host, to specific GPU indices)" (`src/src/i18n/locales/en.json:363`), but the
  digest to Discord and Telegram is of every card of every host
  (`exportService.ts:830`). `PublishedAsTold`: the catalogs "drive both the actual
  publishing code (so we don't drift) AND the dispatch-info panel"
  (`exportService.ts:14-16`), but no catalog has `gpuviewr_host_info`, which every scrape
  carries (1304).
* A socket that dies during bcrypt is registered all the same, without the
  handlers that would un-register it (`agentIngestWS.ts:467`); and `markSeen`
  turns a host the watchdog had marked offline online again with no event
  (`Docs/MULTI_HOST_PLAN.md:333`). Both are behaviours of `HostIngest`.
* `SustainedAlways` (`AlertEvaluator`): `crossedSince` survives edits of the rule,
  so an edited rule may fire on a crossing it did not watch (`Alert.ts:23`).
* `BundleIsWhole` with `Windows = TRUE` (`AgentUpdate`): the launcher moves a
  pending file into place whatever it holds (`install.ps1.tpl:310`, against
  `Docs/REMOTE_HOSTS.md:119`). `RecordedIsSent`: a push dropped on a closing socket is
  recorded all the same (`agentUpdateScheduler.ts:18`). `PushedToOlder`: an agent
  that has just reconnected, and whose hello is on its way, is pushed the bundle
  it runs (`Docs/REMOTE_HOSTS.md:117`).
* `CurrentPasswordMatched` (`Accounts`): of two password changes in flight both
  succeed, the second against a password that is no longer the account's
  (`authService.ts:110`).
* `SentAwayOnlyIfRevoked` (`BrowserSessions`): the late 401 of an old token sends a
  tab with a good one to the login page (`api.ts:25`, against `CHANGELOG.md:88`).
  `RevokedTabLeaves` and `NoRefusalLoop` carry their conditions because without
  them they fail: a hidden tab does not poll, and then goes round
  refused - asking - connecting (`useGpuStream.ts:135`); and a tab beside another
  that logged in anew, or out, stays where it is with its stream given up
  (`api.ts:24`, `useGpuStream.ts:138`).
* `HostsStore`: the list may be wrong until the next poll. An older answer brings a
  deleted host back or undoes the tab's own rename (`hostsStore.ts:148`), and a
  poll that overtakes the answer to an enrolment leaves the host twice. `CatchesUp`
  says that this ends.
* `AnnouncedAsStored` (`MqttExport`): a retry keeps the configuration it was set
  with and announces a prefix that has changed since, or although announcing was
  switched off (`exportService.ts:682`, comment 694-696).

Properties defined in a module for which no run has room, checked once by hand:

* `NewRuleAsChosen` (`AlertsPage`): POST tests the switches with `=== false` and the
  form sends numbers, so a new rule's switches that are off are stored on
  (`server/routes/alerts.ts:41`, against `CHANGELOG.md:3618`).
* `SameWords` (`AlertsPage`): a notification says "above" for a "below" rule at
  equality (`alertFormatter.ts:7`).

What else was met while reading, by part:

* **Alerts page.** Save has no guard while it is under way (a double submit makes two
  rules) and its answer closes whatever form is open; a form's PATCH sends the row as
  of its opening; an empty threshold becomes null, which POST refuses and PATCH stores
  as 0; two overlapping reloads may show the older rules.
* **Thresholds.** A tab that writes before its load is answered, or after it failed,
  writes `gpus: {}` over every override; between two tabs the last writer wins; a
  value above 10000 makes every later write refused while the tab keeps it; edits made
  before the load's answer are overwritten (`CHANGELOG.md:271`, "nothing is lost").
* **Tokens.** Rotating a host that is deleted meanwhile answers a token that opens
  nothing; losing the answer, or closing the dialog, loses the new token while the old
  one is dead; a deletion's answer closes whatever delete dialog is open
  (`HostsSettingsTab.tsx:996`).
* **Agent.** A powershell or powermetrics that falls silent without exiting has no
  watchdog (`_psLoop.ts:29-66`, `gpuMacosPowermetrics.ts:212-250`) and ends the samples, or
  the rows of processes, for as long as the agent runs: `SamplesAtLast` and
  `ClientsListed` except it. A loop mode that neither prints nor exits is replaced for ever and never
  leads to forks (`gpu.ts:82`); counters are kept by pid, a process with a pid used
  again is told apart only by what the scan sees in between; an Intel list that was
  empty at first is kept; a tool that hangs freezes the process list. A failed
  `/api/show` is cached as "no digest"; polls of both kinds share one table of times.
* **LLM page.** A read that failed or came late leaves the form of the host before.
* **Exporters.** The announcement to
  Home Assistant ignores the filter as the digest does; it names the cards that have a
  sample at that moment (`exportService.ts:726`; `EachGpuAppears` of `MqttExport`);
  switching the last host off leaves the empty filter, which is everything, and
  "None" of the fields is all of them; a failed webhook push of metrics is an
  unhandled rejection, which ends the hub's process; Test takes any run of bullets
  for the mask, Save only four; the answer of a PUT holds the secrets in the clear;
  after a change of key, saving any exporter erases the secrets of the others.
* **Installers.** curl writes straight over the bundle that runs; the env file is
  rewritten in place, and a cut there loses the operator's lines, so that a later
  upgrade grants what `--no-ptrace` had declined (`ChoicesKept` says "unless cut
  there"); the Docker script keeps an existing `.env`, so a rotated token does not
  arrive (`install-agent.sh:215`); the hub's installer leaves the profile of a card
  that is gone, and a torn compose file of a first fetch that was cut.
* **Update check.** A failure and "image not ready" are cached for the whole period,
  and an open tab keeps its banner until it is mounted again.

**What the properties do not say.** `NamesTrue` speaks of names that were true at some
time: a pid or port used again that still carries the former name does not break it.
`ResolvesWhenClear` asks for samples that carry the metric; `OtherLinesKept`, `PresetsOnce`
and `ShownTokenOpens` except copies, rows and rotations that another admin's have
overtaken; `BundleIsWhole` is checked and proved for the rename in place, not for the
launcher of Windows; `BootsModern` leaves out the two ALTERs of `Alert.ts` (94-101).

## 8. Not modelled

`PROJECT.json` gives the reason for each part. In short: process snapshots and
history, the public API, MCP, access settings and the rejected-attempts ledger are
one handler around one value each; formats, units and layouts (parsers, payloads,
pages) are conversions that keep nothing; demo data and mock agents are no part of an
installation; statistics and the log ring are library calls. Within the modelled
parts: the points of a series, the values of readings, the text of messages and
command lines, the rejected-attempts table, the version column and its force button
of the hosts page, and the LLM form's test of an endpoint.

## 9. Plan

Done: the modules of section 2. What would come next:

1. proofs: step properties of the agent's choice of a source, and of the list of hosts
   between two polls;
2. `ProcessHistory`, into `MetricsStore`: the snapshot with its time-to-live and
   the minute buckets, which unlike the cards' rows are not flushed at shutdown;
3. `TabAndHub`: `Accounts` and `BrowserSessions` composed, the hub's table in place
   of `ver`, and `HostTokens` over `HostIngest`.

## 10. Running it

`tlc -config <run>.cfg <Module>` for a run, `tlapm <Module>_proofs.tla` for the
proofs of a module. Each property of a passing run has a mutant in
`PROJECT.json`: a definition, and the form a plausible bug would give it, under
which TLC finds the property violated.
