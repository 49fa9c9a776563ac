------------------------------ MODULE HostIngest ------------------------------
(***************************************************************************)
(* The hub's side of the agents: the hosts table, the handshake with its   *)
(* wait on bcrypt, the registry of live sockets, the message and close     *)
(* handlers, the admin's REST calls and the watchdog.                      *)
(* Sources: server/services/agentIngestWS.ts, server/services/             *)
(* hostsWatchdog.ts, server/routes/hosts.ts, server/database/models/       *)
(* Host.ts.                                                                *)
(*                                                                         *)
(* Node runs one handler at a time, so every action is a handler run to    *)
(* completion; only the handshake is cut in two by its await.  A tick is   *)
(* the throttle's second, and OfflineAfter stands for the 30 s threshold.  *)
(* The session's payload is left out: pushed updates are module            *)
(* AgentUpdate, the agent's side is module AgentTransport.                 *)
(***************************************************************************)
EXTENDS Integers, FiniteSets

CONSTANTS
  Hosts,          \* host ids
  LocalHosts,     \* LOCAL_HOST_ID, when the hub has a sidecar agent
  Conns,          \* agent sockets; one that is gone stands for the next
  None,           \* no socket
  PatchStatuses,  \* the statuses admins PATCH
  OfflineAfter,   \* OFFLINE_THRESHOLD_S, in ticks
  RateLimit       \* RATE_LIMIT_PER_SEC

Statuses == {"pending", "online", "offline", "disabled"}

ASSUME IngestConstantsOK ==
  /\ LocalHosts \subseteq Hosts
  /\ None \notin Conns
  /\ PatchStatuses \subseteq Statuses
  /\ OfflineAfter \in Nat \ {0}
  /\ RateLimit \in Nat \ {0}

VARIABLES
  status,    \* hosts.status; "absent" before the row exists, "deleted" after
  lag,       \* ticks since hosts.last_seen, up to OfflineAfter + 1; -1 when it is NULL
  shown,     \* the last host_status event of the host on the bus, "none" after a boot
  live,      \* liveAgentSockets
  phase,     \* each socket: "gone", "checking" (bcrypt at work), "dropped" (closed by the
             \* agent meanwhile), "open" or "closing" (handlers attached)
  claim,     \* the host the socket authenticates as
  good,      \* while checking: the token matches the hash read when the handshake began
  age,       \* while attached: ticks since lastSeenWroteAt, up to 2
  window,    \* while attached: frames counted by the rate limit in this second
  quiet      \* history: ticks since the hub last took a frame of the host

hostVars == <<status, lag, shown>>
sockVars == <<phase, claim, good, age, window>>
vars == <<hostVars, live, sockVars, quiet>>

NULL == -1
Long == OfflineAfter + 1
Exists(h) == status[h] \in Statuses
Attached(c) == phase[c] \in {"open", "closing"}

Init ==
  /\ status = [h \in Hosts |-> "absent"]
  /\ lag = [h \in Hosts |-> NULL]
  /\ shown = [h \in Hosts |-> "none"]
  /\ live = [h \in Hosts |-> None]
  /\ phase = [c \in Conns |-> "gone"]
  /\ claim \in [Conns -> Hosts]
  /\ good = [c \in Conns |-> FALSE]
  /\ age = [c \in Conns |-> 0]
  /\ window = [c \in Conns |-> 0]
  /\ quiet = [h \in Hosts |-> Long]

------------------------------------------------------------------------------
(* HostsRepo.markSeen on a row of status s: only these two become online.   *)
MarkSeen_Any(s) == IF s \in Statuses THEN "online" ELSE s
MarkSeen(s) == IF s \in {"offline", "pending"} THEN "online" ELSE s

SeenAt(h) == [lag EXCEPT ![h] = IF Exists(h) THEN 0 ELSE @]

(* Every socket after c is admitted for h: the previous one is told to go.  *)
Evict_None(h, c) == {}
Evict(h, c) == {p \in Conns \ {c} : p = live[h] /\ phase[p] = "open"}

(* The accepting half of handleConnection, for a row of status s.  A socket *)
(* the agent has closed meanwhile is registered all the same.               *)
Admit(h, c, s, to) ==
  /\ phase' = [p \in Conns |-> IF p = c THEN to ELSE IF p \in Evict(h, c) THEN "closing" ELSE phase[p]]
  /\ live' = [live EXCEPT ![h] = c]
  /\ status' = [status EXCEPT ![h] = MarkSeen(s)]
  /\ lag' = [lag EXCEPT ![h] = IF s \in Statuses THEN 0 ELSE @]
  /\ shown' = [shown EXCEPT ![h] = "online"]

Unused(c) == phase[c] = "gone" /\ \A h \in Hosts : live[h] # c

(* An enrolled agent's upgrade request: the row is read before the await.   *)
(* A refused socket (4001, or 4003 when disabled) never gets a handler.     *)
Connect(c, h) ==
  /\ Unused(c) /\ h \notin LocalHosts
  /\ Exists(h) /\ status[h] # "disabled"
  /\ phase' = [phase EXCEPT ![c] = "checking"]
  /\ claim' = [claim EXCEPT ![c] = h]
  /\ \E match \in BOOLEAN : good' = [good EXCEPT ![c] = match]
  /\ UNCHANGED <<hostVars, live, age, window, quiet>>

(* bcrypt answers: the row is not read again.                               *)
CheckDone(c) ==
  /\ phase[c] \in {"checking", "dropped"}
  /\ IF good[c]
       THEN Admit(claim[c], c, status[claim[c]], IF phase[c] = "checking" THEN "open" ELSE "gone")
       ELSE /\ phase' = [phase EXCEPT ![c] = "gone"]
            /\ UNCHANGED <<hostVars, live>>
  /\ good' = [good EXCEPT ![c] = FALSE]
  /\ UNCHANGED <<claim, age, window, quiet>>

(* The sidecar agent: a plain comparison, and its row is made on the way.   *)
ConnectLocal(c, h) ==
  /\ Unused(c) /\ h \in LocalHosts
  /\ claim' = [claim EXCEPT ![c] = h]
  /\ Admit(h, c, IF Exists(h) THEN status[h] ELSE "online", "open")
  /\ UNCHANGED <<good, age, window, quiet>>

(* The agent goes away while bcrypt is at work: nobody listens to 'close'.  *)
DropWhileChecking(c) ==
  /\ phase[c] = "checking"
  /\ phase' = [phase EXCEPT ![c] = "dropped"]
  /\ UNCHANGED <<hostVars, live, claim, good, age, window, quiet>>

------------------------------------------------------------------------------
(* The markSeen throttle: now - lastSeenWroteAt > 1000, in whole ticks.     *)
Marks(a) == CASE a = 0 -> {FALSE} [] a = 1 -> BOOLEAN [] OTHER -> {TRUE}

OverLimit(c) == window[c] = RateLimit

(* The message handler; a closing socket still delivers what is in flight.  *)
(* A frame that does not parse is counted by the window and nothing else.   *)
Frame(c) ==
  LET h == claim[c] IN
  /\ Attached(c)
  /\ ~OverLimit(c)
  /\ window' = [window EXCEPT ![c] = @ + 1]
  /\ \E parses \in BOOLEAN, marks \in Marks(age[c]) :
       /\ quiet' = IF parses THEN [quiet EXCEPT ![h] = 0] ELSE quiet
       /\ IF parses /\ marks
            THEN /\ status' = [status EXCEPT ![h] = MarkSeen(@)]
                 /\ lag' = SeenAt(h)
                 /\ age' = [age EXCEPT ![c] = 0]
            ELSE UNCHANGED <<status, lag, age>>
  /\ UNCHANGED <<shown, live, phase, claim, good>>

(* One frame too many in the window: dropped, and the socket closed (1008). *)
RateLimited(c) ==
  /\ Attached(c)
  /\ OverLimit(c)
  /\ phase' = [phase EXCEPT ![c] = "closing"]
  /\ UNCHANGED <<hostVars, live, claim, good, age, window, quiet>>

(* The close handler leaves a registry slot that a newer socket has taken.  *)
Unregistered(c) == [live EXCEPT ![claim[c]] = IF @ = c THEN None ELSE @]

Closed(c) ==
  /\ Attached(c)
  /\ phase' = [phase EXCEPT ![c] = "gone"]
  /\ live' = Unregistered(c)
  /\ age' = [age EXCEPT ![c] = 0]
  /\ window' = [window EXCEPT ![c] = 0]
  /\ UNCHANGED <<hostVars, claim, good, quiet>>

------------------------------------------------------------------------------
(* POST /api/hosts.                                                         *)
Enroll(h) ==
  /\ status[h] = "absent" /\ h \notin LocalHosts
  /\ status' = [status EXCEPT ![h] = "pending"]
  /\ UNCHANGED <<lag, shown, live, sockVars, quiet>>

(* disconnectAgent: the registered socket, if it is open.                   *)
Cut(h) == {c \in Conns : c = live[h] /\ phase[c] = "open"}

(* PATCH /api/hosts/:id with a status.                                      *)
Patch(h, s) ==
  /\ Exists(h) /\ h \notin LocalHosts
  /\ status' = [status EXCEPT ![h] = s]
  /\ shown' = [shown EXCEPT ![h] = s]
  /\ phase' = [c \in Conns |-> IF s = "disabled" /\ c \in Cut(h) THEN "closing" ELSE phase[c]]
  /\ UNCHANGED <<lag, live, claim, good, age, window, quiet>>

(* DELETE /api/hosts/:id: the row goes, the session stays.  Enrolment draws *)
(* a fresh id, so the id never comes back.                                  *)
Delete(h) ==
  /\ Exists(h) /\ h \notin LocalHosts
  /\ status' = [status EXCEPT ![h] = "deleted"]
  /\ UNCHANGED <<lag, shown, live, sockVars, quiet>>

(* The watchdog's interval: every row in one turn.                          *)
Stale_Unconnected(h) == status[h] = "online" /\ lag[h] > OfflineAfter /\ live[h] = None
Stale(h) == status[h] = "online" /\ lag[h] > OfflineAfter

Watchdog ==
  /\ \E h \in Hosts : Stale(h)
  /\ status' = [h \in Hosts |-> IF Stale(h) THEN "offline" ELSE status[h]]
  /\ shown' = [h \in Hosts |-> IF Stale(h) THEN "offline" ELSE shown[h]]
  /\ UNCHANGED <<lag, live, sockVars, quiet>>

(* The hub restarts: the table survives, sockets and handlers do not.       *)
HubRestart ==
  /\ live' = [h \in Hosts |-> None]
  /\ phase' = [c \in Conns |-> "gone"]
  /\ shown' = [h \in Hosts |-> "none"]
  /\ good' = [c \in Conns |-> FALSE]
  /\ age' = [c \in Conns |-> 0]
  /\ window' = [c \in Conns |-> 0]
  /\ UNCHANGED <<status, lag, claim, quiet>>

(* A second passes.                                                         *)
Tick ==
  /\ lag' = [h \in Hosts |-> IF lag[h] \in 0..OfflineAfter THEN lag[h] + 1 ELSE lag[h]]
  /\ quiet' = [h \in Hosts |-> IF quiet[h] \in 0..OfflineAfter THEN quiet[h] + 1 ELSE quiet[h]]
  /\ age' = [c \in Conns |-> IF Attached(c) /\ age[c] < 2 THEN age[c] + 1 ELSE age[c]]
  /\ window' = [c \in Conns |-> 0]
  /\ UNCHANGED <<status, shown, live, phase, claim, good>>

SocketNext(c) ==
  \/ \E h \in Hosts : Connect(c, h) \/ ConnectLocal(c, h)
  \/ CheckDone(c) \/ DropWhileChecking(c) \/ Frame(c) \/ RateLimited(c) \/ Closed(c)

HostNext(h) == Enroll(h) \/ Delete(h) \/ \E s \in PatchStatuses : Patch(h, s)

Next ==
  \/ \E c \in Conns : SocketNext(c)
  \/ \E h \in Hosts : HostNext(h)
  \/ Watchdog \/ HubRestart \/ Tick

Spec == Init /\ [][Next]_vars

(* Both are intervals of a running process.                                 *)
FairSpec == Spec /\ WF_vars(Watchdog) /\ WF_vars(Tick)

------------------------------------------------------------------------------
TypeOK ==
  /\ status \in [Hosts -> Statuses \cup {"absent", "deleted"}]
  /\ lag \in [Hosts -> -1..Long]
  /\ shown \in [Hosts -> Statuses \cup {"none"}]
  /\ live \in [Hosts -> Conns \cup {None}]
  /\ phase \in [Conns -> {"gone", "checking", "dropped", "open", "closing"}]
  /\ claim \in [Conns -> Hosts]
  /\ good \in [Conns -> BOOLEAN]
  /\ age \in [Conns -> 0..2]
  /\ window \in [Conns -> 0..RateLimit]
  /\ quiet \in [Hosts -> 0..Long]

(* Whatever the order of reconnects, late close events and evictions, an    *)
(* open session is the registered one of its host: there is at most one,    *)
(* and pushes, force-updates and disconnects reach it (handleConnection,    *)
(* agentIngestWS.ts:459-467 and 519-529).                                   *)
OpenIsRegistered == \A c \in Conns : phase[c] = "open" => live[claim[c]] = c

(* When a host becomes disabled, the same step leaves it no open session    *)
(* (PATCH and disconnectAgent, hosts.ts:163-169).                           *)
DisableCuts ==
  [][\A h \in Hosts : status[h] # "disabled" /\ status'[h] = "disabled"
       => ~\E c \in Conns : phase'[c] = "open" /\ claim'[c] = h]_vars

(* Only an admin lifts a disablement: neither frames still in flight, nor a *)
(* late handshake, nor the watchdog does (markSeen, Host.ts:210-219;        *)
(* hostsWatchdog.ts:22).                                                    *)
DisabledIsSticky ==
  [][\A h \in Hosts : status[h] = "disabled" /\ status'[h] # "disabled"
       => Delete(h) \/ \E s \in PatchStatuses : Patch(h, s)]_vars

(* The watchdog flips a host offline only when the hub has taken no frame   *)
(* of it for the whole threshold, despite the throttle on last_seen         *)
(* (agentIngestWS.ts:513-516, hostsWatchdog.ts:25-27).                      *)
OfflineOnlyWhenQuiet ==
  [][\A h \in Hosts : Watchdog /\ status'[h] # status[h] => quiet[h] >= OfflineAfter]_vars

(* The status column changes for its reasons only.                          *)
StatusHasReasons == DisabledIsSticky /\ OfflineOnlyWhenQuiet

(* A host shown online is heard from again and again, or stops being shown  *)
(* so, half-open sockets and missing close events included                  *)
(* (hostsWatchdog.ts:16-33).  Rows never seen are out of it.                *)
OnlineMeansHeard ==
  \A h \in Hosts : []<>(status[h] # "online" \/ lag[h] \in {NULL, 0})

(* The hub implements one session per host, and none the moment the host is *)
(* disabled: the table and the sockets, read as HostSessions.               *)
Barred == [h \in Hosts |-> status[h] = "disabled"]
OpenSessions == [h \in Hosts |-> {c \in Conns : phase[c] = "open" /\ claim[c] = h}]
Promise == INSTANCE HostSessions WITH barred <- Barred, sessions <- OpenSessions
OneSessionUnlessBarred == Promise!Spec

(* And the one session is the one the hub would push to or cut.             *)
OneRegisteredSession == OneSessionUnlessBarred /\ [][OpenIsRegistered']_vars

------------------------------------------------------------------------------
(* What the comments say and the code does not keep.                        *)

(* "the disabled status alone already blocks its next handshake"            *)
(* (agentIngestWS.ts:321-323): no session starts on a disabled host.        *)
DisabledBlocksHandshake ==
  [][\A c \in Conns : phase[c] # "open" /\ phase'[c] = "open" => status[claim'[c]] # "disabled"]_vars

(* "Cleared on close so a stale socket can't accidentally receive a push"   *)
(* (agentIngestWS.ts:203-204): the registry holds no socket that is gone.   *)
RegistryIsAttached == \A h \in Hosts : live[h] \in Conns => Attached(live[h])

(* host_status is "emitted when the hub detects a change"                   *)
(* (Docs/MULTI_HOST_PLAN.md:333).                                           *)
ChangeIsAnnounced ==
  [][\A h \in Hosts : Exists(h) /\ status'[h] \in Statuses \ {status[h]}
       => shown'[h] = status'[h]]_vars
===============================================================================
