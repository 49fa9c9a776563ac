---------------------------- MODULE AgentTransport ----------------------------
(***************************************************************************)
(* The agent's outbound link to its hubs (agent/src/transport.ts): for     *)
(* every hub one socket, one ring buffer, one reconnect loop and one       *)
(* replay ("drain") loop.  Frames (GPU samples, process snapshots) are     *)
(* numbered in the order the collectors hand them over; the number stands  *)
(* for the payload.                                                        *)
(*                                                                         *)
(* Time is abstracted: a pending timer may fire at any later moment.       *)
(* ReplayPacing adds the clock.                                            *)
(***************************************************************************)
EXTENDS Integers, Sequences, FiniteSets

CONSTANTS
  Hubs,              \* config.hubs
  BufferMax,         \* BUFFER_MAX
  ReplayChunk,       \* REPLAY_CHUNK
  AuthFailureLimit,  \* AUTH_FAILURE_LIMIT
  ReconnectMin,      \* RECONNECT_MIN_MS, in units of RECONNECT_MIN_MS
  ReconnectMax,      \* config.reconnectMaxMs, same unit
  MaxFrames          \* bound: frames the collectors produce

ASSUME ConstantsOK ==
  /\ BufferMax \in Nat \ {0}
  /\ ReplayChunk \in Nat \ {0}
  /\ AuthFailureLimit \in Nat /\ AuthFailureLimit >= 2
  /\ ReconnectMin \in Nat \ {0}
  /\ ReconnectMax \in Nat \ {0}
  /\ MaxFrames \in Nat

VARIABLES
  stopped,         \* transport.stop() was called
  ws,              \* socket of each hub: "null" | "connecting" | "open" | "closing"
  reconnectTimer,  \* conn.reconnectTimer is pending
  reconnectDelay,  \* conn.reconnectDelayMs
  pingTimer,       \* conn.pingTimer is running
  stableTimer,     \* conn.stableTimer is pending
  drains,          \* drainChunk timeouts pending for the hub, tracked or not
  replayTimer,     \* conn.replayTimer is set (it tracks one of those timeouts)
  replaying,       \* conn.replaying
  buffer,          \* conn.buffer
  authFailures,    \* conn.authFailures
  nextFrame,       \* number the next produced frame gets
  \* Histories, read by the properties and never by the guards:
  born,            \* first frame of the running agent process
  welcomed,        \* the hub's welcome was handled on the current socket
  sent,            \* frames ever handed to a socket of the hub
  wire             \* frames handed to the current socket since its welcome

conf    == <<reconnectTimer, reconnectDelay, pingTimer, stableTimer>>
replay  == <<drains, replayTimer, replaying>>
history == <<born, welcomed, sent, wire>>
vars    == <<stopped, ws, conf, replay, buffer, authFailures, nextFrame, history>>

(* The close codes the close handler tells apart: 4003 host disabled, 4001 *)
(* and 1008 authentication or policy, the rest (1006 stands for it).       *)
CloseCodes == {1006, 1008, 4001, 4003}

Smaller(a, b) == IF a <= b THEN a ELSE b
IsOpen(h)     == ws[h] = "open"
GaveUp(h)     == authFailures[h] >= AuthFailureLimit
Frames(seq)   == {seq[i] : i \in 1..Len(seq)}

(* pushToBuffer: the ring drops its oldest frame when full. *)
Push(buf, f) == IF Len(buf) < BufferMax THEN Append(buf, f) ELSE Append(Tail(buf), f)

-----------------------------------------------------------------------------

(* createTransport followed by start(): every hub is being connected to. *)
Init ==
  /\ stopped        = FALSE
  /\ ws             = [h \in Hubs |-> "connecting"]
  /\ reconnectTimer = [h \in Hubs |-> FALSE]
  /\ reconnectDelay = [h \in Hubs |-> ReconnectMin]
  /\ pingTimer      = [h \in Hubs |-> FALSE]
  /\ stableTimer    = [h \in Hubs |-> FALSE]
  /\ drains         = [h \in Hubs |-> 0]
  /\ replayTimer    = [h \in Hubs |-> FALSE]
  /\ replaying      = [h \in Hubs |-> FALSE]
  /\ buffer         = [h \in Hubs |-> <<>>]
  /\ authFailures   = [h \in Hubs |-> 0]
  /\ nextFrame      = 1
  /\ born           = 1
  /\ welcomed       = [h \in Hubs |-> FALSE]
  /\ sent           = [h \in Hubs |-> {}]
  /\ wire           = [h \in Hubs |-> <<>>]

(* broadcast sends inline on a socket that is open and not replaying. *)
SendsInline_IgnoringReplay(h) == IsOpen(h)
SendsInline(h) == IsOpen(h) /\ ~replaying[h]

(* broadcast: the frame goes to every hub, inline or into its buffer. *)
Broadcast ==
  /\ nextFrame <= MaxFrames
  /\ nextFrame' = nextFrame + 1
  /\ sent'   = [h \in Hubs |-> IF SendsInline(h) THEN sent[h] \cup {nextFrame} ELSE sent[h]]
  /\ wire'   = [h \in Hubs |-> IF SendsInline(h) /\ welcomed[h]
                               THEN Append(wire[h], nextFrame) ELSE wire[h]]
  /\ buffer' = [h \in Hubs |-> IF SendsInline(h) THEN buffer[h] ELSE Push(buffer[h], nextFrame)]
  /\ UNCHANGED <<stopped, ws, conf, replay, authFailures, born, welcomed>>

(* ws "open": the backoff is not reset yet, the stability timer starts. *)
Open(h) ==
  /\ ws[h] = "connecting"
  /\ ws'          = [ws EXCEPT ![h] = "open"]
  /\ stableTimer' = [stableTimer EXCEPT ![h] = TRUE]
  /\ pingTimer'   = [pingTimer EXCEPT ![h] = TRUE]
  /\ UNCHANGED <<stopped, reconnectTimer, reconnectDelay, replay, buffer,
                 authFailures, nextFrame, history>>

StableFires(h) ==
  /\ stableTimer[h]
  /\ stableTimer'    = [stableTimer EXCEPT ![h] = FALSE]
  /\ reconnectDelay' = [reconnectDelay EXCEPT ![h] = ReconnectMin]
  /\ UNCHANGED <<stopped, ws, reconnectTimer, pingTimer, replay, buffer,
                 authFailures, nextFrame, history>>

(***************************************************************************)
(* drainChunk.  A chunk leaves the head of the buffer for the socket; when *)
(* frames remain another timeout is armed, otherwise the replay is over.   *)
(* "others" is the number of drain timeouts pending besides this call: the *)
(* connection keeps the handle of the last one armed only.                 *)
(***************************************************************************)
ChunkSize(h) == Smaller(ReplayChunk, Len(buffer[h]))

Kept(h, n) == SubSeq(buffer[h], n + 1, Len(buffer[h]))

(* While frames remain the next timeout is armed and the replay goes on ("was" *)
(* is conn.replaying before the call); an emptied buffer ends the replay.     *)
DrainOutcome_NotRearmed(h, more, others, was) ==
  /\ drains'      = [drains EXCEPT ![h] = others]
  /\ replayTimer' = [replayTimer EXCEPT ![h] = FALSE]
  /\ replaying'   = [replaying EXCEPT ![h] = was /\ more]
DrainOutcome(h, more, others, was) ==
  /\ drains'      = [drains EXCEPT ![h] = IF more THEN others + 1 ELSE others]
  /\ replayTimer' = [replayTimer EXCEPT ![h] = more]
  /\ replaying'   = [replaying EXCEPT ![h] = was /\ more]

DrainChunk(h, others, was, heard) ==
  LET n     == ChunkSize(h)
      chunk == SubSeq(buffer[h], 1, n)
  IN  /\ buffer' = [buffer EXCEPT ![h] = Kept(h, n)]
      /\ sent'   = [sent EXCEPT ![h] = @ \cup Frames(chunk)]
      /\ wire'   = IF heard THEN [wire EXCEPT ![h] = @ \o chunk] ELSE wire
      /\ DrainOutcome(h, n < Len(buffer[h]), others, was)

(* A drain timeout runs drainChunk.  The timeout survives the close of the  *)
(* socket it was armed for, so it may find no socket, a socket that is not  *)
(* open, or the next socket, before or after that one's welcome.            *)
DrainFires(h) ==
  /\ drains[h] > 0
  /\ IF IsOpen(h)
     THEN DrainChunk(h, drains[h] - 1, replaying[h], welcomed[h])
     ELSE /\ drains'      = [drains EXCEPT ![h] = @ - 1]
          /\ replayTimer' = [replayTimer EXCEPT ![h] = FALSE]
          /\ replaying'   = [replaying EXCEPT ![h] = FALSE]
          /\ UNCHANGED <<buffer, sent, wire>>
  /\ UNCHANGED <<stopped, ws, conf, authFailures, nextFrame, born, welcomed>>

(* A welcome proves the token good. *)
FailuresOnWelcome(h) == 0

(* The hub's welcome (one per socket): the failure count is cleared, hello is *)
(* sent, and flushBuffer starts a replay unless one is in flight.             *)
Welcome(h) ==
  /\ IsOpen(h) /\ ~welcomed[h]
  /\ authFailures' = [authFailures EXCEPT ![h] = FailuresOnWelcome(h)]
  /\ welcomed'     = [welcomed EXCEPT ![h] = TRUE]
  /\ IF replaying[h]
     THEN UNCHANGED <<buffer, sent, wire, replay>>
     ELSE DrainChunk(h, drains[h], TRUE, TRUE)
  /\ UNCHANGED <<stopped, ws, conf, nextFrame, born>>

(* A close frame of the hub arrives: nothing is delivered any more, the      *)
(* "close" event is still to come.                                           *)
CloseBegins(h) ==
  /\ IsOpen(h)
  /\ ws' = [ws EXCEPT ![h] = "closing"]
  /\ UNCHANGED <<stopped, conf, replay, buffer, authFailures, nextFrame, history>>

(* The failure count after a close with this code. *)
FailuresAfter(h, code) ==
  CASE code = 4003           -> 0
    [] code \in {4001, 1008} -> authFailures[h] + 1
    [] OTHER                 -> authFailures[h]

(* Whether the close handler goes on to scheduleReconnect. *)
Retries(h, code) == ~(code \in {4001, 1008} /\ FailuresAfter(h, code) >= AuthFailureLimit)

(* scheduleReconnect: arms one timer and doubles the delay, capped. *)
ScheduleReconnect_StopsAtCap(h) ==
  IF stopped \/ reconnectTimer[h] \/ reconnectDelay[h] = ReconnectMax
  THEN UNCHANGED <<reconnectTimer, reconnectDelay>>
  ELSE /\ reconnectTimer' = [reconnectTimer EXCEPT ![h] = TRUE]
       /\ reconnectDelay' = [reconnectDelay EXCEPT ![h] = Smaller(2 * @, ReconnectMax)]
ScheduleReconnect(h) ==
  IF stopped \/ reconnectTimer[h]
  THEN UNCHANGED <<reconnectTimer, reconnectDelay>>
  ELSE /\ reconnectTimer' = [reconnectTimer EXCEPT ![h] = TRUE]
       /\ reconnectDelay' = [reconnectDelay EXCEPT ![h] = Smaller(2 * @, ReconnectMax)]

(* ws "close", with any code, from a socket in any state.  The drain timeout *)
(* is not cancelled.                                                         *)
Closed(h, code) ==
  /\ ws[h] # "null"
  /\ ws'           = [ws EXCEPT ![h] = "null"]
  /\ pingTimer'    = [pingTimer EXCEPT ![h] = FALSE]
  /\ stableTimer'  = [stableTimer EXCEPT ![h] = FALSE]
  /\ replaying'    = [replaying EXCEPT ![h] = FALSE]
  /\ authFailures' = [authFailures EXCEPT ![h] = FailuresAfter(h, code)]
  /\ welcomed'     = [welcomed EXCEPT ![h] = FALSE]
  /\ wire'         = [wire EXCEPT ![h] = <<>>]
  /\ IF Retries(h, code) THEN ScheduleReconnect(h)
                         ELSE UNCHANGED <<reconnectTimer, reconnectDelay>>
  /\ UNCHANGED <<stopped, drains, replayTimer, buffer, nextFrame, born, sent>>

(* The reconnect timer runs connect. *)
ReconnectFires(h) ==
  /\ reconnectTimer[h]
  /\ reconnectTimer' = [reconnectTimer EXCEPT ![h] = FALSE]
  /\ ws'             = [ws EXCEPT ![h] = "connecting"]
  /\ UNCHANGED <<stopped, reconnectDelay, pingTimer, stableTimer, replay, buffer,
                 authFailures, nextFrame, history>>

(* stop(), on SIGTERM or SIGINT.  Only the tracked drain timeout is cleared. *)
Stop ==
  /\ ~stopped
  /\ stopped'        = TRUE
  /\ ws'             = [h \in Hubs |-> "null"]
  /\ reconnectTimer' = [h \in Hubs |-> FALSE]
  /\ pingTimer'      = [h \in Hubs |-> FALSE]
  /\ stableTimer'    = [h \in Hubs |-> FALSE]
  /\ drains'         = [h \in Hubs |-> IF replayTimer[h] THEN drains[h] - 1 ELSE drains[h]]
  /\ replayTimer'    = [h \in Hubs |-> FALSE]
  /\ replaying'      = [h \in Hubs |-> FALSE]
  /\ welcomed'       = [h \in Hubs |-> FALSE]
  /\ wire'           = [h \in Hubs |-> <<>>]
  /\ UNCHANGED <<reconnectDelay, buffer, authFailures, nextFrame, born, sent>>

(* The process ends (signal, crash, agent_update's exit) and its supervisor  *)
(* starts it again: nothing in memory survives.                              *)
Restart ==
  /\ stopped'        = FALSE
  /\ ws'             = [h \in Hubs |-> "connecting"]
  /\ reconnectTimer' = [h \in Hubs |-> FALSE]
  /\ reconnectDelay' = [h \in Hubs |-> ReconnectMin]
  /\ pingTimer'      = [h \in Hubs |-> FALSE]
  /\ stableTimer'    = [h \in Hubs |-> FALSE]
  /\ drains'         = [h \in Hubs |-> 0]
  /\ replayTimer'    = [h \in Hubs |-> FALSE]
  /\ replaying'      = [h \in Hubs |-> FALSE]
  /\ buffer'         = [h \in Hubs |-> <<>>]
  /\ authFailures'   = [h \in Hubs |-> 0]
  /\ welcomed'       = [h \in Hubs |-> FALSE]
  /\ wire'           = [h \in Hubs |-> <<>>]
  /\ born' = nextFrame
  /\ UNCHANGED <<nextFrame, sent>>

Next ==
  \/ Broadcast
  \/ \E h \in Hubs :
       \/ Open(h)
       \/ StableFires(h)
       \/ DrainFires(h)
       \/ Welcome(h)
       \/ CloseBegins(h)
       \/ \E code \in CloseCodes : Closed(h, code)
       \/ ReconnectFires(h)
  \/ Stop
  \/ Restart

(* Timers fire, and the socket library ends every closing handshake (its     *)
(* close timeout destroys the connection).                                   *)
Fairness ==
  \A h \in Hubs :
    /\ WF_vars(DrainFires(h))
    /\ WF_vars(ReconnectFires(h))
    /\ WF_vars(ws[h] = "closing" /\ \E code \in CloseCodes : Closed(h, code))

Spec     == Init /\ [][Next]_vars
FairSpec == Spec /\ Fairness

-----------------------------------------------------------------------------

SocketStates == {"null", "connecting", "open", "closing"}

(* The variables have their types; the ring never exceeds BUFFER_MAX (pushToBuffer). *)
TypeOK ==
  /\ stopped \in BOOLEAN
  /\ ws \in [Hubs -> SocketStates]
  /\ reconnectTimer \in [Hubs -> BOOLEAN]
  /\ reconnectDelay \in [Hubs -> Nat \ {0}]
  /\ pingTimer \in [Hubs -> BOOLEAN]
  /\ stableTimer \in [Hubs -> BOOLEAN]
  /\ drains \in [Hubs -> Nat]
  /\ replayTimer \in [Hubs -> BOOLEAN]
  /\ replaying \in [Hubs -> BOOLEAN]
  /\ buffer \in [Hubs -> Seq(Nat \ {0})]
  /\ \A h \in Hubs : Len(buffer[h]) <= BufferMax
  /\ authFailures \in [Hubs -> Nat]
  /\ nextFrame \in Nat \ {0}
  /\ born \in 1..nextFrame
  /\ welcomed \in [Hubs -> BOOLEAN]
  /\ sent \in [Hubs -> SUBSET Nat]
  /\ wire \in [Hubs -> Seq(Nat)]

Increasing(seq) == \A i, j \in 1..Len(seq) : i < j => seq[i] < seq[j]

(* No frame reaches a hub twice: what waits in the buffer is in production   *)
(* order and was never handed to a socket, whatever number of drain loops    *)
(* and sockets shared the buffer (broadcast, drainChunk).                    *)
NoFrameTwice ==
  \A h \in Hubs : Increasing(buffer[h]) /\ Frames(buffer[h]) \cap sent[h] = {}

(* From a session's welcome on, the hub gets frames in production order: live *)
(* frames queue behind the replay even when a drain timeout of the previous   *)
(* session is still running (broadcast's test of conn.replaying).             *)
FifoAfterWelcome == \A h \in Hubs : Increasing(wire[h])

(* A frame of the running process that was neither sent nor kept was pushed   *)
(* out by BufferMax newer ones: nothing but the ring's overflow loses frames  *)
(* on the agent (pushToBuffer, and close keeping the buffer).                 *)
LossOnlyByOverflow ==
  \A h \in Hubs, f \in born..(nextFrame - 1) :
    f \notin sent[h] /\ f \notin Frames(buffer[h]) => f + BufferMax < nextFrame

(* A welcomed session with a backlog has a replay in progress and a timeout   *)
(* that continues it, so new frames queue behind it and no backlog is left    *)
(* lying until the next reconnect (flushBuffer, drainChunk, close).           *)
NoSilentBacklog ==
  \A h \in Hubs : IsOpen(h) /\ welcomed[h] /\ buffer[h] # <<>> => replaying[h] /\ drains[h] > 0

(* While the agent runs, each hub has a socket, or a pending reconnect, or    *)
(* was given up for good, and never two of these: no hub is forgotten and no  *)
(* hub gets a second socket (connect, close, scheduleReconnect).              *)
OneWayForward ==
  \A h \in Hubs : ~stopped =>
    /\ ws[h] = "null" <=> (reconnectTimer[h] \/ GaveUp(h))
    /\ ~(reconnectTimer[h] /\ GaveUp(h))

(* The close of a session the hub had welcomed never makes the agent give the *)
(* hub up, however often it is closed with 1008 (the rate limit): only        *)
(* handshakes refused one after the other do (authFailures, reset by welcome).*)
WelcomedNeverGivesUp ==
  [][\A h \in Hubs : welcomed[h] => ~GaveUp(h)']_vars

(* A frame waiting in a welcomed session's buffer leaves it, or the session   *)
(* ends: the drain loop always comes round again.                             *)
BacklogDrains ==
  \A h \in Hubs : \A f \in 1..MaxFrames :
    (f \in Frames(buffer[h]) /\ IsOpen(h) /\ welcomed[h])
      ~> (f \notin Frames(buffer[h]) \/ ~IsOpen(h))

(* A hub whose socket is gone or going is dialled again unless it was given   *)
(* up or the agent is shutting down; a disabled host (4003) is never given up.*)
Reconnects ==
  \A h \in Hubs :
    (ws[h] \in {"null", "closing"} /\ ~stopped)
      ~> (ws[h] = "connecting" \/ stopped \/ GaveUp(h))

(* What the ring and the replay promise of a hub's frames: none twice, in     *)
(* order, none lost but by the ring's overflow.                               *)
Delivery == NoFrameTwice /\ FifoAfterWelcome /\ LossOnlyByOverflow

(* Nothing is left lying: neither a backlog without a replay nor a hub        *)
(* without a way forward.                                                     *)
NeverStuck == NoSilentBacklog /\ OneWayForward

(* The two of them: what leaves the agent is right and nothing stays behind.  *)
LinkSound == Delivery /\ NeverStuck

(* The drain loop and the reconnect loop get somewhere, and no welcomed hub   *)
(* is left for good.                                                          *)
Progress == BacklogDrains /\ Reconnects /\ WelcomedNeverGivesUp

-----------------------------------------------------------------------------

(* Two statements of the design document that the code does not keep.         *)

(* Docs/MULTI_HOST_PLAN.md:206 on reconnection: "replay the local buffer, then *)
(* normal flow": a live frame is sent only once the buffer is empty.           *)
ReplayThenNormalFlow ==
  [][\A h \in Hubs : nextFrame \in sent'[h] => buffer[h] = <<>>]_vars

(* Docs/MULTI_HOST_PLAN.md:611: on SIGTERM or SIGINT "flush the RAM buffer,    *)
(* close the WS cleanly": stop leaves no frame behind for a hub it is in       *)
(* session with.                                                               *)
StopFlushesBuffer ==
  [][\A h \in Hubs : stopped' /\ IsOpen(h) /\ welcomed[h] => buffer'[h] = <<>>]_vars

=============================================================================
