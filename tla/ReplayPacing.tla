----------------------------- MODULE ReplayPacing -----------------------------
(***************************************************************************)
(* The agent's replay against the hub's rate limit, with a clock: the      *)
(* steps of AgentTransport for one hub, each conjoined with the timers it  *)
(* arms or consumes (agent/src/transport.ts), the frames on their way, and *)
(* the sliding window the hub keeps per session, by arrival                *)
(* (server/services/agentIngestWS.ts).                                     *)
(*                                                                         *)
(* Timers fire exactly on time.  What a frame waits between the agent's    *)
(* send and the hub's Date.now(), the network and both event loops, is the *)
(* delay of 0 to MaxDelay ticks; frames handed over at one instant travel  *)
(* together, and none overtakes another (one TCP connection).              *)
(***************************************************************************)
EXTENDS AgentTransport

CONSTANTS
  Hub,            \* the hub
  Collectors,     \* the collectors that hand frames over (samples, processes)
  ReplayDelay,    \* REPLAY_DELAY_MS, in ticks
  WindowTicks,    \* the hub's sliding window, in ticks
  RateLimit,      \* RATE_LIMIT_PER_SEC, frames per window
  MaxDelay,       \* the longest a frame waits between send and count, in ticks
  JitterLow,      \* 0.8 * RECONNECT_MIN_MS, in ticks
  JitterHigh,     \* 1.2 * RECONNECT_MIN_MS, in ticks
  StableTicks,    \* STABLE_RESET_MS, in ticks
  LivePeriod,     \* tick_ms, in ticks (processes come at most as often)
  PingPeriod,     \* PING_INTERVAL_MS, in ticks
  MaxDrops        \* bound: connections lost or refused by the network

Senders == {"hello", "ping", "own", "stale"}

ASSUME PacingConstantsOK ==
  /\ Hub \in Hubs
  /\ IsFiniteSet(Collectors) /\ Collectors \cap Senders = {}
  /\ {ReplayDelay, WindowTicks, RateLimit, JitterLow, StableTicks, LivePeriod, PingPeriod}
       \subseteq Nat \ {0}
  /\ JitterHigh \in Nat /\ JitterHigh >= JitterLow
  /\ MaxDelay \in Nat
  /\ MaxDrops \in Nat

VARIABLES
  drainIn,      \* the pending drain timeouts, oldest first: [in: ticks left, stale: armed
                \* by the replay of an earlier session]
  reconnectIn,  \* ticks left on the reconnect timer
  stableIn,     \* ticks left on the stability timer
  pingIn,       \* ticks left of the ping interval
  liveIn,       \* ticks until each collector hands over its next frame
  hubEnd,       \* the hub's end of the session: "shut" before its message handler is
                \* there, "listens", "closed" once it asked for the close
  frames,       \* the session's frames on the wire or in messageWindow: [of: what sent it,
                \* no: its number, sent: its age, got: ticks since the hub counted it]
  drops         \* connections lost so far

clocks == <<drainIn, reconnectIn, stableIn, pingIn, liveIn>>
session == <<hubEnd, frames>>
pacingVars == <<vars, clocks, session, drops>>

OnTheWay == -1
InFlight == {f \in frames : f.got = OnTheWay}
messageWindow == {f \in frames : f.got # OnTheWay}
OverLimit == Cardinality(messageWindow) > RateLimit

PacingInit ==
  /\ Init
  /\ drainIn = <<>>
  /\ reconnectIn = 0
  /\ stableIn = 0
  /\ pingIn = 0
  /\ liveIn \in [Collectors -> 1..LivePeriod]
  /\ hubEnd = "shut"
  /\ frames = {}
  /\ drops = 0

(* sendRaw: a frame leaves for the hub; the frames a step hands over.        *)
Frame(of, no) == [of |-> of, no |-> no, sent |-> 0, got |-> OnTheWay]
Handed(of) == {Frame(of, no) : no \in sent'[Hub] \ sent[Hub]}

(* setTimeout(drainChunk, REPLAY_DELAY_MS); after half of it.                *)
Timeout_600ms(late) == [in |-> ReplayDelay \div 2, stale |-> late]
Timeout(late) == [in |-> ReplayDelay, stale |-> late]

LiveTick(c) ==
  /\ liveIn[c] = 0
  /\ Broadcast
  /\ liveIn' = [liveIn EXCEPT ![c] = LivePeriod]
  /\ frames' = frames \cup Handed(c)
  /\ UNCHANGED <<drainIn, reconnectIn, stableIn, pingIn, hubEnd, drops>>

OpenTimed ==
  /\ Open(Hub)
  /\ stableIn' = StableTicks
  /\ pingIn' = PingPeriod
  /\ UNCHANGED <<drainIn, reconnectIn, liveIn, session, drops>>

(* startPing's interval. *)
PingTimed ==
  /\ pingTimer[Hub] /\ pingIn = 0
  /\ pingIn' = PingPeriod
  /\ frames' = IF IsOpen(Hub) THEN frames \cup {Frame("ping", 0)} ELSE frames
  /\ UNCHANGED <<vars, drainIn, reconnectIn, stableIn, liveIn, hubEnd, drops>>

(* The hub has looked the token up: it sends its welcome and listens. What  *)
(* arrived before found no message handler.                                 *)
HubWelcomes ==
  /\ IsOpen(Hub) /\ hubEnd = "shut"
  /\ hubEnd' = "listens"
  /\ UNCHANGED <<vars, clocks, frames, drops>>

(* The agent answers the welcome with hello and the first chunk.            *)
WelcomeTimed ==
  /\ hubEnd # "shut"
  /\ Welcome(Hub)
  /\ frames' = frames \cup {Frame("hello", 0)} \cup Handed("own")
  /\ drainIn' = IF drains'[Hub] > drains[Hub] THEN Append(drainIn, Timeout(FALSE)) ELSE drainIn
  /\ UNCHANGED <<reconnectIn, stableIn, pingIn, liveIn, hubEnd, drops>>

DrainTimed ==
  /\ drainIn # <<>> /\ Head(drainIn).in = 0
  /\ DrainFires(Hub)
  /\ frames' = frames \cup Handed(IF Head(drainIn).stale THEN "stale" ELSE "own")
  /\ drainIn' = IF drains'[Hub] = drains[Hub]
                THEN Append(Tail(drainIn), Timeout(Head(drainIn).stale))
                ELSE Tail(drainIn)
  /\ UNCHANGED <<reconnectIn, stableIn, pingIn, liveIn, hubEnd, drops>>

(* ws "message": the hub counts what has waited longest, if it listens.      *)
Arrive ==
  /\ InFlight # {}
  /\ ~(hubEnd = "listens" /\ OverLimit)
  /\ LET first == {f \in InFlight : \A g \in InFlight : g.sent <= f.sent}
     IN  frames' = (frames \ first)
                     \cup (IF hubEnd = "listens" THEN {[f EXCEPT !.got = 0] : f \in first} ELSE {})
  /\ UNCHANGED <<vars, clocks, hubEnd, drops>>

(* The delay drawn for a reconnect timer armed while the backoff was d.      *)
JitteredDelays(d) == (JitterLow * d)..(JitterHigh * d)

(* A close, whoever asked for it: pending drain timeouts become stale, and   *)
(* what was on its way is lost.                                              *)
ClosedTimed(code) ==
  /\ Closed(Hub, code)
  /\ drainIn' = [i \in DOMAIN drainIn |-> [drainIn[i] EXCEPT !.stale = TRUE]]
  /\ IF reconnectTimer'[Hub] THEN reconnectIn' \in JitteredDelays(reconnectDelay[Hub])
                             ELSE reconnectIn' = 0
  /\ stableIn' = 0
  /\ pingIn' = 0
  /\ hubEnd' = "shut"
  /\ frames' = {}
  /\ UNCHANGED liveIn

NetworkDrop ==
  /\ drops < MaxDrops
  /\ ClosedTimed(1006)
  /\ drops' = drops + 1

(* The frame that takes the window over the limit makes the hub close the    *)
(* session; until the close reaches the agent it goes on sending, to nobody. *)
RateLimitClose ==
  /\ hubEnd = "listens" /\ OverLimit
  /\ hubEnd' = "closed"
  /\ frames' = {}
  /\ UNCHANGED <<vars, clocks, drops>>

RateLimitClosed ==
  /\ hubEnd = "closed"
  /\ ClosedTimed(1008)
  /\ UNCHANGED drops

ReconnectTimed ==
  /\ reconnectIn = 0
  /\ ReconnectFires(Hub)
  /\ UNCHANGED <<clocks, session, drops>>

StableTimed ==
  /\ stableIn = 0
  /\ StableFires(Hub)
  /\ UNCHANGED <<clocks, session, drops>>

(* Time passes only while no timer is due, no frame has waited its longest   *)
(* and the hub has no close to ask for.                                      *)
Due ==
  \/ nextFrame <= MaxFrames /\ \E c \in Collectors : liveIn[c] = 0
  \/ drainIn # <<>> /\ Head(drainIn).in = 0
  \/ reconnectTimer[Hub] /\ reconnectIn = 0
  \/ stableTimer[Hub] /\ stableIn = 0
  \/ pingTimer[Hub] /\ pingIn = 0
  \/ \E f \in InFlight : f.sent = MaxDelay
  \/ hubEnd = "listens" /\ OverLimit

OneLess(n) == IF n > 0 THEN n - 1 ELSE 0

(* The hub shifts frames out of the window once they are older than 1000 ms. *)
Older(f) == [f EXCEPT !.sent = @ + 1, !.got = IF @ = OnTheWay THEN OnTheWay ELSE @ + 1]
InWindow(f) == f.got < WindowTicks

Tick ==
  /\ ~Due
  /\ drainIn'     = [i \in DOMAIN drainIn |-> [drainIn[i] EXCEPT !.in = @ - 1]]
  /\ reconnectIn' = OneLess(reconnectIn)
  /\ stableIn'    = OneLess(stableIn)
  /\ pingIn'      = OneLess(pingIn)
  /\ liveIn'      = [c \in Collectors |-> OneLess(liveIn[c])]
  /\ frames'      = {Older(f) : f \in {g \in frames : InWindow(g)}}
  /\ UNCHANGED <<vars, hubEnd, drops>>

PacingNext ==
  \/ \E c \in Collectors : LiveTick(c)
  \/ OpenTimed
  \/ PingTimed
  \/ HubWelcomes
  \/ WelcomeTimed
  \/ DrainTimed
  \/ Arrive
  \/ NetworkDrop
  \/ RateLimitClose
  \/ RateLimitClosed
  \/ ReconnectTimed
  \/ StableTimed
  \/ Tick

PacingSafety == PacingInit /\ [][PacingNext]_pacingVars

(* Timers fire and time passes, frames arrive; a hub that is up accepts and  *)
(* welcomes, and its close reaches the agent.                                *)
PacingFairness ==
  /\ WF_pacingVars(OpenTimed) /\ WF_pacingVars(HubWelcomes) /\ WF_pacingVars(WelcomeTimed)
  /\ WF_pacingVars(RateLimitClosed)
  /\ WF_pacingVars((\E c \in Collectors : LiveTick(c)) \/ PingTimed \/ DrainTimed \/ Arrive
                   \/ RateLimitClose \/ ReconnectTimed \/ StableTimed \/ Tick)

PacingSpec == PacingSafety /\ PacingFairness

-----------------------------------------------------------------------------

(* What the spacing needs: REPLAY_DELAY_MS is longer than the window and the *)
(* delay together (1100 ms: less than 100 ms of jitter), pings too, and the  *)
(* limit has room for hello, a ping, one chunk, and the collectors' frames.  *)
Reach == WindowTicks + MaxDelay

PacingRoom ==
  /\ ReplayDelay > Reach
  /\ PingPeriod > Reach
  /\ RateLimit >= 2 + ReplayChunk + Cardinality(Collectors) * (1 + Reach \div LivePeriod)

(* A session's own replay never takes it over the hub's limit, whatever the  *)
(* delays of its frames, if they stay below the slack of the spacing: when   *)
(* the hub counts too many, a drain loop left over from an earlier session   *)
(* is sending beside it (drainChunk, messageWindow).                         *)
OwnReplayWithinLimit ==
  PacingRoom /\ OverLimit => \E f \in messageWindow : f.of = "stale"

(* An agent with a backlog does not loop connect, close(1008), reconnect for *)
(* ever (the incident the comment of transport.ts:112-119 reports): once the *)
(* network stops failing, the backlog leaves the agent's buffer for good.    *)
BacklogReplayed == <>[](buffer[Hub] = <<>>)

-----------------------------------------------------------------------------
(* A statement of a comment that the code does not keep.                     *)

(* agent/src/transport.ts:117-118: "1100ms guarantees no two chunks can ever *)
(* share a window, regardless of jitter."  Two do when the first waits on    *)
(* its way for as long as the spacing exceeds the window, and, without any   *)
(* delay, beside a drain loop left over from an earlier session.             *)
NoTwoChunksShareWindow ==
  \A f, g \in messageWindow : {f.of, g.of} \subseteq {"own", "stale"} => f.sent = g.sent

=============================================================================
