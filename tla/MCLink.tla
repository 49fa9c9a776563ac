-------------------------------- MODULE MCLink --------------------------------
(***************************************************************************)
(* One at a time: the agent's link to the hub under every interleaving of  *)
(* its timers (AgentTransport), and the same steps with their clocks       *)
(* against the hub's rate limit (ReplayPacing).                            *)
(***************************************************************************)
EXTENDS ReplayPacing

VARIABLE part

parts == <<pacingVars, part>>

(* The clocks stand still beside the link.                                  *)
MCInit ==
    /\ PacingInit
    /\ \/ part = "link" /\ \A c \in Collectors : liveIn[c] = LivePeriod
       \/ part = "clocks"

MCNext ==
    /\ part' = part
    /\ \/ part = "link" /\ Next /\ UNCHANGED <<clocks, session, drops>>
       \/ part = "clocks" /\ PacingNext

(* The fairness of each specification for its own part.                     *)
MCFairness ==
    /\ \A h \in Hubs :
        /\ WF_vars(part = "link" /\ DrainFires(h))
        /\ WF_vars(part = "link" /\ ReconnectFires(h))
        /\ WF_vars(part = "link" /\ ws[h] = "closing" /\ \E code \in CloseCodes : Closed(h, code))
    /\ WF_pacingVars(part = "clocks" /\ OpenTimed)
    /\ WF_pacingVars(part = "clocks" /\ HubWelcomes)
    /\ WF_pacingVars(part = "clocks" /\ WelcomeTimed)
    /\ WF_pacingVars(part = "clocks" /\ RateLimitClosed)
    /\ WF_pacingVars(/\ part = "clocks"
                     /\ \/ \E c \in Collectors : LiveTick(c)
                        \/ PingTimed \/ DrainTimed \/ Arrive \/ RateLimitClose
                        \/ ReconnectTimed \/ StableTimed \/ Tick)

MCSpec == MCInit /\ [][MCNext]_parts /\ MCFairness

(* BacklogReplayed, asked of the link with clocks: without them the network *)
(* fails for as long as it likes (transport.ts, drainChunk).                *)
TimedBacklogReplayed == part = "clocks" => BacklogReplayed
=============================================================================
