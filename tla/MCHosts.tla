-------------------------------- MODULE MCHosts --------------------------------
(***************************************************************************)
(* One at a time: the hosts as a tab's store knows them (HostsStore), and  *)
(* the tokens their agents are let in with (HostTokens).                   *)
(***************************************************************************)
EXTENDS HostsStore, HostTokens

VARIABLE part

parts == <<vars, tokenVars, part>>

StoreIdle == Init /\ hub = [h \in Hosts |-> None]

TokensIdle ==
    /\ rows = <<>> /\ issued = <<>> /\ asks = {} /\ dialog = [t \in Admins |-> NoDialog]
    /\ holds = <<>> /\ link = <<>> /\ rivals = {} /\ clicks = 0 /\ drops = 0

MCInit ==
    \/ part = "store" /\ Init /\ TokensIdle
    \/ part = "tokens" /\ TokensInit /\ StoreIdle

MCNext ==
    /\ part' = part
    /\ \/ part = "store" /\ Next /\ UNCHANGED tokenVars
       \/ part = "tokens" /\ TokensNext /\ UNCHANGED vars

(* The fairness of HostsStore.                                              *)
MCFairness ==
    /\ WF_vars(part = "store" /\ TimerFires)
    /\ WF_vars(part = "store" /\ \E c \in calls : c.request = Poll /\ Serve(c))
    /\ WF_vars(part = "store" /\ \E c \in calls : c.request = Poll /\ Answered(c))

MCSpec == MCInit /\ [][MCNext]_parts /\ MCFairness
=============================================================================
