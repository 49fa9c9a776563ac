----------------------------- MODULE HostSessions -----------------------------
(***************************************************************************)
(* What the hub promises about agent sessions, host by host: at most one   *)
(* socket in service, and none the moment an admin bars the host.  A       *)
(* session means an OPEN socket the hub serves; sockets being closed are   *)
(* out of it.  HostIngest implements this with a registry, per-socket      *)
(* close handlers and a REST handler that run in any order.                *)
(***************************************************************************)
CONSTANTS Hosts, Conns

VARIABLES
  barred,     \* the host is disabled
  sessions    \* the sockets in service for the host

vars == <<barred, sessions>>

Init ==
  /\ barred = [h \in Hosts |-> FALSE]
  /\ sessions = [h \in Hosts |-> {}]

(* A handshake succeeds: the newcomer replaces whoever was in service.      *)
Admit(h, c) ==
  /\ \A g \in Hosts : c \notin sessions[g]
  /\ sessions' = [sessions EXCEPT ![h] = {c}]
  /\ UNCHANGED barred

(* The session ends, from either side.                                      *)
End(h) ==
  /\ sessions' = [sessions EXCEPT ![h] = {}]
  /\ UNCHANGED barred

(* An admin disables the host: its session ends in the same step.           *)
Bar(h) ==
  /\ barred' = [barred EXCEPT ![h] = TRUE]
  /\ sessions' = [sessions EXCEPT ![h] = {}]

(* An admin enables the host again, or deletes it.                          *)
Unbar(h) ==
  /\ barred' = [barred EXCEPT ![h] = FALSE]
  /\ UNCHANGED sessions

(* The hub restarts.                                                        *)
Restart ==
  /\ sessions' = [h \in Hosts |-> {}]
  /\ UNCHANGED barred

Next ==
  \/ \E h \in Hosts : End(h) \/ Bar(h) \/ Unbar(h) \/ \E c \in Conns : Admit(h, c)
  \/ Restart

Spec == Init /\ [][Next]_vars
===============================================================================
