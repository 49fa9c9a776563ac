------------------------------ MODULE MCExports ------------------------------
(***************************************************************************)
(* One exporter at a time: MQTT (MqttExport), or one of the others with the *)
(* page of an administrator (ExportsPage). setConfig applies the kind it    *)
(* saves and no other, so they share the process and the page, not state.   *)
(***************************************************************************)
EXTENDS ExportsPage, MqttExport

allVars == <<exportVars, vars>>

MqttIdle ==
    /\ stored = [enabled |-> FALSE, haDiscovery |-> FALSE, topicPrefix |-> CHOOSE p \in Prefixes : TRUE]
    /\ client = None /\ timers = {} /\ closing = FALSE /\ published = FALSE
    /\ retries = {} /\ sampled = {} /\ wire = {} /\ told = {} /\ changes = 0

MqttAlone ==
    /\ kind = "mqtt" /\ key = FirstKey /\ kept = Sealed(key, Defaults)
    /\ up = TRUE /\ listening = FALSE /\ intervals = {}
    /\ heard = NoFilter /\ flying = {} /\ sent = {} /\ crashes = 0
    /\ PageInit

MCInit == (MqttAlone /\ Init) \/ (ExportsInit /\ MqttIdle)

MCNext ==
    \/ kind = "mqtt" /\ Next /\ UNCHANGED exportVars
    \/ kind # "mqtt" /\ ExportsNext /\ UNCHANGED vars

(* Timeouts and intervals fire, a connection that is gone is noticed, and   *)
(* the service manager starts a hub that ended.                             *)
Spec ==
    /\ MCInit /\ [][MCNext]_allVars
    /\ \A cfg \in Configs : WF_vars(kind = "mqtt" /\ cfg \in retries /\ RetryFires(cfg))
    /\ WF_vars(kind = "mqtt" /\ Closes)
    /\ WF_exportVars(\E c \in intervals, known \in Reported : IntervalFires(c, known) /\ UNCHANGED pageVars)
    /\ WF_exportVars(\E k \in Keys : HubStarts(k) /\ UNCHANGED pageVars)

MCSampleSets == [h \in Hosts |-> IF h = "h1" THEN {{0, 1}} ELSE {{0}}]
=============================================================================
