---------------------------- MODULE MqttExport ----------------------------
(***************************************************************************)
(* The MQTT exporter of server/services/exportService.ts: the client made  *)
(* for the stored configuration, the timer that writes the cards' states,  *)
(* and the announcement of the cards to Home Assistant, with its retry     *)
(* every 2 s while there is no card to announce.                           *)
(*                                                                         *)
(* What the mqtt library does is modelled from how it is used here: it     *)
(* connects again by itself, says 'close' for a connection or an attempt   *)
(* that ended, also for a client that was ended, keeps what is published   *)
(* while it is not connected and sends it when it is.                      *)
(***************************************************************************)
EXTENDS Integers, FiniteSets

CONSTANTS
    Cards,       \* a host's GPUs
    Prefixes,    \* topicPrefix
    MaxChanges,  \* bound: saves of the settings and restarts of the hub
    None         \* no client

ASSUME MqttConstantsOK == MaxChanges \in Nat /\ None \notin Prefixes

VARIABLES
    stored,    \* the configuration in the database
    client,    \* mqttClient
    closing,   \* an ended client's 'close' is still to come
    published, \* mqttDiscoveryPublished
    timers,    \* the configurations of the intervals that call publishMqtt
    retries,   \* those of the timeouts that call publishHaDiscovery again
    sampled,   \* latestSamplesByHost
    wire,      \* messages that reached the broker in the last step
    told,      \* history: cards announced over the present connection
    changes    \* history: saves and restarts so far

vars == <<stored, client, closing, published, timers, retries, sampled, wire, told, changes>>

Configs == [enabled : BOOLEAN, haDiscovery : BOOLEAN, topicPrefix : Prefixes]
Messages == [kind : {"state", "config"}, card : Cards, prefix : Prefixes]

(* "dead" is a connection that is gone and not noticed yet.                 *)
Clients == [state : {"down", "up", "dead"}, queue : SUBSET Messages]
NewClient == [state |-> "down", queue |-> {}]

ASSUME NoneIsNoClient == None \notin Clients

About(kind, cfg) == {[kind |-> kind, card |-> c, prefix |-> cfg.topicPrefix] : c \in sampled}

Init ==
    /\ stored \in Configs
    /\ client = IF stored.enabled THEN NewClient ELSE None
    /\ timers = IF stored.enabled THEN {stored} ELSE {}
    /\ closing = FALSE /\ published = FALSE
    /\ retries = {} /\ sampled = {}
    /\ wire = {} /\ told = {} /\ changes = 0

----------------------------------------------------------------------------
(* Publishing through client k: what reaches the broker and what is kept.   *)
Sends(k, messages) ==
    CASE k.state = "up"   -> wire' = messages /\ client' = k
      [] k.state = "down" -> wire' = {} /\ client' = [k EXCEPT !.queue = @ \cup messages]
      [] k.state = "dead" -> wire' = {} /\ client' = k

(* publishHaDiscovery, called with the configuration cfg of its caller; rest *)
(* are the timeouts set before.                                             *)
PublishHaDiscovery(cfg, k, rest) ==
    IF k = None \/ published
      THEN wire' = {} /\ client' = k /\ retries' = rest /\ UNCHANGED published
      ELSE IF sampled = {}
        THEN wire' = {} /\ client' = k /\ retries' = rest \cup {cfg} /\ UNCHANGED published
        ELSE Sends(k, About("config", cfg)) /\ retries' = rest /\ published' = TRUE

Told == told' = told \cup {m.card : m \in {n \in wire' : n.kind = "config"}}

(* A sample event of the bus.                                               *)
Sampled(c) ==
    /\ sampled' = sampled \cup {c}
    /\ wire' = {}
    /\ UNCHANGED <<stored, client, closing, published, timers, retries, told, changes>>

(* applyOne: the timer of the kind goes first.                              *)
TimersLeft_Kept == timers
TimersLeft == {}

(* applyMqtt: the old client is ended, and a new one made if MQTT is on.    *)
ApplyMqtt(cfg) ==
    /\ client' = IF cfg.enabled THEN NewClient ELSE None
    /\ timers' = TimersLeft \cup (IF cfg.enabled THEN {cfg} ELSE {})
    /\ closing' = (closing \/ client # None)
    /\ published' = (published /\ client = None)
    /\ wire' = {} /\ told' = {}

SetConfig(cfg) ==
    /\ changes < MaxChanges /\ changes' = changes + 1
    /\ stored' = cfg
    /\ ApplyMqtt(cfg)
    /\ UNCHANGED <<retries, sampled>>

(* A new process: init, with what the database holds.                       *)
HubRestarts ==
    /\ changes < MaxChanges /\ changes' = changes + 1
    /\ client' = IF stored.enabled THEN NewClient ELSE None
    /\ timers' = IF stored.enabled THEN {stored} ELSE {}
    /\ closing' = FALSE /\ published' = FALSE
    /\ retries' = {} /\ sampled' = {}
    /\ wire' = {} /\ told' = {}
    /\ UNCHANGED stored

----------------------------------------------------------------------------
(* The library's events, and the timers.                                    *)

(* 'connect': what was kept goes out, then the announcement.                *)
Connects ==
    /\ client # None /\ client.state = "down"
    /\ LET sent == client.queue
           announces == stored.haDiscovery /\ ~published
       IN /\ client' = [client EXCEPT !.state = "up", !.queue = {}]
          /\ wire' = sent \cup (IF announces THEN About("config", stored) ELSE {})
          /\ published' = (published \/ (announces /\ sampled # {}))
          /\ retries' = IF announces /\ sampled = {} THEN retries \cup {stored} ELSE retries
    /\ Told
    /\ UNCHANGED <<stored, closing, timers, sampled, changes>>

LinkBreaks ==
    /\ client # None /\ client.state = "up"
    /\ client' = [client EXCEPT !.state = "dead"]
    /\ wire' = {} /\ told' = {}
    /\ UNCHANGED <<stored, closing, published, timers, retries, sampled, changes>>

PublishedAfterClose_Kept == published
PublishedAfterClose == FALSE

(* 'close', of a connection or of an attempt to connect; of the old client.  *)
Closes ==
    /\ \/ /\ client # None /\ client.state \in {"dead", "down"}
          /\ client' = [client EXCEPT !.state = "down"]
          /\ UNCHANGED closing
       \/ closing /\ closing' = FALSE /\ UNCHANGED client
    /\ published' = PublishedAfterClose
    /\ wire' = {}
    /\ UNCHANGED <<stored, timers, retries, sampled, told, changes>>

(* publishMqtt, on the interval made for cfg.                               *)
TimerFires(cfg) ==
    /\ client # None /\ client.state # "down"
    /\ Sends(client, About("state", cfg))
    /\ UNCHANGED <<stored, closing, published, timers, retries, sampled, told, changes>>

RetryFires(cfg) ==
    /\ PublishHaDiscovery(cfg, client, retries \ {cfg})
    /\ Told
    /\ UNCHANGED <<stored, closing, timers, sampled, changes>>

Next ==
    \/ \E c \in Cards : Sampled(c)
    \/ \E cfg \in Configs : SetConfig(cfg)
    \/ HubRestarts
    \/ Connects \/ LinkBreaks \/ Closes
    \/ \E cfg \in timers : TimerFires(cfg)
    \/ \E cfg \in retries : RetryFires(cfg)

MqttSpec == Init /\ [][Next]_vars

(* Timeouts fire, and a connection that is gone is noticed.                 *)
FairSpec ==
    /\ MqttSpec
    /\ \A cfg \in Configs : WF_vars(cfg \in retries /\ RetryFires(cfg))
    /\ WF_vars(Closes)

----------------------------------------------------------------------------
TypeOK ==
    /\ stored \in Configs
    /\ client \in Clients \cup {None}
    /\ closing \in BOOLEAN /\ published \in BOOLEAN
    /\ timers \subseteq Configs /\ retries \subseteq Configs
    /\ sampled \subseteq Cards /\ told \subseteq Cards
    /\ wire \subseteq Messages
    /\ changes \in 0 .. MaxChanges

(* What reaches the broker follows the settings as they are: nothing once   *)
(* MQTT is off, and states only under the present prefix, however the       *)
(* settings were saved while timers, retries and a queue were pending.      *)
WritesFollowConfig ==
    /\ TypeOK
    /\ \A m \in wire : /\ stored.enabled
                       /\ m.kind = "state" => m.prefix = stored.topicPrefix

Steady ==
    client # None /\ client.state = "up" /\ stored.haDiscovery /\ sampled # {}

(* A connection that lasts has its announcement, whether the cards or the   *)
(* broker came first and whatever retries, closes and saves came between.   *)
AnnouncedAtLast == <>[]Steady => <>[](told # {})

----------------------------------------------------------------------------
(* Statements the code does not keep.                                       *)

(* "... and (optionally) Home Assistant discovery topics, so each GPU       *)
(* appears as a device with sensors." (src/src/i18n/locales/en.json:429)    *)
EachGpuAppears ==
    \A c \in Cards : <>[](Steady /\ c \in sampled) => <>[](c \in told)

(* An announcement names the topics publishMqtt writes (exportService.ts,   *)
(* 694-696), and is made only where the settings ask for it.                *)
AnnouncedAsStored ==
    \A m \in wire :
       m.kind = "config" => stored.haDiscovery /\ m.prefix = stored.topicPrefix
=============================================================================
