--------------------------- MODULE Exports_proofs ----------------------------
(***************************************************************************)
(* Proofs about MqttExport, for any cards, prefixes and number of saves,   *)
(* and about ExportsPage, for any hosts, cards, secrets, fields and keys.  *)
(* What carries WritesFollowConfig is that the client and its interval are *)
(* always those of the stored settings, and that a client which is not     *)
(* connected keeps announcements only, never a state of older settings.    *)
(* PushedAsStored rests likewise on the intervals being those of what is   *)
(* stored, AsTheOperatorMeant on the draft's filter being well formed and   *)
(* on every secret between page and hub being the mask or one that was     *)
(* typed.                                                                  *)
(***************************************************************************)
EXTENDS MqttExport, ExportsPage, FiniteSetTheorems, TLAPS

ClientAsStored == (client = None) = ~stored.enabled

TimerAsStored == \A cfg \in timers : cfg = stored /\ stored.enabled

KeepsAnnouncements == client # None => \A m \in client.queue : m.kind = "config"

WireAsStored ==
    \A m \in wire : /\ stored.enabled
                    /\ m.kind = "state" => m.prefix = stored.topicPrefix

IInv == TypeOK /\ ClientAsStored /\ TimerAsStored /\ KeepsAnnouncements /\ WireAsStored

LEMMA NewClientOK == NewClient \in Clients /\ NewClient # None /\ NewClient.queue = {}
BY NoneIsNoClient DEF NewClient, Clients

LEMMA AboutOK ==
    ASSUME sampled \subseteq Cards, NEW cfg \in Configs, NEW sort \in {"state", "config"}
    PROVE  /\ About(sort, cfg) \subseteq Messages
           /\ \A m \in About(sort, cfg) : m.kind = sort /\ m.prefix = cfg.topicPrefix
BY DEF About, Messages, Configs

LEMMA InitIInv == Init => IInv
<1> SUFFICES ASSUME Init PROVE IInv
  OBVIOUS
<1>1. TypeOK
  <2>1. stored \in Configs /\ stored.enabled \in BOOLEAN
    BY DEF Init, Configs
  <2>2. client \in Clients \cup {None} /\ timers \subseteq Configs
    BY <2>1, NewClientOK DEF Init
  <2>3. changes \in 0 .. MaxChanges
    BY MqttConstantsOK DEF Init, MqttConstantsOK
  <2>4. QED
    BY <2>1, <2>2, <2>3 DEF Init, TypeOK
<1>2. QED
  BY <1>1, NewClientOK DEF Init, IInv, ClientAsStored, TimerAsStored, KeepsAnnouncements,
     WireAsStored, Configs

\* A save and a restart make the client and the interval anew.
LEMMA Renewed ==
    ASSUME IInv, HubRestarts \/ \E cfg \in Configs : SetConfig(cfg)
    PROVE  IInv'
<1> USE DEF IInv
<1>1. changes' \in 0 .. MaxChanges
  BY MqttConstantsOK DEF HubRestarts, SetConfig, TypeOK, MqttConstantsOK
<1>2. stored' \in Configs /\ stored'.enabled \in BOOLEAN
  BY DEF HubRestarts, SetConfig, TypeOK, Configs
<1>3. client' = IF stored'.enabled THEN NewClient ELSE None
  BY DEF HubRestarts, SetConfig, ApplyMqtt
<1>4. timers' = IF stored'.enabled THEN {stored'} ELSE {}
  BY DEF HubRestarts, SetConfig, ApplyMqtt, TimersLeft
<1>5. /\ wire' = {} /\ told' = {}
      /\ retries' \subseteq Configs /\ sampled' \subseteq Cards
      /\ closing' \in BOOLEAN /\ published' \in BOOLEAN
  <2>1. CASE HubRestarts
    BY <2>1 DEF HubRestarts
  <2>2. ASSUME NEW cfg \in Configs, SetConfig(cfg)
        PROVE  /\ wire' = {} /\ told' = {}
               /\ retries' \subseteq Configs /\ sampled' \subseteq Cards
               /\ closing' \in BOOLEAN /\ published' \in BOOLEAN
    BY <2>2 DEF SetConfig, ApplyMqtt, TypeOK
  <2>3. QED
    BY <2>1, <2>2
<1>6. TypeOK'
  BY <1>1, <1>2, <1>3, <1>4, <1>5, NewClientOK DEF TypeOK
<1>7. QED
  BY <1>2, <1>3, <1>4, <1>5, <1>6, NewClientOK
     DEF ClientAsStored, TimerAsStored, KeepsAnnouncements, WireAsStored

\* What a client makes of messages that are the stored settings' own, or
\* announcements.
LEMMA SendsOK ==
    ASSUME IInv, client # None, NEW messages \in SUBSET Messages, Sends(client, messages),
           \A m \in messages : m.kind = "state" => m.prefix = stored.topicPrefix,
           client.state = "down" => \A m \in messages : m.kind = "config",
           stored' = stored
    PROVE  /\ client' \in Clients /\ client' # None
           /\ KeepsAnnouncements'
           /\ wire' \subseteq Messages /\ WireAsStored'
<1>1. client \in Clients /\ stored.enabled
  BY DEF IInv, TypeOK, ClientAsStored
<1>2. CASE client.state = "up"
  BY <1>1, <1>2 DEF Sends, IInv, TypeOK, KeepsAnnouncements, WireAsStored, Clients
<1>3. CASE client.state = "down"
  <2>1. wire' = {} /\ client' = [client EXCEPT !.queue = @ \cup messages]
    BY <1>3 DEF Sends
  <2>2. client' \in Clients /\ client'.queue = client.queue \cup messages
    BY <1>1, <2>1 DEF Clients
  <2>3. QED
    BY <1>3, <2>1, <2>2, NoneIsNoClient DEF IInv, KeepsAnnouncements, WireAsStored
<1>4. CASE client.state = "dead"
  BY <1>1, <1>4 DEF Sends, IInv, TypeOK, KeepsAnnouncements, WireAsStored, Clients
<1>5. QED
  BY <1>1, <1>2, <1>3, <1>4 DEF Clients

LEMMA ToldOK == ASSUME TypeOK, Told, wire' \subseteq Messages PROVE told' \subseteq Cards
BY DEF TypeOK, Told, Messages

LEMMA RetryStep ==
    ASSUME IInv, NEW cfg \in retries, RetryFires(cfg)
    PROVE  IInv'
<1>1. cfg \in Configs /\ retries \ {cfg} \subseteq Configs
  BY DEF IInv, TypeOK
<1>2. /\ UNCHANGED <<stored, closing, timers, sampled, changes>>
      /\ Told
      /\ PublishHaDiscovery(cfg, client, retries \ {cfg})
  BY DEF RetryFires
<1>3. /\ client' \in Clients \cup {None} /\ (client' = None) = (client = None)
      /\ KeepsAnnouncements' /\ wire' \subseteq Messages /\ WireAsStored'
      /\ retries' \subseteq Configs /\ published' \in BOOLEAN
  <2>1. CASE client = None \/ published \/ sampled = {}
    BY <1>1, <1>2, <2>1 DEF PublishHaDiscovery, IInv, TypeOK, KeepsAnnouncements, WireAsStored
  <2>2. CASE ~(client = None \/ published \/ sampled = {})
    <3>1. /\ Sends(client, About("config", cfg))
          /\ retries' = retries \ {cfg} /\ published' = TRUE
      BY <1>2, <2>2 DEF PublishHaDiscovery
    <3>2. /\ About("config", cfg) \in SUBSET Messages
          /\ \A m \in About("config", cfg) : m.kind = "config"
      BY <1>1, AboutOK DEF IInv, TypeOK
    <3>3. QED
      BY <1>1, <1>2, <2>2, <3>1, <3>2, SendsOK
  <2>3. QED
    BY <2>1, <2>2
<1>4. told' \subseteq Cards
  BY <1>2, <1>3, ToldOK DEF IInv
<1>5. QED
  BY <1>2, <1>3, <1>4 DEF IInv, TypeOK, ClientAsStored, TimerAsStored

\* The interval's settings are the stored ones, and it writes nothing into a queue.
LEMMA TimerStep ==
    ASSUME IInv, NEW cfg \in timers, TimerFires(cfg)
    PROVE  IInv'
<1>1. cfg = stored /\ cfg \in Configs
  BY DEF IInv, TypeOK, TimerAsStored
<1>2. /\ client # None /\ client.state # "down" /\ Sends(client, About("state", cfg))
      /\ UNCHANGED <<stored, closing, published, timers, retries, sampled, told, changes>>
  BY DEF TimerFires
<1>3. /\ About("state", cfg) \in SUBSET Messages
      /\ \A m \in About("state", cfg) : m.prefix = stored.topicPrefix
  BY <1>1, AboutOK DEF IInv, TypeOK
<1>4. /\ client' \in Clients /\ client' # None
      /\ KeepsAnnouncements' /\ wire' \subseteq Messages /\ WireAsStored'
  BY <1>2, <1>3, SendsOK
<1>5. QED
  BY <1>2, <1>4 DEF IInv, TypeOK, ClientAsStored, TimerAsStored

\* What was kept, announcements only, goes out under the client it was kept by.
LEMMA ConnectStep == ASSUME IInv, Connects PROVE IInv'
<1> DEFINE announces == stored.haDiscovery /\ ~published
           announced == IF announces THEN About("config", stored) ELSE {}
<1>1. /\ client \in Clients /\ client # None /\ stored \in Configs /\ stored.enabled
  BY DEF Connects, IInv, TypeOK, ClientAsStored
<1>2. announced \subseteq Messages /\ \A m \in announced : m.kind = "config"
  BY <1>1, AboutOK DEF IInv, TypeOK
<1>3. /\ client' = [client EXCEPT !.state = "up", !.queue = {}]
      /\ wire' = client.queue \cup announced
      /\ published' = (published \/ (announces /\ sampled # {}))
      /\ retries' = IF announces /\ sampled = {} THEN retries \cup {stored} ELSE retries
      /\ Told
      /\ UNCHANGED <<stored, closing, timers, sampled, changes>>
  BY DEF Connects
<1>4. client' \in Clients /\ client' # None /\ client'.queue = {}
  BY <1>1, <1>3, NoneIsNoClient DEF Clients
<1>5. wire' \subseteq Messages /\ \A m \in wire' : m.kind = "config"
  BY <1>1, <1>2, <1>3 DEF IInv, KeepsAnnouncements, Clients
<1>6. told' \subseteq Cards
  BY <1>3, <1>5, ToldOK DEF IInv
<1>7. published' \in BOOLEAN /\ retries' \subseteq Configs
  BY <1>1, <1>3 DEF IInv, TypeOK
<1> HIDE DEF announces, announced
<1>8. TypeOK'
  BY <1>3, <1>4, <1>5, <1>6, <1>7 DEF IInv, TypeOK
<1>9. ClientAsStored' /\ TimerAsStored' /\ KeepsAnnouncements' /\ WireAsStored'
  BY <1>1, <1>3, <1>4, <1>5 DEF IInv, ClientAsStored, TimerAsStored, KeepsAnnouncements, WireAsStored
<1>10. QED
  BY <1>8, <1>9 DEF IInv

LEMMA QuietStep ==
    ASSUME IInv, LinkBreaks \/ Closes \/ (\E c \in Cards : Sampled(c)) \/ UNCHANGED vars
    PROVE  IInv'
<1> USE DEF IInv
<1>1. CASE LinkBreaks
  <2>1. client' \in Clients /\ client' # None /\ client'.queue = client.queue
    BY <1>1, NoneIsNoClient DEF LinkBreaks, TypeOK, Clients
  <2>2. QED
    BY <1>1, <2>1 DEF LinkBreaks, TypeOK, ClientAsStored, TimerAsStored, KeepsAnnouncements, WireAsStored
<1>2. CASE Closes
  <2>1. /\ client' \in Clients \cup {None} /\ (client' = None) = (client = None)
        /\ client # None => client'.queue = client.queue
        /\ closing' \in BOOLEAN
    BY <1>2, NoneIsNoClient DEF Closes, TypeOK, Clients
  <2>2. QED
    BY <1>2, <2>1 DEF Closes, PublishedAfterClose, TypeOK, ClientAsStored, TimerAsStored,
       KeepsAnnouncements, WireAsStored
<1>3. CASE \E c \in Cards : Sampled(c)
  BY <1>3 DEF Sampled, TypeOK, ClientAsStored, TimerAsStored, KeepsAnnouncements, WireAsStored
<1>4. CASE UNCHANGED vars
  BY <1>4 DEF vars, TypeOK, ClientAsStored, TimerAsStored, KeepsAnnouncements, WireAsStored
<1>5. QED
  BY <1>1, <1>2, <1>3, <1>4

LEMMA StepIInv == IInv /\ [Next]_vars => IInv'
BY Renewed, RetryStep, TimerStep, ConnectStep, QuietStep DEF Next

\* Nothing is written once MQTT is off, and states only under the stored prefix,
\* whatever saves, restarts, retries and queues come in between.
THEOREM WritesFollowConfigHolds == MqttSpec => []WritesFollowConfig
<1>1. IInv => WritesFollowConfig
  BY DEF IInv, WireAsStored, WritesFollowConfig
<1>2. QED
  BY <1>1, InitIInv, StepIInv, PTL DEF MqttSpec

-----------------------------------------------------------------------------
(* Filters. A filter that is not empty lets pass what it lists.             *)
Passes(b, h, g) == h \in DOMAIN b /\ (b[h] = AllGpus \/ g \in b[h])

Choice == ((SUBSET Gpus) \ {{}}) \cup {AllGpus}
Seen == [Hosts -> SUBSET Gpus]

LEMMA FilterShape ==
    ASSUME NEW f \in Filters
    PROVE  /\ DOMAIN f \subseteq Hosts /\ f = [h \in DOMAIN f |-> f[h]]
           /\ \A h \in DOMAIN f : f[h] \in Choice
BY DEF Filters, Choice

LEMMA FilterMade ==
    ASSUME NEW H \in SUBSET Hosts, NEW f \in [H -> Choice]
    PROVE  f \in Filters
BY DEF Filters, Choice

LEMMA ListOK == ASSUME NEW S \in SUBSET Gpus, S # {} PROVE S \in Choice
<1>1. S \notin {{}}
  OBVIOUS
<1>2. QED
  BY <1>1 DEF Choice

LEMMA EveryGpu == AllGpus \in Choice
BY DEF Choice

LEMMA EmptyFilter ==
    ASSUME NEW f \in Filters
    PROVE  (f = NoFilter) <=> (DOMAIN f = {})
BY FilterShape DEF NoFilter

LEMMA BaselineOK ==
    ASSUME NEW f \in Filters
    PROVE  /\ Baseline(f) \in Filters
           /\ \A h \in Hosts : (h \in DOMAIN Baseline(f)) <=> HostOn(f, h)
           /\ \A h \in Hosts : \A g : GpuOn(f, h, g) <=> Passes(Baseline(f), h, g)
<1>1. CASE f = NoFilter
  <2>1. Baseline(f) = [h \in Hosts |-> AllGpus]
    BY <1>1 DEF Baseline
  <2>2. Baseline(f) \in Filters
    BY <2>1, FilterMade DEF Choice
  <2>3. QED
    BY <1>1, <2>1, <2>2 DEF HostOn, GpuOn, Passes
<1>2. CASE f # NoFilter
  BY <1>2 DEF Baseline, HostOn, GpuOn, Passes
<1>3. QED
  BY <1>1, <1>2

LEMMA NoFilterOK == NoFilter \in Filters
<1>1. NoFilter \in [{} -> Choice]
  BY DEF NoFilter
<1>2. QED
  BY <1>1, FilterMade

LEMMA CommitOK ==
    ASSUME NEW b \in Filters, b # NoFilter
    PROVE  /\ Commit(b) \in Filters
           /\ \A h \in Hosts : \A g : GpuOn(Commit(b), h, g) <=> Passes(b, h, g)
<1>1. CASE Hosts # {} /\ \A h \in Hosts : h \in DOMAIN b /\ b[h] = AllGpus
  <2>1. Commit(b) = NoFilter
    BY <1>1 DEF Commit
  <2>2. QED
    BY <1>1, <2>1, NoFilterOK DEF GpuOn, HostOn, Passes
<1>2. CASE ~(Hosts # {} /\ \A h \in Hosts : h \in DOMAIN b /\ b[h] = AllGpus)
  BY <1>2 DEF Commit, GpuOn, HostOn, Passes
<1>3. QED
  BY <1>1, <1>2

LEMMA CommitTyped ==
    ASSUME NEW b \in Filters PROVE Commit(b) \in Filters
BY NoFilterOK DEF Commit

LEMMA CutOK ==
    ASSUME NEW b \in Filters, NEW h
    PROVE  /\ Cut(b, h) \in Filters
           /\ \A x, g : Passes(Cut(b, h), x, g) <=> x # h /\ Passes(b, x, g)
<1>1. Cut(b, h) \in [DOMAIN b \ {h} -> Choice]
  BY FilterShape DEF Cut
<1>2. Cut(b, h) \in Filters
  BY <1>1, FilterShape, FilterMade
<1>3. QED
  BY <1>2 DEF Cut, Passes

LEMMA AddOK ==
    ASSUME NEW b \in Filters, NEW h \in Hosts
    PROVE  /\ Put(b, h, AllGpus) \in Filters /\ Put(b, h, AllGpus) # NoFilter
           /\ \A x, g : Passes(Put(b, h, AllGpus), x, g) <=> x = h \/ Passes(b, x, g)
<1> DEFINE c == Put(b, h, AllGpus)
<1>1. c = [x \in DOMAIN b \cup {h} |-> IF x = h THEN AllGpus ELSE b[x]]
  BY DEF Put
<1> HIDE DEF c
<1>2. c \in [DOMAIN b \cup {h} -> Choice]
  BY <1>1, FilterShape DEF Choice
<1>3. c \in Filters
  BY <1>2, FilterShape, FilterMade
<1>4. c # NoFilter
  BY <1>1 DEF NoFilter
<1>5. \A x, g : Passes(c, x, g) <=> x = h \/ Passes(b, x, g)
  BY <1>1 DEF Passes
<1>6. QED
  BY <1>3, <1>4, <1>5 DEF c

LEMMA ToggleHostOK ==
    ASSUME NEW f \in Filters, NEW h \in Hosts
    PROVE  /\ ToggleHost(f, h) \in Filters
           /\ HostOn(f, h) /\ Cut(Baseline(f), h) # NoFilter =>
                \A x \in Hosts : \A g : GpuOn(ToggleHost(f, h), x, g) <=> x # h /\ GpuOn(f, x, g)
           /\ ~HostOn(f, h) =>
                \A x \in Hosts : \A g : GpuOn(ToggleHost(f, h), x, g) <=> x = h \/ GpuOn(f, x, g)
<1>1. CASE HostOn(f, h)
  <2>1. ToggleHost(f, h) = Commit(Cut(Baseline(f), h))
    BY <1>1 DEF ToggleHost
  <2>2. QED
    BY <1>1, <2>1, BaselineOK, CutOK, CommitOK, CommitTyped
<1>2. CASE ~HostOn(f, h)
  <2>1. ToggleHost(f, h) = Commit(Put(Baseline(f), h, AllGpus))
    BY <1>2 DEF ToggleHost
  <2>2. QED
    BY <1>2, <2>1, BaselineOK, AddOK, CommitOK, CommitTyped
<1>3. QED
  BY <1>1, <1>2

(* The list a box of a card makes of its host, before and after.            *)
Had(f, live0, h) == IF Baseline(f)[h] = AllGpus THEN live0[h] ELSE Baseline(f)[h]
Chosen(f, live0, h, g) == IF GpuOn(f, h, g) THEN Had(f, live0, h) \ {g} ELSE Had(f, live0, h) \cup {g}
Written(f, live0, h, g) ==
    IF live0[h] # {} /\ Cardinality(Chosen(f, live0, h, g)) = Cardinality(live0[h])
    THEN AllGpus ELSE Chosen(f, live0, h, g)

LEMMA ToggleGpuIs ==
    ASSUME NEW f, NEW live0, NEW h, NEW g
    PROVE  ToggleGpu(f, live0, h, g) =
             Commit(IF Chosen(f, live0, h, g) = {} THEN Cut(Baseline(f), h)
                    ELSE [Baseline(f) EXCEPT ![h] = Written(f, live0, h, g)])
BY DEF ToggleGpu, Chosen, Had, Written

LEMMA HadOK ==
    ASSUME NEW f \in Filters, NEW live0 \in Seen, NEW h \in Hosts, HostOn(f, h)
    PROVE  /\ h \in DOMAIN Baseline(f) /\ Had(f, live0, h) \in SUBSET Gpus
           /\ \A g \in live0[h] : g \in Had(f, live0, h) <=> GpuOn(f, h, g)
<1>1. h \in DOMAIN Baseline(f) /\ Baseline(f)[h] \in Choice /\ live0[h] \in SUBSET Gpus
  BY BaselineOK, FilterShape DEF Seen
<1>2. \A g : GpuOn(f, h, g) <=> Baseline(f)[h] = AllGpus \/ g \in Baseline(f)[h]
  BY <1>1, BaselineOK DEF Passes
<1>3. QED
  BY <1>1, <1>2 DEF Had, Choice

LEMMA SetOK ==
    ASSUME NEW b \in Filters, NEW h \in DOMAIN b, NEW v \in Choice
    PROVE  /\ [b EXCEPT ![h] = v] \in Filters /\ [b EXCEPT ![h] = v] # NoFilter
           /\ \A x, g : Passes([b EXCEPT ![h] = v], x, g) <=>
                          IF x = h THEN v = AllGpus \/ g \in v ELSE Passes(b, x, g)
<1> DEFINE c == [b EXCEPT ![h] = v]
<1>1. /\ c \in [DOMAIN b -> Choice] /\ DOMAIN c = DOMAIN b
      /\ \A x \in DOMAIN b : c[x] = IF x = h THEN v ELSE b[x]
  BY FilterShape
<1> HIDE DEF c
<1>2. c \in Filters
  BY <1>1, FilterShape, FilterMade
<1>3. c # NoFilter
  BY <1>1 DEF NoFilter
<1>4. \A x, g : Passes(c, x, g) <=> IF x = h THEN v = AllGpus \/ g \in v ELSE Passes(b, x, g)
  BY <1>1 DEF Passes
<1>5. QED
  BY <1>2, <1>3, <1>4 DEF c

LEMMA ToggleGpuTyped ==
    ASSUME NEW f \in Filters, NEW live0 \in Seen, NEW h \in Hosts, NEW g \in Gpus, HostOn(f, h)
    PROVE  ToggleGpu(f, live0, h, g) \in Filters
<1>1. CASE Chosen(f, live0, h, g) = {}
  BY <1>1, ToggleGpuIs, BaselineOK, CutOK, CommitTyped
<1>2. CASE Chosen(f, live0, h, g) # {}
  <2>1. Written(f, live0, h, g) \in Choice
    <3>1. Chosen(f, live0, h, g) \in SUBSET Gpus
      BY HadOK DEF Chosen
    <3>2. Chosen(f, live0, h, g) \in Choice /\ AllGpus \in Choice
      BY <1>2, <3>1, ListOK, EveryGpu
    <3>3. QED
      BY <3>2 DEF Written
  <2>2. QED
    BY <1>2, <2>1, ToggleGpuIs, BaselineOK, HadOK, SetOK, CommitTyped
<1>3. QED
  BY <1>1, <1>2

(* Lists of cards the page has seen are as long as the page's only when     *)
(* they are the page's.                                                     *)
LEMMA ToggleGpuOK ==
    ASSUME NEW f \in Filters, NEW live0 \in Seen, NEW h \in Hosts, NEW g \in live0[h], HostOn(f, h),
           f = NoFilter \/ f[h] = AllGpus \/ f[h] \subseteq live0[h],
           Chosen(f, live0, h, g) # {} \/ Cut(Baseline(f), h) # NoFilter
    PROVE  \A x \in Hosts : \A y \in live0[x] :
             GpuOn(ToggleGpu(f, live0, h, g), x, y) <=>
               IF x = h /\ y = g THEN ~GpuOn(f, h, g) ELSE GpuOn(f, x, y)
<1> DEFINE had == Had(f, live0, h)
           chosen == Chosen(f, live0, h, g)
           b == Baseline(f)
<1>1. /\ b \in Filters /\ h \in DOMAIN b /\ had \in SUBSET Gpus
      /\ \A y \in live0[h] : y \in had <=> GpuOn(f, h, y)
      /\ \A x \in Hosts : \A y : GpuOn(f, x, y) <=> Passes(b, x, y)
  BY HadOK, BaselineOK
<1>2. chosen = IF GpuOn(f, h, g) THEN had \ {g} ELSE had \cup {g}
  BY DEF Chosen
<1>3. live0[h] \in SUBSET Gpus
  BY DEF Seen
<1>4. had \subseteq live0[h]
  BY DEF Had, Baseline
<1>5. chosen \subseteq live0[h] /\ \A y \in live0[h] : y \in chosen <=> IF y = g THEN ~GpuOn(f, h, g) ELSE GpuOn(f, h, y)
  BY <1>1, <1>2, <1>4
<1>6. CASE chosen = {}
  <2>1. ToggleGpu(f, live0, h, g) = Commit(Cut(b, h)) /\ Cut(b, h) # NoFilter
    BY <1>6, ToggleGpuIs
  <2>2. \A x \in Hosts : \A y : GpuOn(ToggleGpu(f, live0, h, g), x, y) <=> x # h /\ GpuOn(f, x, y)
    BY <1>1, <2>1, CutOK, CommitOK
  <2> HIDE DEF had, chosen, b
  <2>3. QED
    BY <1>5, <1>6, <2>2
<1>7. CASE chosen # {}
  <2> DEFINE v == Written(f, live0, h, g)
  <2>1. (v = AllGpus /\ Cardinality(chosen) = Cardinality(live0[h])) \/ v = chosen
    BY DEF Written
  <2>2. v \in Choice
    <3>1. chosen \in SUBSET Gpus
      BY <1>3, <1>5
    <3> HIDE DEF chosen, v
    <3>2. chosen \in Choice /\ AllGpus \in Choice
      BY <1>7, <3>1, ListOK, EveryGpu
    <3>3. QED
      BY <2>1, <3>2
  <2>3. \A y \in live0[h] : v = AllGpus \/ y \in v <=> y \in chosen
    <3>1. CASE v = AllGpus /\ Cardinality(chosen) = Cardinality(live0[h])
      <4>1. IsFiniteSet(live0[h])
        BY <1>3, FilterConstantsOK, FS_Subset DEF FilterConstantsOK
      <4>2. chosen = live0[h]
        BY <1>5, <3>1, <4>1, FS_Subset
      <4>3. QED
        BY <3>1, <4>2
    <3>2. CASE v = chosen
      <4>1. chosen # AllGpus
        BY <1>3, <1>5, FilterConstantsOK DEF FilterConstantsOK
      <4>2. QED
        BY <3>2, <4>1
    <3>3. QED
      BY <2>1, <3>1, <3>2
  <2>4. ToggleGpu(f, live0, h, g) = Commit([b EXCEPT ![h] = v])
    BY <1>7, ToggleGpuIs
  <2> HIDE DEF had, chosen, b, v
  <2>5. \A x \in Hosts : \A y : GpuOn(ToggleGpu(f, live0, h, g), x, y) <=>
                             IF x = h THEN v = AllGpus \/ y \in v ELSE Passes(b, x, y)
    BY <1>1, <2>2, <2>4, SetOK, CommitOK
  <2>6. QED
    BY <1>1, <1>5, <2>3, <2>5
<1>8. QED
  BY <1>6, <1>7

LEMMA FilterEditsOK ==
    ASSUME NEW f \in Filters, NEW live0 \in Seen
    PROVE  FilterEdits(f, live0) \subseteq Filters
<1>1. \A h \in Hosts : ToggleHost(f, h) \in Filters
  BY ToggleHostOK
<1>2. \A c \in CardsOf(live0) : HostOn(f, c[1]) => ToggleGpu(f, live0, c[1], c[2]) \in Filters
  BY ToggleGpuTyped DEF CardsOf
<1>3. QED
  BY <1>1, <1>2 DEF FilterEdits

----------------------------------------------------------------------------
(* What the boxes mean, of any filter and any cards seen.                   *)

LEMMA TickedAsSent ==
    ASSUME NEW f \in Filters, NEW live0 \in Seen
    PROVE  Ticked(f, live0) = CardsOf(ApplyHostFilter(live0, f))
<1>1. CASE f = NoFilter
  BY <1>1 DEF Ticked, ApplyHostFilter, GpuOn, HostOn
<1>2. CASE f # NoFilter
  <2> DEFINE s == ApplyHostFilter(live0, f)
  <2>1. s = [h \in {x \in DOMAIN live0 \cap DOMAIN f : f[x] = AllGpus \/ live0[x] \cap f[x] # {}} |->
               IF f[h] = AllGpus THEN live0[h] ELSE live0[h] \cap f[h]]
    BY <1>2 DEF ApplyHostFilter
  <2> HIDE DEF s
  <2>2. \A h \in Hosts : \A g : h \in DOMAIN s /\ g \in s[h] <=> h \in DOMAIN live0 /\ g \in live0[h] /\ GpuOn(f, h, g)
    BY <1>2, <2>1 DEF GpuOn, HostOn
  <2>3. QED
    BY <2>2 DEF Ticked, CardsOf, s
<1>3. QED
  BY <1>1, <1>2

OfHost(live0, h) == CardsOf([x \in {h} |-> live0[x]])

LEMMA OfHostIs ==
    ASSUME NEW live0 \in Seen, NEW h \in Hosts
    PROVE  \A c : c \in OfHost(live0, h) <=> c \in CardsOf(live0) /\ c[1] = h
BY DEF OfHost, CardsOf, Seen

LEMMA HostBox ==
    ASSUME NEW f \in Filters, NEW live0 \in Seen, NEW h \in Hosts,
           ~(Ticked(f, live0) \subseteq OfHost(live0, h))
    PROVE  Ticked(ToggleHost(f, h), live0) =
             IF HostOn(f, h) THEN Ticked(f, live0) \ OfHost(live0, h)
             ELSE Ticked(f, live0) \cup OfHost(live0, h)
<1>1. CASE HostOn(f, h)
  <2>1. Cut(Baseline(f), h) # NoFilter
    <3>1. PICK c \in CardsOf(live0) : c[1] # h /\ GpuOn(f, c[1], c[2])
      BY OfHostIs DEF Ticked
    <3>2. c[1] \in Hosts
      BY <3>1 DEF CardsOf
    <3>3. Passes(Cut(Baseline(f), h), c[1], c[2])
      BY <3>1, <3>2, BaselineOK, CutOK
    <3>4. QED
      BY <3>3 DEF Passes, NoFilter
  <2>2. \A x \in Hosts : \A g : GpuOn(ToggleHost(f, h), x, g) <=> x # h /\ GpuOn(f, x, g)
    BY <1>1, <2>1, ToggleHostOK
  <2>3. \A c \in CardsOf(live0) : c[1] \in Hosts
    BY DEF CardsOf
  <2>4. QED
    BY <1>1, <2>2, <2>3, OfHostIs DEF Ticked
<1>2. CASE ~HostOn(f, h)
  <2>1. \A x \in Hosts : \A g : GpuOn(ToggleHost(f, h), x, g) <=> x = h \/ GpuOn(f, x, g)
    BY <1>2, ToggleHostOK
  <2>2. \A c \in CardsOf(live0) : c[1] \in Hosts
    BY DEF CardsOf
  <2>3. QED
    BY <1>2, <2>1, <2>2, OfHostIs DEF Ticked
<1>3. QED
  BY <1>1, <1>2

LEMMA CardBox ==
    ASSUME NEW f \in Filters, NEW live0 \in Seen, NEW c \in CardsOf(live0),
           \A h \in DOMAIN f : f[h] = AllGpus \/ f[h] \subseteq live0[h],
           HostOn(f, c[1]), Ticked(f, live0) # {c}
    PROVE  Ticked(ToggleGpu(f, live0, c[1], c[2]), live0) =
             IF c \in Ticked(f, live0) THEN Ticked(f, live0) \ {c} ELSE Ticked(f, live0) \cup {c}
<1> DEFINE h == c[1]
           g == c[2]
<1>1. c = <<h, g>> /\ h \in Hosts /\ g \in Gpus /\ g \in live0[h]
  BY DEF CardsOf
<1>2. \A d \in CardsOf(live0) : d = <<d[1], d[2]>> /\ d[1] \in Hosts /\ d[2] \in live0[d[1]]
  BY DEF CardsOf
<1>3. f = NoFilter \/ f[h] = AllGpus \/ f[h] \subseteq live0[h]
  BY DEF HostOn
<1>4. (c \in Ticked(f, live0)) <=> GpuOn(f, h, g)
  BY DEF Ticked
<1> HIDE DEF h, g
<1>5. HostOn(f, h)
  BY DEF h
<1>6. Chosen(f, live0, h, g) # {} \/ Cut(Baseline(f), h) # NoFilter
  <2> SUFFICES ASSUME Chosen(f, live0, h, g) = {}, Cut(Baseline(f), h) = NoFilter
               PROVE  FALSE
    OBVIOUS
  <2>1. GpuOn(f, h, g) /\ Had(f, live0, h) \subseteq {g}
    BY DEF Chosen
  <2>2. \A x \in Hosts : \A y : GpuOn(f, x, y) => x = h
    BY BaselineOK, CutOK DEF Passes, NoFilter
  <2>3. \A y \in live0[h] : GpuOn(f, h, y) => y = g
    BY <1>1, <1>5, <2>1, HadOK
  <2>4. \A d \in CardsOf(live0) : GpuOn(f, d[1], d[2]) => d = c
    BY <1>1, <1>2, <2>2, <2>3
  <2>5. Ticked(f, live0) = {c}
    BY <1>4, <2>1, <2>4 DEF Ticked
  <2>6. QED
    BY <2>5
<1>7. \A x \in Hosts : \A y \in live0[x] :
        GpuOn(ToggleGpu(f, live0, h, g), x, y) <=>
          IF x = h /\ y = g THEN ~GpuOn(f, h, g) ELSE GpuOn(f, x, y)
  BY <1>1, <1>3, <1>5, <1>6, ToggleGpuOK
<1>8. \A d \in CardsOf(live0) :
        GpuOn(ToggleGpu(f, live0, h, g), d[1], d[2]) <=>
          IF d = c THEN ~GpuOn(f, h, g) ELSE GpuOn(f, d[1], d[2])
  BY <1>1, <1>2, <1>7
<1>9. Ticked(ToggleGpu(f, live0, h, g), live0) =
        IF c \in Ticked(f, live0) THEN Ticked(f, live0) \ {c} ELSE Ticked(f, live0) \cup {c}
  BY <1>4, <1>8 DEF Ticked
<1>10. QED
  BY <1>9 DEF h, g

----------------------------------------------------------------------------
(* The settings, as the page and the hub hold them.                         *)

Texts == Secrets \cup Masks \cup {"", "first"}

Settings ==
    [enabled : BOOLEAN, url : BOOLEAN, secret : Texts, filter : Filters, type : Types,
     mode : {"alerts", "metrics"}, fields : SUBSET Fields, headers : SUBSET {"", "X"},
     system : BOOLEAN]

SealedSettings ==
    [enabled : BOOLEAN, url : BOOLEAN, secret : {<<>>} \cup (Keys \X Texts), filter : Filters, type : Types,
     mode : {"alerts", "metrics"}, fields : SUBSET Fields, headers : SUBSET {"", "X"},
     system : BOOLEAN]

LEMMA Sealing ==
    ASSUME NEW k \in Keys, NEW s \in Texts
    PROVE  /\ EncryptSecret(k, s) \in {<<>>} \cup (Keys \X Texts)
           /\ DecryptSecret(k, EncryptSecret(k, s)) = s
<1>1. CASE s = ""
  BY <1>1 DEF EncryptSecret, DecryptSecret
<1>2. CASE s # ""
  <2>1. EncryptSecret(k, s) = <<k, s>>
    BY <1>2 DEF EncryptSecret
  <2>2. <<k, s>> # <<>> /\ <<k, s>>[1] = k /\ <<k, s>>[2] = s
    OBVIOUS
  <2>3. QED
    BY <2>1, <2>2 DEF DecryptSecret
<1>3. QED
  BY <1>1, <1>2

LEMMA UnsealedOK ==
    ASSUME NEW k \in Keys, NEW c \in SealedSettings
    PROVE  /\ Unsealed(k, c) \in Settings
           /\ Unsealed(k, c).secret = DecryptSecret(k, c.secret)
<1>1. c.secret \in {<<>>} \cup (Keys \X Texts)
  BY DEF SealedSettings
<1>2. DecryptSecret(k, c.secret) \in Texts
  BY <1>1 DEF DecryptSecret, Texts
<1>3. Unsealed(k, c) = [c EXCEPT !.secret = DecryptSecret(k, c.secret)]
  BY DEF Unsealed
<1>4. QED
  BY <1>2, <1>3 DEF Settings, SealedSettings

LEMMA SealedOK ==
    ASSUME NEW k \in Keys, NEW c \in Settings
    PROVE  Sealed(k, c) \in SealedSettings /\ Unsealed(k, Sealed(k, c)) = c
<1> DEFINE e == EncryptSecret(k, c.secret)
           d == Sealed(k, c)
<1>1. c.secret \in Texts
  BY DEF Settings
<1>2. e \in {<<>>} \cup (Keys \X Texts) /\ DecryptSecret(k, e) = c.secret
  BY <1>1, Sealing
<1>3. d = [c EXCEPT !.secret = e]
  BY DEF Sealed
<1>4. Unsealed(k, d) = [d EXCEPT !.secret = DecryptSecret(k, d.secret)]
  BY DEF Unsealed
<1> HIDE DEF d, e
<1>5. d \in SealedSettings /\ d.secret = e
  BY <1>2, <1>3 DEF Settings, SealedSettings
<1>6. Unsealed(k, d) = [d EXCEPT !.secret = c.secret]
  BY <1>2, <1>4, <1>5
<1>7. [d EXCEPT !.secret = c.secret] = c
  BY <1>3 DEF Settings
<1>8. QED
  BY <1>5, <1>6, <1>7 DEF d

(* Every control of a block leaves settings that can be stored.              *)
LEMMA FieldsApart ==
    ASSUME NEW d \in Settings
    PROVE  /\ \A v \in BOOLEAN : /\ [d EXCEPT !.enabled = v] \in Settings
                                 /\ [d EXCEPT !.url = v] \in Settings
                                 /\ [d EXCEPT !.system = v] \in Settings
           /\ \A v \in Texts : [d EXCEPT !.secret = v] \in Settings
           /\ \A v \in Filters : [d EXCEPT !.filter = v] \in Settings
           /\ \A v \in Types : [d EXCEPT !.type = v] \in Settings
           /\ \A v \in {"alerts", "metrics"} : [d EXCEPT !.mode = v] \in Settings
           /\ \A v \in SUBSET Fields : [d EXCEPT !.fields = v] \in Settings
           /\ \A v \in SUBSET {"", "X"} : [d EXCEPT !.headers = v] \in Settings
           /\ d.filter \in Filters /\ d.headers \in SUBSET {"", "X"} /\ d.fields \in SUBSET Fields
<1>1. ASSUME NEW v \in BOOLEAN PROVE [d EXCEPT !.enabled = v] \in Settings
  BY DEF Settings
<1>2. ASSUME NEW v \in BOOLEAN PROVE [d EXCEPT !.url = v] \in Settings
  BY DEF Settings
<1>3. ASSUME NEW v \in Texts PROVE [d EXCEPT !.secret = v] \in Settings
  BY DEF Settings
<1>4. ASSUME NEW v \in Filters PROVE [d EXCEPT !.filter = v] \in Settings
  BY DEF Settings
<1>5. ASSUME NEW v \in Types PROVE [d EXCEPT !.type = v] \in Settings
  BY DEF Settings
<1>6. ASSUME NEW v \in {"alerts", "metrics"} PROVE [d EXCEPT !.mode = v] \in Settings
  BY DEF Settings
<1>7. ASSUME NEW v \in SUBSET Fields PROVE [d EXCEPT !.fields = v] \in Settings
  BY DEF Settings
<1>8. ASSUME NEW v \in SUBSET {"", "X"} PROVE [d EXCEPT !.headers = v] \in Settings
  BY DEF Settings
<1>0. ASSUME NEW v \in BOOLEAN PROVE [d EXCEPT !.system = v] \in Settings
  BY DEF Settings
<1>9. d.filter \in Filters /\ d.headers \in SUBSET {"", "X"} /\ d.fields \in SUBSET Fields
  BY DEF Settings
<1>10. QED
  BY <1>0, <1>1, <1>2, <1>3, <1>4, <1>5, <1>6, <1>7, <1>8, <1>9

LEMMA TypedOK == ASSUME NEW d \in Settings PROVE SecretTyped(d) \subseteq Settings
<1> DEFINE S == (Secrets \cup {""} \cup IF d.secret = Mask THEN Masks ELSE {}) \ {d.secret}
<1>1. \A s \in S : s \in Texts
  BY DEF Texts
<1>2. SecretTyped(d) = {[d EXCEPT !.secret = s] : s \in S}
  BY DEF SecretTyped
<1> HIDE DEF S
<1>3. \A s \in S : [d EXCEPT !.secret = s] \in Settings
  BY <1>1, FieldsApart
<1>4. QED
  BY <1>2, <1>3

LEMMA SwitchOK ==
    ASSUME NEW d \in Settings PROVE Switch(d) \in Settings /\ SystemStatsToggle(d) \in Settings
<1>1. (~d.enabled) \in BOOLEAN /\ (~d.system) \in BOOLEAN
  OBVIOUS
<1>2. QED
  BY <1>1, FieldsApart DEF Switch, SystemStatsToggle

LEMMA FilterChangesOK ==
    ASSUME NEW d \in Settings, live \in Seen PROVE FilterChanges(d) \subseteq Settings
<1>1. FilterEdits(d.filter, live) \subseteq Filters
  BY FilterEditsOK DEF Settings
<1>2. QED
  BY <1>1, FieldsApart DEF FilterChanges

LEMMA UrlOK == ASSUME NEW d \in Settings PROVE [d EXCEPT !.url = ~@] \in Settings
<1>1. (~d.url) \in BOOLEAN
  OBVIOUS
<1>2. QED
  BY <1>1, FieldsApart

LEMMA HeaderEditsOK == ASSUME NEW hs \in SUBSET {"", "X"} PROVE HeaderEdits(hs) \subseteq SUBSET {"", "X"}
BY DEF HeaderEdits

LEMMA FieldEditsOK == ASSUME NEW fs \in SUBSET Fields PROVE FieldEdits(fs) \subseteq SUBSET Fields
BY DEF FieldEdits

LEMMA WebhookEditsOK ==
    ASSUME NEW d \in Settings, live \in Seen PROVE WebhookEdits(d) \subseteq Settings
<1>1. {[d EXCEPT !.type = t] : t \in Types} \subseteq Settings
  BY FieldsApart
<1>2. {[d EXCEPT !.mode = m] : m \in {"alerts", "metrics"}} \subseteq Settings
  BY FieldsApart
<1>3. {[d EXCEPT !.headers = hs] : hs \in HeaderEdits(d.headers)} \subseteq Settings
  <2>1. HeaderEdits(d.headers) \subseteq SUBSET {"", "X"}
    BY HeaderEditsOK, FieldsApart
  <2>2. \A v \in HeaderEdits(d.headers) : [d EXCEPT !.headers = v] \in Settings
    BY <2>1, FieldsApart
  <2>3. QED
    BY <2>2
<1>4. {[d EXCEPT !.fields = fs] : fs \in FieldEdits(d.fields)} \subseteq Settings
  <2>1. FieldEdits(d.fields) \subseteq SUBSET Fields
    BY FieldEditsOK, FieldsApart
  <2>2. \A v \in FieldEdits(d.fields) : [d EXCEPT !.fields = v] \in Settings
    BY <2>1, FieldsApart
  <2>3. QED
    BY <2>2
<1>5. QED
  BY <1>1, <1>2, <1>3, <1>4, SwitchOK, UrlOK, TypedOK, FilterChangesOK DEF WebhookEdits

LEMMA EditsOK ==
    ASSUME kind \in Kinds, NEW d \in Settings, live \in Seen PROVE EditsOf(d) \subseteq Settings
<1>1. CASE kind = "prometheus"
  BY <1>1, SwitchOK, FilterChangesOK DEF EditsOf, PrometheusEdits
<1>2. CASE kind = "influxdb"
  BY <1>2, SwitchOK, UrlOK, TypedOK, FilterChangesOK DEF EditsOf, InfluxEdits
<1>3. CASE kind = "webhook"
  BY <1>3, WebhookEditsOK DEF EditsOf
<1>4. QED
  BY <1>1, <1>2, <1>3 DEF Kinds

(* The invariant: the intervals push what is stored, and every secret on its *)
(* way is the mask or one that was typed.                                    *)
SlotTypeOK == kind \in Kinds /\ key \in Keys /\ kept \in SealedSettings

PageTypeOK ==
    /\ shown \in {NotRead} \cup {Answer(c) : c \in Settings}
    /\ draft \in Settings /\ live \in Seen
    /\ reads \subseteq {Asked} \cup {Answer(c) : c \in Settings}
    /\ busy \in {Idle} \cup ({"save", "test", "saved", "tested"} \X Settings)

IntervalsAsStored == intervals \subseteq {Config} /\ \A c \in intervals : Ticks(c)

KeptAsTyped == \A k \in Keys : DecryptSecret(k, kept.secret) \in typed

ToldSecret(c) == c.secret \in typed \cup {Mask}

PageAsTyped ==
    /\ "" \in typed
    /\ ToldSecret(draft)
    /\ shown # NotRead => ToldSecret(shown[1])
    /\ \A a \in reads : a # Asked => ToldSecret(a[1])
    /\ busy # Idle => ToldSecret(Body(busy))

ExportsInv ==
    SlotTypeOK /\ PageTypeOK /\ IntervalsAsStored /\ KeptAsTyped /\ PageAsTyped /\ PushedAsStored

LEMMA ConfigOK == ASSUME SlotTypeOK PROVE Config \in Settings /\ Config.secret = DecryptSecret(key, kept.secret)
BY UnsealedOK DEF SlotTypeOK, Config

LEMMA DefaultsOK == ASSUME kind \in Kinds PROVE Defaults \in Settings
<1>1. (kind # "webhook") \in BOOLEAN
  OBVIOUS
<1>2. QED
  BY <1>1, NoFilterOK DEF Defaults, Settings, Texts, Types

LEMMA SlotKept ==
    ASSUME UNCHANGED <<key, kept>>
    PROVE  Config' = Config
BY DEF Config, Unsealed

LEMMA FilteredOK ==
    ASSUME NEW s, NEW f
    PROVE  \A c \in CardsOf(ApplyHostFilter(s, f)) : c \in CardsOf(s) /\ GpuOn(f, c[1], c[2])
<1>1. CASE f = NoFilter
  BY <1>1 DEF ApplyHostFilter, GpuOn, HostOn
<1>2. CASE f # NoFilter
  <2> DEFINE a == ApplyHostFilter(s, f)
  <2>1. a = [h \in {x \in DOMAIN s \cap DOMAIN f : f[x] = AllGpus \/ s[x] \cap f[x] # {}} |->
               IF f[h] = AllGpus THEN s[h] ELSE s[h] \cap f[h]]
    BY <1>2 DEF ApplyHostFilter
  <2> HIDE DEF a
  <2>2. \A h, g : h \in DOMAIN a /\ g \in a[h] => h \in DOMAIN s /\ g \in s[h] /\ GpuOn(f, h, g)
    BY <1>2, <2>1 DEF GpuOn, HostOn
  <2>3. QED
    BY <2>2 DEF CardsOf, a
<1>3. QED
  BY <1>1, <1>2

LEMMA LinesOK ==
    ASSUME NEW s, NEW f, NEW known \in SUBSET Fields
    PROVE  \A l \in Lines(ApplyHostFilter(s, f), known) :
             /\ GpuOn(f, l.card[1], l.card[2])
             /\ l.fields = known
BY FilteredOK DEF Lines

LEMMA NothingSent == sent' = {} => PushedAsStored'
BY DEF PushedAsStored

(* The page's own steps.                                                    *)
LEMMA PageStep ==
    ASSUME ExportsInv, UNCHANGED <<kind, kept, key, intervals>>, sent' = {},
           PageTypeOK', PageAsTyped', typed \subseteq typed'
    PROVE  ExportsInv'
<1>1. SlotTypeOK' /\ KeptAsTyped'
  BY DEF ExportsInv, SlotTypeOK, KeptAsTyped
<1>2. IntervalsAsStored'
  BY SlotKept DEF ExportsInv, IntervalsAsStored, Ticks
<1>3. QED
  BY <1>1, <1>2, NothingSent DEF ExportsInv

LEMMA EditInv ==
    ASSUME ExportsInv, NEW d \in EditsOf(draft), Edit(d), Quiet
    PROVE  ExportsInv'
<1>1. /\ draft' = d /\ typed' = typed \cup ({d.secret} \ {Mask})
      /\ UNCHANGED <<shown, live, reads, busy, kind, kept, key, intervals>> /\ sent' = {}
  BY DEF Edit, Quiet
<1>2. d \in Settings
  BY EditsOK DEF ExportsInv, SlotTypeOK, PageTypeOK
<1>3. PageTypeOK'
  BY <1>1, <1>2 DEF ExportsInv, PageTypeOK
<1>4. PageAsTyped'
  BY <1>1 DEF ExportsInv, PageAsTyped, ToldSecret
<1>5. QED
  BY <1>1, <1>3, <1>4, PageStep

LEMMA ReadServedInv ==
    ASSUME ExportsInv, ReadServed, Quiet
    PROVE  ExportsInv'
<1> DEFINE r == Redacted(Config)
<1>1. /\ reads' \subseteq reads \cup {Answer(r)}
      /\ UNCHANGED <<shown, draft, live, busy, typed, kind, kept, key, intervals>> /\ sent' = {}
  BY DEF ReadServed, Quiet
<1>2. r \in Settings /\ r.secret \in {"", Mask}
  <2>1. r = [Config EXCEPT !.secret = IF Config.secret = "" THEN "" ELSE Mask]
    BY DEF Redacted
  <2>2. "" \in Texts /\ Mask \in Texts
    BY DEF Texts, Masks
  <2>3. Config \in Settings
    BY ConfigOK DEF ExportsInv
  <2>4. r.secret = IF Config.secret = "" THEN "" ELSE Mask
    BY <2>1, <2>3 DEF Settings
  <2>5. QED
    BY <2>1, <2>2, <2>3, <2>4, FieldsApart
<1> HIDE DEF r
<1>3. Answer(r)[1] = r
  BY DEF Answer
<1>4. PageTypeOK'
  BY <1>1, <1>2 DEF ExportsInv, PageTypeOK
<1>5. PageAsTyped'
  <2>1. \A a \in reads' : a # Asked => ToldSecret(a[1])'
    BY <1>1, <1>2, <1>3 DEF ExportsInv, PageAsTyped, ToldSecret
  <2>2. QED
    BY <1>1, <2>1 DEF ExportsInv, PageAsTyped, ToldSecret
<1>6. QED
  BY <1>1, <1>4, <1>5, PageStep

LEMMA ReadShownInv ==
    ASSUME ExportsInv, NEW a \in reads, ReadShown(a), Quiet
    PROVE  ExportsInv'
<1>1. PICK c \in Settings : a = Answer(c)
  BY DEF ExportsInv, PageTypeOK, ReadShown
<1>2. a[1] = c
  BY <1>1 DEF Answer
<1>3. /\ shown' = a /\ reads' = reads \ {a}
      /\ UNCHANGED <<live, busy, typed, kind, kept, key, intervals>> /\ sent' = {}
      /\ \/ draft' = c
         \/ \E on, system \in {c.enabled, c.system, draft.enabled, draft.system} :
              draft' = [c EXCEPT !.enabled = on, !.system = system]
  <2>1. draft' = IF kind = "prometheus" /\ shown # NotRead
                 THEN [c EXCEPT !.enabled = IF shown[1].enabled = c.enabled THEN draft.enabled ELSE c.enabled,
                                !.system = IF shown[1].system = c.system THEN draft.system ELSE c.system]
                 ELSE c
    BY <1>2 DEF ReadShown
  <2>2. QED
    BY <2>1 DEF ReadShown, Quiet
<1>4. draft' \in Settings /\ draft'.secret = c.secret
  <2>1. {c.enabled, c.system, draft.enabled, draft.system} \subseteq BOOLEAN
    BY DEF ExportsInv, PageTypeOK, Settings
  <2>2. \A on, system \in BOOLEAN :
          LET d == [c EXCEPT !.enabled = on, !.system = system] IN d \in Settings /\ d.secret = c.secret
    BY DEF Settings
  <2>3. QED
    BY <1>3, <2>1, <2>2
<1>5. ToldSecret(c)
  BY <1>2 DEF ExportsInv, PageAsTyped, ReadShown
<1>6. PageTypeOK'
  BY <1>1, <1>3, <1>4 DEF ExportsInv, PageTypeOK
<1>7. PageAsTyped'
  BY <1>2, <1>3, <1>4, <1>5 DEF ExportsInv, PageAsTyped, ToldSecret
<1>8. QED
  BY <1>3, <1>6, <1>7, PageStep

LEMMA BusyInv ==
    ASSUME ExportsInv, Quiet, UNCHANGED <<shown, draft, live, typed>>,
           reads' \subseteq reads \cup {Asked},
           busy' \in {busy, Idle, Request("save", draft), Request("test", draft)}
    PROVE  ExportsInv'
<1>1. draft \in Settings
  BY DEF ExportsInv, PageTypeOK
<1>2. PageTypeOK'
  BY <1>1 DEF ExportsInv, PageTypeOK, Request
<1>3. Body(Request("save", draft)) = draft /\ Body(Request("test", draft)) = draft
  BY DEF Body, Request
<1>4. busy' # Idle => ToldSecret(Body(busy'))
  BY <1>3 DEF ExportsInv, PageAsTyped
<1>5. PageAsTyped'
  BY <1>4 DEF ExportsInv, PageAsTyped, ToldSecret
<1>6. QED
  BY <1>2, <1>5, PageStep DEF Quiet

LEMMA SeesInv ==
    ASSUME ExportsInv, NEW h \in Hosts, NEW gs \in SampleSets[h], Samples(h, gs), PageSees(h, gs)
    PROVE  ExportsInv'
<1>1. live' \in Seen
  <2>1. live \in Seen /\ live[h] \cup gs \in SUBSET Gpus
    BY PageConstantsOK DEF ExportsInv, PageTypeOK, PageConstantsOK, Seen
  <2>2. QED
    BY <2>1 DEF PageSees, Seen
<1>2. PageTypeOK' /\ PageAsTyped'
  BY <1>1 DEF ExportsInv, PageTypeOK, PageAsTyped, PageSees, ToldSecret
<1>3. QED
  BY <1>2, PageStep DEF Samples, PageSees

(* The hub's steps: what is stored, and what leaves under it.               *)
LEMMA HubStep ==
    ASSUME ExportsInv, UNCHANGED pageVars, SlotTypeOK', IntervalsAsStored', KeptAsTyped', PushedAsStored'
    PROVE  ExportsInv'
BY DEF ExportsInv, pageVars, PageTypeOK, PageAsTyped, ToldSecret

(* A step that stores nothing, of intervals that may go.                    *)
LEMMA SettingsStay ==
    ASSUME ExportsInv, UNCHANGED <<kind, kept, key, typed>>, intervals' \in {intervals, {}}
    PROVE  SlotTypeOK' /\ IntervalsAsStored' /\ KeptAsTyped' /\ Config' = Config
BY SlotKept DEF ExportsInv, SlotTypeOK, IntervalsAsStored, KeptAsTyped, Ticks

LEMMA SealedTyped ==
    ASSUME NEW c \in Settings, NEW k \in Keys, c.secret \in typed, "" \in typed
    PROVE  \A j \in Keys : DecryptSecret(j, Sealed(k, c).secret) \in typed
<1>1. Sealed(k, c).secret = EncryptSecret(k, c.secret)
  <2>1. Sealed(k, c) = [c EXCEPT !.secret = EncryptSecret(k, c.secret)]
    BY DEF Sealed
  <2>2. QED
    BY <2>1 DEF Settings
<1>2. CASE c.secret = ""
  BY <1>1, <1>2 DEF EncryptSecret, DecryptSecret
<1>3. CASE c.secret # ""
  <2>1. Sealed(k, c).secret = <<k, c.secret>>
    BY <1>1, <1>3 DEF EncryptSecret
  <2>2. <<k, c.secret>>[2] = c.secret
    OBVIOUS
  <2>3. \A j \in Keys : DecryptSecret(j, <<k, c.secret>>) \in {"", c.secret}
    BY <2>2 DEF DecryptSecret
  <2>4. QED
    BY <2>1, <2>3
<1>4. QED
  BY <1>2, <1>3

(* Settings that are stored are the ones applied: the intervals follow.     *)
LEMMA StoredOK ==
    ASSUME ExportsInv, NEW c \in Settings, c.secret \in typed,
           kept' = Sealed(key, c), UNCHANGED <<kind, key, typed>>,
           \/ Apply(c)
           \/ c = Config /\ UNCHANGED intervals
    PROVE  SlotTypeOK' /\ IntervalsAsStored' /\ KeptAsTyped'
<1>1. key \in Keys /\ "" \in typed
  BY DEF ExportsInv, SlotTypeOK, PageAsTyped
<1>2. SlotTypeOK'
  BY <1>1, SealedOK DEF ExportsInv, SlotTypeOK
<1>3. Config' = c
  <2>1. Config' = Unsealed(key, Sealed(key, c))
    BY DEF Config, Unsealed
  <2>2. QED
    BY <1>1, <2>1, SealedOK
<1>4. IntervalsAsStored'
  <2>1. CASE Apply(c)
    BY <1>3, <2>1 DEF Apply, IntervalsAsStored, Ticks
  <2>2. CASE c = Config /\ UNCHANGED intervals
    BY <1>3, <2>2 DEF ExportsInv, IntervalsAsStored, Ticks
  <2>3. QED
    BY <2>1, <2>2
<1>5. KeptAsTyped'
  BY <1>1, SealedTyped DEF KeptAsTyped
<1>6. QED
  BY <1>2, <1>4, <1>5

LEMMA SaveInv ==
    ASSUME ExportsInv, NEW patch \in Settings, ToldSecret(patch), SetSlot(patch), UNCHANGED typed
    PROVE  SlotTypeOK' /\ IntervalsAsStored' /\ KeptAsTyped'
<1> DEFINE c == Patched(Config, patch)
<1>1. Config \in Settings /\ Config.secret \in typed
  BY ConfigOK DEF ExportsInv, KeptAsTyped, SlotTypeOK
<1>2. c \in Settings /\ c.secret \in typed
  <2>1. CASE patch.secret = Mask
    <3>1. c = [patch EXCEPT !.secret = Config.secret]
      BY <2>1 DEF Patched
    <3>2. Config.secret \in Texts
      BY <1>1 DEF Settings
    <3>3. c.secret = Config.secret
      BY <3>1 DEF Settings
    <3>4. QED
      BY <1>1, <3>1, <3>2, <3>3, FieldsApart
  <2>2. CASE patch.secret # Mask
    BY <2>2 DEF Patched, ToldSecret
  <2>3. QED
    BY <2>1, <2>2
<1>3. kept' = Sealed(key, c) /\ Apply(c) /\ UNCHANGED <<kind, key>>
  BY DEF SetSlot
<1> HIDE DEF c
<1>4. QED
  BY <1>2, <1>3, StoredOK

LEMMA OtherSavedInv ==
    ASSUME ExportsInv, OtherSaved, UNCHANGED pageVars
    PROVE  ExportsInv'
<1>1. Config \in Settings /\ Config.secret \in typed
  BY ConfigOK DEF ExportsInv, KeptAsTyped, SlotTypeOK
<1>2. SlotTypeOK' /\ IntervalsAsStored' /\ KeptAsTyped'
  BY <1>1, StoredOK DEF OtherSaved, pageVars
<1>3. QED
  BY <1>2, HubStep, NothingSent DEF OtherSaved

LEMMA TestSends ==
    ASSUME NEW patch, TestRuns(patch) PROVE \A m \in sent' : m.what = "test"
<1> DEFINE c == MergedForTest(Config, patch)
           stats == IF kind = "webhook" THEN SystemStats(c) ELSE {}
<1>1. \/ WebhookBody(c) = Message("json", Lines(ApplyHostFilter(heard, c.filter), Picked(c.fields)), SystemStats(c), SecretSent(c))
      \/ WebhookBody(c) = Summary(c)
  BY DEF WebhookBody
<1>2. [WebhookBody(c) EXCEPT !.what = "test"].what = "test"
  BY <1>1 DEF Message, Summary
<1>3. Message("test", {}, stats, SecretSent(c)).what = "test"
  BY DEF Message
<1>4. sent' \subseteq {[WebhookBody(c) EXCEPT !.what = "test"], Message("test", {}, stats, SecretSent(c))}
  BY DEF TestRuns
<1> HIDE DEF c, stats
<1>5. QED
  BY <1>2, <1>3, <1>4

LEMMA TestsPushNothing == (\A m \in sent' : m.what = "test") => PushedAsStored'
BY DEF PushedAsStored

LEMMA ClickServedInv ==
    ASSUME ExportsInv, ClickServed
    PROVE  ExportsInv'
<1> DEFINE body == Body(busy)
<1>1. body \in Settings /\ ToldSecret(body) /\ busy # Idle
  BY DEF ExportsInv, PageTypeOK, PageAsTyped, ClickServed, Body
<1>2. /\ busy' \in {Request("saved", body), Request("tested", body)}
      /\ UNCHANGED <<shown, draft, live, reads, typed, edits, saves>>
      /\ SetSlot(body) \/ TestRuns(body)
  BY DEF ClickServed
<1> HIDE DEF body
<1>3. SlotTypeOK' /\ IntervalsAsStored' /\ KeptAsTyped'
  <2>1. CASE SetSlot(body)
    BY <1>1, <1>2, <2>1, SaveInv
  <2>2. CASE TestRuns(body)
    BY <1>2, <2>2, SettingsStay DEF TestRuns
  <2>3. QED
    BY <1>2, <2>1, <2>2
<1>4. PushedAsStored'
  BY <1>2, NothingSent, TestSends, TestsPushNothing DEF SetSlot
<1>5. PageTypeOK'
  BY <1>1, <1>2 DEF ExportsInv, PageTypeOK, Request
<1>6. Body(busy') = body
  BY <1>2 DEF Request, Body
<1>7. PageAsTyped'
  BY <1>1, <1>2, <1>6 DEF ExportsInv, PageAsTyped, ToldSecret
<1>8. QED
  BY <1>3, <1>4, <1>5, <1>7 DEF ExportsInv

\* What a push, an alert or a scrape owes to the settings it was made under.
MadeUnder(m, c) ==
    /\ m.secret = SecretSent(c)
    /\ ("stats" \in m.host) <=> c.system
    /\ m.what # "summary" => \A l \in m.lines : GpuOn(c.filter, l.card[1], l.card[2])
    /\ m.what = "json" => \A l \in m.lines : l.fields = Picked(c.fields)

LEMMA StatsSaid ==
    ASSUME NEW c PROVE /\ ("stats" \in SystemStats(c)) <=> c.system
                       /\ \A s : ("stats" \in SystemStats(c) \cup HostInfo(s)) <=> c.system
BY DEF SystemStats, HostInfo

LEMMA IntervalInv ==
    ASSUME ExportsInv, NEW c \in intervals, NEW known \in Reported, IntervalFires(c, known), UNCHANGED pageVars
    PROVE  ExportsInv'
<1>1. c = Config /\ Ticks(Config) /\ c \in Settings
  BY ConfigOK DEF ExportsInv, IntervalsAsStored
<1>2. /\ SlotTypeOK' /\ IntervalsAsStored' /\ KeptAsTyped' /\ Config' = Config /\ kind' = kind
  BY SettingsStay DEF IntervalFires, pageVars
<1>3. known \in SUBSET Fields
  BY DEF Reported
<1> DEFINE s == ApplyHostFilter(heard, c.filter)
<1>4. \A m \in sent' : m.what \in {"points", "json", "summary"} /\ MadeUnder(m, c)
  <2>1. CASE PushInflux(c, known)
    <3> DEFINE lines == Lines(s, known)
               b == Message("points", lines, SystemStats(c), SecretSent(c))
    <3>1. sent' \subseteq {b}
      BY <2>1 DEF PushInflux
    <3>2. \A l \in lines : GpuOn(c.filter, l.card[1], l.card[2])
      BY <1>3, LinesOK
    <3> HIDE DEF lines
    <3>3. b.what = "points" /\ b.lines = lines /\ b.host = SystemStats(c) /\ b.secret = SecretSent(c)
      BY DEF Message
    <3> HIDE DEF b
    <3>4. MadeUnder(b, c)
      BY <3>2, <3>3, StatsSaid DEF MadeUnder
    <3>5. QED
      BY <3>1, <3>3, <3>4
  <2>2. CASE PushWebhook(c)
    <3> DEFINE lines == Lines(s, Picked(c.fields))
               b == Message("json", lines, SystemStats(c), SecretSent(c))
               d == Summary(c)
    <3>1. sent' \subseteq {b, d}
      BY <2>2 DEF PushWebhook, WebhookBody
    <3>2. Picked(c.fields) \in SUBSET Fields
      BY <1>1, FieldsApart DEF Picked
    <3>3. \A l \in lines : GpuOn(c.filter, l.card[1], l.card[2]) /\ l.fields = Picked(c.fields)
      BY <3>2, LinesOK
    <3> HIDE DEF lines
    <3>4. b.what = "json" /\ b.lines = lines /\ b.host = SystemStats(c) /\ b.secret = SecretSent(c)
      BY DEF Message
    <3>5. d.what = "summary" /\ d.host = SystemStats(c) /\ d.secret = SecretSent(c)
      BY DEF Summary, Message
    <3> HIDE DEF b, d
    <3>6. MadeUnder(b, c) /\ MadeUnder(d, c)
      BY <3>3, <3>4, <3>5, StatsSaid DEF MadeUnder
    <3>7. QED
      BY <3>1, <3>4, <3>5, <3>6
  <2>3. QED
    BY <2>1, <2>2 DEF IntervalFires
<1>5. Ticks(Config)' = Ticks(Config) /\ SecretSent(Config)' = SecretSent(Config)
  BY <1>2 DEF Ticks, SecretSent
<1>6. PushedAsStored'
  BY <1>1, <1>2, <1>4, <1>5 DEF PushedAsStored, MadeUnder, Ticks
<1>7. QED
  BY <1>2, <1>6, HubStep

LEMMA AlertInv ==
    ASSUME ExportsInv, NEW n, AlertRaised(n), UNCHANGED pageVars
    PROVE  ExportsInv'
<1>1. SlotTypeOK' /\ IntervalsAsStored' /\ KeptAsTyped' /\ Config' = Config /\ kind' = kind
  BY SettingsStay DEF AlertRaised, pageVars
<1>2. CASE listening /\ n /\ Config.enabled /\ Config.mode = "alerts" /\ Addressed(Config)
  <2> DEFINE b == Message("alert", {}, SystemStats(Config), SecretSent(Config))
  <2>1. sent' \subseteq {b}
    BY <1>2 DEF AlertRaised
  <2>2. b.what = "alert" /\ b.lines = {} /\ b.host = SystemStats(Config) /\ b.secret = SecretSent(Config)
    BY DEF Message
  <2> HIDE DEF b
  <2>3. MadeUnder(b, Config)
    BY <2>2, StatsSaid DEF MadeUnder
  <2>4. SecretSent(Config)' = SecretSent(Config)
    BY <1>1 DEF SecretSent
  <2>5. PushedAsStored'
    BY <1>1, <1>2, <2>1, <2>2, <2>3, <2>4 DEF PushedAsStored, MadeUnder
  <2>6. QED
    BY <1>1, <2>5, HubStep
<1>3. CASE ~(listening /\ n /\ Config.enabled /\ Config.mode = "alerts" /\ Addressed(Config))
  <2>1. sent' = {}
    BY <1>3 DEF AlertRaised
  <2>2. QED
    BY <1>1, <2>1, HubStep, NothingSent
<1>4. QED
  BY <1>2, <1>3

LEMMA ScrapeInv ==
    ASSUME ExportsInv, NEW known \in Reported, Scraped(known), UNCHANGED pageVars
    PROVE  ExportsInv'
<1> DEFINE s == ApplyHostFilter(heard, Config.filter)
           lines == Lines(s, known)
           host == SystemStats(Config) \cup HostInfo(s)
           b == Message("scrape", lines, host, "")
<1>1. /\ SlotTypeOK' /\ IntervalsAsStored' /\ KeptAsTyped' /\ Config' = Config /\ kind' = kind
  BY SettingsStay DEF Scraped, pageVars
<1>2. sent' \subseteq {b} /\ (sent' # {} => Config.enabled)
  BY DEF Scraped, RenderPrometheus
<1>3. known \in SUBSET Fields
  BY DEF Reported
<1>4. \A l \in lines : GpuOn(Config.filter, l.card[1], l.card[2])
  BY <1>3, LinesOK
<1>5. ("stats" \in host) <=> Config.system
  BY StatsSaid
<1>6. SecretSent(Config) = ""
  BY DEF Scraped, SecretSent
<1> HIDE DEF lines, host
<1>7. b.what = "scrape" /\ b.lines = lines /\ b.host = host /\ b.secret = ""
  BY DEF Message
<1> HIDE DEF b
<1>8. MadeUnder(b, Config)
  BY <1>4, <1>5, <1>6, <1>7 DEF MadeUnder
<1>9. SecretSent(Config)' = SecretSent(Config)
  BY <1>1 DEF SecretSent
<1>10. PushedAsStored'
  BY <1>1, <1>2, <1>7, <1>8, <1>9 DEF PushedAsStored, MadeUnder
<1>11. QED
  BY <1>1, <1>10, HubStep

LEMMA StartsInv ==
    ASSUME ExportsInv, NEW k \in Keys, HubStarts(k), UNCHANGED pageVars
    PROVE  ExportsInv'
<1>1. key' = k /\ UNCHANGED <<kind, kept, typed>> /\ sent' = {}
  BY DEF HubStarts, pageVars
<1>2. SlotTypeOK' /\ KeptAsTyped'
  BY <1>1 DEF ExportsInv, SlotTypeOK, KeptAsTyped
<1>3. Config' = Unsealed(k, kept)
  BY <1>1 DEF Config, Unsealed
<1>4. IntervalsAsStored'
  BY <1>1, <1>3 DEF HubStarts, Boot, Apply, IntervalsAsStored, Ticks
<1>5. QED
  BY <1>1, <1>2, <1>4, HubStep, NothingSent

LEMMA RestInv ==
    ASSUME ExportsInv, UNCHANGED pageVars,
           (\E r \in flying : Answered(r)) \/ PushRejected \/ HubStops \/ Listens
    PROVE  ExportsInv'
<1>1. UNCHANGED <<kind, kept, key, typed>> /\ intervals' \in {intervals, {}} /\ sent' = {}
  BY DEF Answered, PushRejected, HubStops, Listens, pageVars
<1>2. QED
  BY <1>1, SettingsStay, HubStep, NothingSent

LEMMA ExportsInitInv == ExportsInit => ExportsInv
<1> SUFFICES ASSUME ExportsInit PROVE ExportsInv
  OBVIOUS
<1>1. kind \in Kinds /\ key \in Keys /\ PageInit
  BY SlotConstantsOK DEF ExportsInit, SlotConstantsOK
<1>2. PICK on \in BOOLEAN :
        kept = Sealed(key, [Defaults EXCEPT
                 !.enabled = on, !.url = @ \/ on, !.mode = IF on THEN "metrics" ELSE @,
                 !.secret = IF on /\ kind # "prometheus" THEN "first" ELSE @])
  BY DEF ExportsInit
<1> DEFINE d == [Defaults EXCEPT
                   !.enabled = on, !.url = @ \/ on, !.mode = IF on THEN "metrics" ELSE @,
                   !.secret = IF on /\ kind # "prometheus" THEN "first" ELSE @]
<1>3. Defaults \in Settings
  BY <1>1, DefaultsOK
<1>4. d \in Settings
  <2>1. (Defaults.url \/ on) \in BOOLEAN
    OBVIOUS
  <2>2. (IF on THEN "metrics" ELSE Defaults.mode) \in {"alerts", "metrics"}
    BY <1>3 DEF Settings
  <2>3. (IF on /\ kind # "prometheus" THEN "first" ELSE Defaults.secret) \in Texts
    BY <1>3 DEF Settings, Texts
  <2> DEFINE u == Defaults.url \/ on
             m == IF on THEN "metrics" ELSE Defaults.mode
             x == IF on /\ kind # "prometheus" THEN "first" ELSE Defaults.secret
  <2>4. d = [Defaults EXCEPT !.enabled = on, !.url = u, !.mode = m, !.secret = x]
    OBVIOUS
  <2> HIDE DEF d, u, m, x
  <2>5. QED
    BY <1>3, <2>1, <2>2, <2>3, <2>4 DEF Settings, u, m, x
<1>5. kept = Sealed(key, d)
  BY <1>2
<1> HIDE DEF d
<1>6. SlotTypeOK /\ Config = d
  BY <1>1, <1>4, <1>5, SealedOK DEF SlotTypeOK, Config
<1>7. typed = {Config.secret, ""} /\ draft = Defaults /\ shown = NotRead /\ reads = {Asked} /\ busy = Idle
      /\ live = [h \in Hosts |-> {}]
  BY <1>1 DEF PageInit
<1>8. PageTypeOK
  BY <1>3, <1>7 DEF PageTypeOK, Seen
<1>9. PageAsTyped
  BY <1>7 DEF PageAsTyped, ToldSecret, Defaults
<1>10. KeptAsTyped
  BY <1>1, <1>4, <1>5, <1>6, <1>7, SealedTyped DEF KeptAsTyped
<1>11. IntervalsAsStored /\ PushedAsStored
  BY DEF ExportsInit, IntervalsAsStored, PushedAsStored
<1>12. QED
  BY <1>6, <1>8, <1>9, <1>10, <1>11 DEF ExportsInv

LEMMA ExportsStepInv == ExportsInv /\ [ExportsNext]_exportVars => ExportsInv'
<1> SUFFICES ASSUME ExportsInv, [ExportsNext]_exportVars PROVE ExportsInv'
  OBVIOUS
<1>1. CASE \E h \in Hosts : \E gs \in SampleSets[h] : Samples(h, gs) /\ PageSees(h, gs)
  BY <1>1, SeesInv
<1>2. CASE \E c \in intervals, known \in Reported : IntervalFires(c, known) /\ UNCHANGED pageVars
  BY <1>2, IntervalInv
<1>3. CASE \E n \in BOOLEAN : AlertRaised(n) /\ UNCHANGED pageVars
  BY <1>3, AlertInv
<1>4. CASE \E known \in Reported : Scraped(known) /\ UNCHANGED pageVars
  BY <1>4, ScrapeInv
<1>5. CASE ((\E r \in flying : Answered(r)) \/ PushRejected \/ HubStops \/ Listens) /\ UNCHANGED pageVars
  BY <1>5, RestInv
<1>6. CASE \E k \in Keys : HubStarts(k) /\ UNCHANGED pageVars
  BY <1>6, StartsInv
<1>7. CASE OtherSaved /\ UNCHANGED pageVars
  BY <1>7, OtherSavedInv
<1>8. CASE \E d \in EditsOf(draft) : Edit(d) /\ Quiet
  BY <1>8, EditInv
<1>9. CASE ReadServed /\ Quiet
  BY <1>9, ReadServedInv
<1>10. CASE \E a \in reads : ReadShown(a) /\ Quiet
  BY <1>10, ReadShownInv
<1>11. CASE (Reopens \/ (\E op \in {"save", "test"} : Click(op)) \/ ClickAnswered \/ ClickFails) /\ Quiet
  BY <1>11, BusyInv DEF Reopens, Click, ClickAnswered, ClickFails
<1>12. CASE ClickServed
  BY <1>12, ClickServedInv
<1>13. CASE UNCHANGED exportVars
  <2>1. UNCHANGED <<kind, kept, key, typed, intervals, sent, heard>> /\ UNCHANGED pageVars
    BY <1>13 DEF exportVars, slotVars, pageVars
  <2>2. Config' = Config /\ SlotTypeOK' /\ IntervalsAsStored' /\ KeptAsTyped'
    BY <2>1, SettingsStay
  <2>3. Ticks(Config)' = Ticks(Config) /\ SecretSent(Config)' = SecretSent(Config)
    BY <2>1, <2>2 DEF Ticks, SecretSent
  <2>4. PushedAsStored'
    BY <2>1, <2>2, <2>3 DEF ExportsInv, PushedAsStored
  <2>5. QED
    BY <2>1, <2>2, <2>4, HubStep
<1>14. QED
  BY <1>1, <1>2, <1>3, <1>4, <1>5, <1>6, <1>7, <1>8, <1>9, <1>10, <1>11, <1>12, <1>13 DEF ExportsNext

LEMMA BoxesOK == SlotTypeOK /\ PageTypeOK => BoxesMeanExports
<1> SUFFICES ASSUME SlotTypeOK, PageTypeOK PROVE BoxesMeanExports
  OBVIOUS
<1>1. draft.filter \in Filters /\ live \in Seen
  BY FieldsApart DEF PageTypeOK
<1>2. Ticked(draft.filter, live) = CardsOf(ApplyHostFilter(live, draft.filter))
  BY <1>1, TickedAsSent
<1> DEFINE f == draft.filter
           on == Ticked(f, live)
<1> HIDE DEF f
<1>4. f \in Filters
  BY <1>1 DEF f
<1>5. \A h \in Hosts :
        \/ on \subseteq OfHost(live, h)
        \/ Ticked(ToggleHost(f, h), live) =
             IF HostOn(f, h) THEN on \ OfHost(live, h) ELSE on \cup OfHost(live, h)
  BY <1>1, <1>4, HostBox
<1>6. \A c \in CardsOf(live) :
        (\A h \in DOMAIN f : f[h] = AllGpus \/ f[h] \subseteq live[h]) /\ HostOn(f, c[1]) /\ on # {c} =>
          Ticked(ToggleGpu(f, live, c[1], c[2]), live) =
            IF c \in on THEN on \ {c} ELSE on \cup {c}
  BY <1>1, <1>4, CardBox
<1>7. on = CardsOf(ApplyHostFilter(live, f))
  BY <1>2 DEF f
<1>8. QED
  BY <1>5, <1>6, <1>7, Zenon DEF BoxesMeanExports, OfHost, f

LEMMA ExportsInductive == ExportsSafety => []ExportsInv
BY ExportsInitInv, ExportsStepInv, PTL DEF ExportsSafety

\* What an interval, an alert or a scrape of exportService.ts makes leave the hub
\* follows the settings stored then: an interval is never one of older settings, the
\* secret is the one stored, the hub's own figures go along only if asked for, and no
\* card leaves that the filter holds back, but in the digest pushed to Discord or
\* Telegram, which lists every host (metricsSummary).
THEOREM PushedAsStoredHolds == ExportsSafety => []PushedAsStored
<1>1. ExportsInv => PushedAsStored
  BY DEF ExportsInv
<1>2. QED
  BY <1>1, ExportsInductive, PTL

\* No save stores the mask the page was told (setConfig), and a box of
\* HostFilterDisclosure is ticked exactly for what applyHostFilter lets pass and
\* moves no other box, for any hosts, cards and filter the page can come to.
THEOREM AsTheOperatorMeantHolds == ExportsSafety => []AsTheOperatorMeant
<1>1. ExportsInv => AsTheOperatorMeant
  BY BoxesOK DEF ExportsInv, AsTheOperatorMeant, SecretsAsTyped, KeptAsTyped, SlotTypeOK
<1>2. QED
  BY <1>1, ExportsInductive, PTL
=============================================================================
