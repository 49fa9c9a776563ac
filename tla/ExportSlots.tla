----------------------------- MODULE ExportSlots -----------------------------
(***************************************************************************)
(* An exporter of the hub other than MQTT: the settings kept for it, the    *)
(* interval that pushes (InfluxDB, webhook in metrics mode), the alerts a   *)
(* webhook forwards, the scrapes Prometheus is answered.                    *)
(*   server/services/exportService.ts, utils/atRestCrypto.ts,               *)
(*   routes/metrics.ts                                                      *)
(* setConfig writes the settings of all kinds and applies one kind, so the  *)
(* kinds are separate but for the encryption of their secrets: the module   *)
(* follows one kind, and the saves of another as OtherSaved.                *)
(*                                                                         *)
(* Left out: the fields of the settings that only name a place (org,        *)
(* bucket, measurement, chat, method, interval) or word a message.          *)
(* system is includeSystemStats: whether the hub's own CPU, load and memory *)
(* go along.                                                                *)
(***************************************************************************)
EXTENDS HostGpuFilter, Integers

CONSTANTS
    Secrets,     \* what is typed as a secret, "" apart
    Fields,      \* the fields of a sample
    Optional,    \* those a card may not report
    Keys, FirstKey,  \* ENCRYPTION_KEY or JWT_SECRET, over the restarts
    MaxCrashes   \* bound: restarts of the hub

ASSUME SlotConstantsOK == MaxCrashes \in Nat /\ Optional \subseteq Fields /\ FirstKey \in Keys

VARIABLES
    kind,        \* which exporter this is
    kept,        \* its settings in the database, the secret sealed
    key,         \* the key of the running process
    up,          \* the hub runs
    listening,   \* alertService's events reach the exporter
    intervals,   \* the settings the intervals were made with
    heard,       \* latestSamplesByHost: host |-> cards
    flying,      \* requests that have no answer yet: "metrics", "alert"
    sent,        \* what left in the last step
    crashes      \* history: restarts so far

slotVars == <<kind, kept, key, up, listening, intervals, heard, flying, sent, crashes>>

Kinds == {"prometheus", "influxdb", "webhook"}
Types == {"generic", "discord", "telegram"}

(* DEFAULTS.                                                                *)
Defaults ==
    [enabled |-> FALSE, url |-> kind # "webhook", secret |-> "", filter |-> NoFilter,
     type |-> "generic", mode |-> IF kind = "webhook" THEN "alerts" ELSE "metrics",
     fields |-> Fields, headers |-> {}, system |-> kind = "webhook"]

----------------------------------------------------------------------------
(* Secrets at rest.                                                         *)

EncryptSecret(k, s) == IF s = "" THEN <<>> ELSE <<k, s>>
DecryptSecret(k, c) == IF c = <<>> \/ c[1] # k THEN "" ELSE c[2]

(* getConfigs and encryptConfigsForStorage.                                 *)
Unsealed(k, c) == [c EXCEPT !.secret = DecryptSecret(k, @)]
Sealed(k, c) == [c EXCEPT !.secret = EncryptSecret(k, @)]

Config == Unsealed(key, kept)

(* What the page is told instead of a secret, and a part of it.             *)
Mask == "****"
Masks == {Mask, "***"}

(* getConfigsRedacted.                                                      *)
Redacted(c) == [c EXCEPT !.secret = IF @ = "" THEN "" ELSE Mask]

(* setConfig's and test's reading of what the page sends.                   *)
Patched_Literal(c, patch) == patch
Patched(c, patch) == IF patch.secret = Mask THEN [patch EXCEPT !.secret = c.secret] ELSE patch
MergedForTest(c, patch) == IF patch.secret \in Masks THEN [patch EXCEPT !.secret = c.secret] ELSE patch

----------------------------------------------------------------------------
(* What is written of the cards.                                            *)

(* A line or a series has the fields a card reports.                        *)
Reported == {F \in SUBSET Fields : Fields \ Optional \subseteq F}
Lines(samples, known) == {[card |-> c, fields |-> known] : c \in CardsOf(samples)}

(* filterSampleFields: no field chosen is every field.                      *)
Picked(fields) == IF fields = {} THEN Fields ELSE fields

PromMetrics == Fields
InfluxFields == Fields

(* What goes along that is of a host and not of a card.                     *)
SystemStats(c) == IF c.system THEN {"stats"} ELSE {}

(* getDispatchInfo: what the page is told Prometheus and InfluxDB are sent. *)
(* No entry names a card, and there is none for a webhook.                  *)
DispatchInfo(c) ==
    CASE kind = "prometheus" -> [enabled |-> c.enabled, fields |-> PromMetrics, host |-> SystemStats(c)]
      [] kind = "influxdb" -> [enabled |-> c.enabled, fields |-> InfluxFields, host |-> SystemStats(c)]

Message(what, lines, host, secret) == [what |-> what, lines |-> lines, host |-> host, secret |-> secret]

(* The secret a message carries: Authorization, or a part of telegram's URL. *)
SecretSent(c) ==
    IF kind = "influxdb" \/ (kind = "webhook" /\ c.type = "telegram") THEN c.secret ELSE ""

(* promGpuLines, promHostLines, renderPrometheus; promHostInfoLines has a   *)
(* line for every host.                                                     *)
HostInfo(samples) == IF DOMAIN samples = {} THEN {} ELSE {"info"}

RenderPrometheus(c, samples, known) ==
    Message("scrape", Lines(samples, known), SystemStats(c) \cup HostInfo(samples), "")

(* A webhook has somewhere to go to; telegram needs the token.              *)
Addressed(c) == IF c.type = "telegram" THEN c.secret # "" ELSE c.url

(* sendGeneric: fetch refuses a header without a name.                      *)
Sendable(c) == Addressed(c) /\ (c.type = "generic" => "" \notin c.headers)

(* metricsSummary, buildGpuLines: of every host.                            *)
Summary(c) == Message("summary", Lines(heard, Fields), SystemStats(c), SecretSent(c))

(* pushWebhook's body, by the type.                                         *)
WebhookBody(c) ==
    IF c.type = "generic"
    THEN Message("json", Lines(ApplyHostFilter(heard, c.filter), Picked(c.fields)), SystemStats(c), SecretSent(c))
    ELSE Summary(c)

----------------------------------------------------------------------------
(* applyOne: the interval of the kind goes, and one is made if it pushes.   *)
Ticks(c) == c.enabled /\ c.mode = "metrics" /\ kind # "prometheus"

Apply_Added(c) == intervals' = intervals \cup (IF Ticks(c) THEN {c} ELSE {})
Apply(c) == intervals' = IF Ticks(c) THEN {c} ELSE {}

(* setConfig.                                                               *)
SetSlot(patch) ==
    LET c == Patched(Config, patch) IN
    /\ kept' = Sealed(key, c)
    /\ Apply(c)
    /\ sent' = {}
    /\ UNCHANGED <<kind, key, up, listening, heard, flying, crashes>>

(* setConfig of another kind: this one is read, and written again, which     *)
(* changes it under another key only.                                       *)
OtherSaved ==
    /\ up /\ kept # Sealed(key, Config)
    /\ kept' = Sealed(key, Config)
    /\ sent' = {}
    /\ UNCHANGED <<kind, key, up, listening, intervals, heard, flying, crashes>>

(* A sample event of the bus.                                               *)
Samples(h, gs) ==
    /\ up
    /\ heard' = Put(heard, h, gs)
    /\ sent' = {}
    /\ UNCHANGED <<kind, kept, key, up, listening, intervals, flying, crashes>>

(* pushInflux, on the interval made for c; a card reports the fields known. *)
PushInflux(c, known) ==
    /\ kind = "influxdb"
    /\ LET passing == ApplyHostFilter(heard, c.filter) IN
       IF DOMAIN passing = {} \/ ~c.url THEN sent' = {} /\ UNCHANGED flying
       ELSE sent' = {Message("points", Lines(passing, known), SystemStats(c), SecretSent(c))} /\ flying' = flying \cup {"metrics"}

(* pushWebhook.                                                             *)
PushWebhook(c) ==
    /\ kind = "webhook"
    /\ IF CardsOf(ApplyHostFilter(heard, c.filter)) = {} \/ ~Addressed(c)
       THEN sent' = {} /\ UNCHANGED flying
       ELSE /\ sent' = IF Sendable(c) THEN {WebhookBody(c)} ELSE {}
            /\ flying' = flying \cup {"metrics"}

IntervalFires(c, known) ==
    /\ up
    /\ PushInflux(c, known) \/ PushWebhook(c)
    /\ UNCHANGED <<kind, kept, key, up, listening, intervals, heard, crashes>>

(* An event of alertService: dispatchWebhookAlert, unless the rule is not   *)
(* to notify the webhook. What it says is not the cards' samples.           *)
AlertRaised(notify) ==
    /\ up /\ kind = "webhook"
    /\ LET c == Config IN
       IF listening /\ notify /\ c.enabled /\ c.mode = "alerts" /\ Addressed(c)
       THEN /\ sent' = IF Sendable(c) THEN {Message("alert", {}, SystemStats(c), SecretSent(c))} ELSE {}
            /\ flying' = flying \cup {"alert"}
       ELSE sent' = {} /\ UNCHANGED flying
    /\ UNCHANGED <<kind, kept, key, up, listening, intervals, heard, crashes>>

(* A scrape: 404 while Prometheus is off.                                   *)
Scraped(known) ==
    /\ up /\ kind = "prometheus"
    /\ sent' = IF Config.enabled
               THEN {RenderPrometheus(Config, ApplyHostFilter(heard, Config.filter), known)} ELSE {}
    /\ UNCHANGED <<kind, kept, key, up, listening, intervals, heard, flying, crashes>>

(* test: what it sends is merged from the draft, and a synthetic alert, a   *)
(* point of its own, or a push of the draft.                                *)
TestRuns(draft) ==
    LET c == MergedForTest(Config, draft) IN
    /\ sent' = IF \/ kind = "prometheus"
                  \/ kind = "influxdb" /\ (~c.url \/ c.secret = "")
                  \/ kind = "webhook" /\ ~Sendable(c)
               THEN {}
               ELSE IF kind = "webhook" /\ c.mode = "metrics" /\ c.type = "generic"
               THEN IF CardsOf(ApplyHostFilter(heard, c.filter)) = {} THEN {}
                    ELSE {[WebhookBody(c) EXCEPT !.what = "test"]}
               ELSE {Message("test", {}, IF kind = "webhook" THEN SystemStats(c) ELSE {}, SecretSent(c))}
    /\ UNCHANGED <<kind, kept, key, up, listening, intervals, heard, flying, crashes>>

----------------------------------------------------------------------------
(* Answers, and the life of the process.                                    *)

(* Accepted, or a failure that is caught and logged: an alert's and a point's. *)
Answered(r) ==
    /\ up /\ r \in flying
    /\ flying' = flying \ {r}
    /\ sent' = {}
    /\ UNCHANGED <<kind, kept, key, up, listening, intervals, heard, crashes>>

(* sendWebhook throws again, and nothing catches what the interval's        *)
(* callback returns: the process ends.                                      *)
PushRejected ==
    /\ up /\ kind = "webhook" /\ "metrics" \in flying
    /\ up' = FALSE /\ flying' = {} /\ intervals' = {} /\ sent' = {}
    /\ UNCHANGED <<kind, kept, key, listening, heard, crashes>>

(* shutdown, or the end of the process for another reason.                  *)
HubStops ==
    /\ up /\ crashes < MaxCrashes
    /\ up' = FALSE /\ flying' = {} /\ intervals' = {} /\ sent' = {}
    /\ UNCHANGED <<kind, kept, key, listening, heard, crashes>>

(* init, with the key of the new process: applyAll. The number of crashes   *)
(* counted is bounded, not the crashes.                                     *)
Boot_NoApply(k) == intervals' = {}
Boot(k) == Apply(Unsealed(k, kept))

HubStarts(k) ==
    /\ ~up /\ up' = TRUE
    /\ key' = k /\ (k # key => crashes < MaxCrashes)
    /\ crashes' = IF crashes < MaxCrashes THEN crashes + 1 ELSE crashes
    /\ Boot(k)
    /\ listening' = FALSE
    /\ heard' = NoFilter
    /\ sent' = {}
    /\ UNCHANGED <<kind, kept, flying>>

(* The import of alertService is resolved: its events matter to a webhook.   *)
Listens ==
    /\ up /\ ~listening /\ kind = "webhook" /\ listening' = TRUE
    /\ sent' = {}
    /\ UNCHANGED <<kind, kept, key, up, intervals, heard, flying, crashes>>
=============================================================================
