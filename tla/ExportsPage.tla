----------------------------- MODULE ExportsPage -----------------------------
(***************************************************************************)
(* Settings > Exports (src/components/settings/ExportsSettings.tsx) over    *)
(* the routes of server/routes/exports.ts: an administrator's page shows    *)
(* one exporter, whose secret it is told as a mask, edits a draft, saves or *)
(* tests it. Answers to its reads may arrive late and in any order.         *)
(***************************************************************************)
EXTENDS ExportSlots

CONSTANTS
    SampleSets,  \* the cards a host may report: host |-> sets of them
    MaxEdits,    \* bound: edits of the draft
    MaxSaves     \* bound: saves and tests

ASSUME PageConstantsOK ==
    MaxEdits \in Nat /\ MaxSaves \in Nat /\ \A h \in Hosts : SampleSets[h] \subseteq SUBSET Gpus

VARIABLES
    shown,       \* cfg: what the last read answered, NotRead
    draft,       \* the block's own state
    live,        \* the cards the page has seen: host |-> cards
    reads,       \* reads under way: Asked, or the answer
    busy,        \* the request that disables the page, Idle
    typed,       \* history: secrets an administrator has typed
    edits, saves \* history: so many so far

pageVars == <<shown, draft, live, reads, busy, typed, edits, saves>>
exportVars == <<slotVars, pageVars>>

(* A read that was asked for, its answer; what is not there yet.            *)
Asked == <<>>
Answer(c) == <<c>>
NotRead == <<>>
Idle == <<>>

Request(op, body) == <<op, body>>
Op(b) == b[1]
Body(b) == b[2]

----------------------------------------------------------------------------
(* The blocks. Every draft one edit away, by the controls a block shows.    *)

FilterChanges(d) == {[d EXCEPT !.filter = f] : f \in FilterEdits(d.filter, live)}
Switch(d) == [d EXCEPT !.enabled = ~@]
SystemStatsToggle(d) == [d EXCEPT !.system = ~@]

(* A password field: cleared, typed anew, or a character of it deleted.     *)
SecretTyped(d) ==
    {[d EXCEPT !.secret = s] : s \in (Secrets \cup {""} \cup IF d.secret = Mask THEN Masks ELSE {}) \ {d.secret}}

PrometheusEdits(d) == {Switch(d), SystemStatsToggle(d)} \cup FilterChanges(d)

InfluxEdits(d) ==
    {Switch(d), SystemStatsToggle(d), [d EXCEPT !.url = ~@]} \cup SecretTyped(d) \cup FilterChanges(d)

(* HeadersEditor: a row is added without a name, named, and removed; a row  *)
(* whose name is deleted goes.                                              *)
HeaderEdits(hs) == {hs \cup {""}, hs \ {""}, hs \ {"X"}} \cup (IF "" \in hs THEN {{"X"}} ELSE {})

(* PayloadFieldsPicker: one field, all, none.                               *)
FieldEdits(fs) ==
    {Fields, {}} \cup {fs \cup {f} : f \in Fields \ fs} \cup {fs \ {f} : f \in fs}

WebhookEdits(d) ==
    {Switch(d), SystemStatsToggle(d)}
      \cup {[d EXCEPT !.type = t] : t \in Types}
      \cup {[d EXCEPT !.mode = m] : m \in {"alerts", "metrics"}}
      \cup (IF d.type = "telegram" THEN SecretTyped(d) ELSE {[d EXCEPT !.url = ~@]})
      \cup (IF d.type = "generic" THEN {[d EXCEPT !.headers = hs] : hs \in HeaderEdits(d.headers)} ELSE {})
      \cup (IF d.type = "generic" /\ d.mode = "metrics"
            THEN {[d EXCEPT !.fields = fs] : fs \in FieldEdits(d.fields)} ELSE {})
      \cup FilterChanges(d)

EditsOf(d) ==
    CASE kind = "prometheus" -> PrometheusEdits(d)
      [] kind = "influxdb" -> InfluxEdits(d)
      [] kind = "webhook" -> WebhookEdits(d)

----------------------------------------------------------------------------
PageInit ==
    /\ shown = NotRead /\ draft = Defaults
    /\ live = [h \in Hosts |-> {}]
    /\ reads = {Asked} /\ busy = Idle
    /\ typed = {Config.secret, ""} /\ edits = 0 /\ saves = 0

Editable == shown # NotRead /\ busy = Idle

Edit(d) ==
    /\ Editable /\ edits < MaxEdits /\ edits' = edits + 1
    /\ draft' = d
    /\ typed' = typed \cup ({d.secret} \ {Mask})
    /\ UNCHANGED <<shown, live, reads, busy, saves>>

(* GET /exports, at the hub; a hub that is down fails it.                   *)
ReadServed ==
    /\ Asked \in reads
    /\ reads' = (reads \ {Asked}) \cup (IF up THEN {Answer(Redacted(Config))} ELSE {})
    /\ UNCHANGED <<shown, draft, live, busy, typed, edits, saves>>

(* setCfg, and the effects of the block: the draft is what was read. The    *)
(* two switches of the Prometheus block follow only a change of what was    *)
(* read.                                                                    *)
ReadShown(a) ==
    /\ a # Asked /\ a \in reads /\ reads' = reads \ {a}
    /\ shown' = a
    /\ draft' = IF kind = "prometheus" /\ shown # NotRead
                THEN [a[1] EXCEPT !.enabled = IF shown[1].enabled = @ THEN draft.enabled ELSE @,
                                  !.system = IF shown[1].system = @ THEN draft.system ELSE @]
                ELSE a[1]
    /\ UNCHANGED <<live, busy, typed, edits, saves>>

(* The administrator comes to the page again.                               *)
Reopens ==
    /\ reads = {} /\ busy = Idle /\ shown = NotRead
    /\ reads' = {Asked}
    /\ UNCHANGED <<shown, draft, live, busy, typed, edits, saves>>

Click(op) ==
    /\ Editable /\ saves < MaxSaves /\ saves' = saves + 1
    /\ op = "test" => kind # "prometheus"
    /\ busy' = Request(op, draft)
    /\ UNCHANGED <<shown, draft, live, reads, typed, edits>>

(* The request at the hub, and its answer; a save that was answered reads   *)
(* the settings again, without waiting for them.                            *)
ClickServed ==
    /\ busy # Idle /\ Op(busy) \in {"save", "test"} /\ up
    /\ IF Op(busy) = "save" THEN SetSlot(Body(busy)) ELSE TestRuns(Body(busy))
    /\ busy' = Request(IF Op(busy) = "save" THEN "saved" ELSE "tested", Body(busy))
    /\ UNCHANGED <<shown, draft, live, reads, typed, edits, saves>>

ClickAnswered ==
    /\ busy # Idle /\ Op(busy) \in {"saved", "tested"}
    /\ reads' = IF Op(busy) = "saved" THEN reads \cup {Asked} ELSE reads
    /\ busy' = Idle
    /\ UNCHANGED <<shown, draft, live, typed, edits, saves>>

(* The hub is down, or the connection ends before the answer.               *)
ClickFails ==
    /\ busy # Idle /\ busy' = Idle
    /\ UNCHANGED <<shown, draft, live, reads, typed, edits, saves>>

(* ingest of gpuStore: the stream brings the page what the hub heard.       *)
PageSees(h, gs) == live' = [live EXCEPT ![h] = @ \cup gs] /\ UNCHANGED <<shown, draft, reads, busy, typed, edits, saves>>

----------------------------------------------------------------------------
Quiet == sent' = {} /\ UNCHANGED <<kind, kept, key, up, listening, intervals, heard, flying, crashes>>

(* An exporter as installed, or one in use, with a secret.                  *)
ExportsInit ==
    /\ kind \in Kinds
    /\ key = FirstKey
    /\ \E on \in BOOLEAN :
          kept = Sealed(key, [Defaults EXCEPT
                               !.enabled = on, !.url = @ \/ on, !.mode = IF on THEN "metrics" ELSE @,
                               !.secret = IF on /\ kind # "prometheus" THEN "first" ELSE @])
    /\ up = TRUE /\ listening = FALSE
    /\ intervals = IF Ticks(Config) THEN {Config} ELSE {}
    /\ heard = NoFilter /\ flying = {} /\ sent = {} /\ crashes = 0
    /\ PageInit

ExportsNext ==
    \/ \E h \in Hosts : \E gs \in SampleSets[h] : Samples(h, gs) /\ PageSees(h, gs)
    \/ \E c \in intervals, known \in Reported : IntervalFires(c, known) /\ UNCHANGED pageVars
    \/ \E n \in BOOLEAN : AlertRaised(n) /\ UNCHANGED pageVars
    \/ \E known \in Reported : Scraped(known) /\ UNCHANGED pageVars
    \/ \E r \in flying : Answered(r) /\ UNCHANGED pageVars
    \/ PushRejected /\ UNCHANGED pageVars
    \/ HubStops /\ UNCHANGED pageVars
    \/ \E k \in Keys : HubStarts(k) /\ UNCHANGED pageVars
    \/ Listens /\ UNCHANGED pageVars
    \/ OtherSaved /\ UNCHANGED pageVars
    \/ \E d \in EditsOf(draft) : Edit(d) /\ Quiet
    \/ ReadServed /\ Quiet
    \/ \E a \in reads : ReadShown(a) /\ Quiet
    \/ Reopens /\ Quiet
    \/ \E op \in {"save", "test"} : Click(op) /\ Quiet
    \/ ClickServed
    \/ ClickAnswered /\ Quiet
    \/ ClickFails /\ Quiet

ExportsSafety == ExportsInit /\ [][ExportsNext]_exportVars

----------------------------------------------------------------------------
(* What leaves in a step follows the settings as they are stored, however   *)
(* saves, restarts and changes of the key came between: pushes and alerts   *)
(* only while the exporter is on and in that mode, under the secret that is *)
(* stored, with the hub's own figures only if they are asked for, and of    *)
(* the cards the filter lets pass. The digest a Discord or Telegram webhook *)
(* is pushed is excepted from the filter: it lists every card of every host *)
(* (FilterRestricts, below). A test follows the draft.                      *)
PushedAsStored ==
    \A m \in sent : m.what # "test" =>
       /\ Config.enabled
       /\ m.what \in {"points", "json", "summary"} => Ticks(Config)
       /\ m.what = "alert" => Config.mode = "alerts"
       /\ m.secret = SecretSent(Config)
       /\ "stats" \in m.host <=> Config.system
       /\ m.what # "summary" => \A l \in m.lines : GpuOn(Config.filter, l.card[1], l.card[2])
       /\ m.what = "json" => \A l \in m.lines : l.fields = Picked(Config.fields)

(* The secret in the database is one an administrator typed, or none: never *)
(* the mask the page is told, whatever is saved over it.                    *)
SecretsAsTyped == DecryptSecret(key, kept.secret) \in typed

(* The boxes of the page mean what the hub sends, and a tick moves its own   *)
(* box, or those of its host, and no other. Two exceptions: the last box     *)
(* ticked, since the filter without it is empty, which is everything; and a  *)
(* list that names a card the page has not seen.                            *)
BoxesMeanExports ==
    LET f == draft.filter
        on == Ticked(f, live)
        OfHost(h) == CardsOf([x \in {h} |-> live[x]])
        known == \A h \in DOMAIN f : f[h] = AllGpus \/ f[h] \subseteq live[h]
    IN /\ on = CardsOf(ApplyHostFilter(live, f))
       /\ \A h \in Hosts :
            \/ on \subseteq OfHost(h)
            \/ Ticked(ToggleHost(f, h), live) =
                 IF HostOn(f, h) THEN on \ OfHost(h) ELSE on \cup OfHost(h)
       /\ \A c \in CardsOf(live) :
            known /\ HostOn(f, c[1]) /\ on # {c} =>
              Ticked(ToggleGpu(f, live, c[1], c[2]), live) =
                IF c \in on THEN on \ {c} ELSE on \cup {c}

(* What an administrator typed and ticked is what is stored and sent.        *)
AsTheOperatorMeant == SecretsAsTyped /\ BoxesMeanExports

(* An exporter that stays on, with something to send and somewhere to send  *)
(* it, sends it again and again, also after the hub was restarted.          *)
Flows ==
    /\ Ticks(Config) /\ Sendable(Config)
    /\ CardsOf(ApplyHostFilter(heard, Config.filter)) # {}

ExportsGoOn == <>[](up /\ Flows) => []<>(sent # {})

----------------------------------------------------------------------------
(* Statements the code does not keep.                                       *)

(* "Restrict this exporter to specific hosts (and per-host, to specific GPU *)
(* indices)." (src/src/i18n/locales/en.json:363): not so of the digest to   *)
(* Discord and Telegram, which metricsSummary makes of every host's cards.  *)
FilterRestricts ==
    \A m \in sent : m.what # "test" =>
       \A l \in m.lines : GpuOn(Config.filter, l.card[1], l.card[2])

(* The catalogs "drive both the actual publishing code (so we don't drift)  *)
(* AND the dispatch-info panel": what is published is what the page is told *)
(* (exportService.ts, 14-16).  No catalog has gpuviewr_host_info, which     *)
(* promHostInfoLines adds to every scrape.                                  *)
PublishedAsTold ==
    \A m \in sent : m.what \in {"scrape", "points"} =>
       /\ m.host \subseteq DispatchInfo(Config).host
       /\ \A l \in m.lines : l.fields \subseteq DispatchInfo(Config).fields
=============================================================================
