------------------------------ MODULE LlmSettings ------------------------------
(***************************************************************************)
(* Settings > LLM, from the page to the names of an agent's processes:      *)
(*   src/components/settings/LlmSettings.tsx   the page of an administrator *)
(*   server/routes/llm.ts, services/llmConfig.ts   checked and stored       *)
(*   services/agentIngestWS.ts   pushed in a config frame                   *)
(* The agent of host ThisHost, whose first hub this is, applies the frames  *)
(* (LlmNames).                                                              *)
(***************************************************************************)
EXTENDS LlmNames

CONSTANTS
    HostIds, ThisHost,
    RuleLists,      \* what the operator types as rules
    HostForms,      \* and for a host: records [endpoints, dir, valid]
    OtherConfig,    \* what the other hubs send
    ServerStates,   \* what may answer at a base: records [kind, models]
    FirstServers,   \* what answers at first: base |-> record
    FirstTags,      \* and the tags: model |-> digest
    MaxEdits        \* bound: edits, choices and saves on the page

ASSUME SettingsConstantsOK ==
    /\ ThisHost \in HostIds /\ 1 \in Hubs /\ MaxEdits \in Nat
    /\ FirstTags \subseteq [Models -> Digests]
    /\ \A first \in FirstServers : DOMAIN first = Bases /\ \A b \in Bases : first[b].models \subseteq Models
    /\ \A what \in ServerStates : what.models \subseteq Models
    /\ OtherConfig.endpoints \subseteq Endpoints /\ \A f \in HostForms : f.endpoints \subseteq Endpoints

VARIABLES
    rules,          \* llm.rules
    stored,         \* llm.host.<id>
    linked,         \* the agent is connected to this hub
    wire            \* config frames on their way to it

VARIABLES
    rulesForm,      \* RulesSection: what it shows
    rulesRead,      \* its read is under way
    rulesSaving,    \* an answer to its save is under way: the rules, "no"
    selected,       \* HostSection: the host chosen, "none" while the page is closed
    form,           \* what its fields hold
    reading,        \* hosts whose settings are being read
    saving          \* the answer to its save: a form, "no"

hubVars == <<rules, stored, linked, wire>>
pageVars == <<rulesForm, rulesRead, rulesSaving, selected, form, reading, saving>>
vars == <<llmVars, changes, hubVars, pageVars>>

No == <<"no">>
EmptyForm == [endpoints |-> {}, dir |-> "none", valid |-> TRUE]

----------------------------------------------------------------------------
(* The hub.                                                                 *)

(* parseRules and parseHostConfig refuse what is not well formed.           *)
ValidRules(list) == \A i \in DOMAIN list : list[i].match # "" /\ list[i].runtime # ""
ValidHost(f) == f.valid

(* frameFor.                                                                *)
Frame(list, hosts) == [rules |-> list, endpoints |-> hosts[ThisHost].endpoints, dir |-> hosts[ThisHost].dir]

Pushed_RulesOnly(ids, list, hosts) == IF linked /\ ids = HostIds THEN Append(wire, Frame(list, hosts)) ELSE wire

(* pushLlmConfig: to the hosts that are connected.                          *)
Pushed(ids, list, hosts) == IF linked /\ ThisHost \in ids THEN Append(wire, Frame(list, hosts)) ELSE wire

(* PUT /rules, every agent is told.                                         *)
PutRules(list) ==
    IF ValidRules(list)
    THEN rules' = list /\ wire' = Pushed(HostIds, list, stored) /\ UNCHANGED <<stored, linked>>
    ELSE UNCHANGED hubVars

(* PUT /hosts/:id.                                                          *)
PutHost(id, f) ==
    IF ValidHost(f)
    THEN /\ stored' = [stored EXCEPT ![id] = f]
         /\ wire' = Pushed({id}, rules, stored')
         /\ UNCHANGED <<rules, linked>>
    ELSE UNCHANGED hubVars

(* The agent connects: the config frame follows the welcome.                *)
Links ==
    /\ ~linked /\ linked' = TRUE
    /\ wire' = <<Frame(rules, stored)>>
    /\ UNCHANGED <<llmVars, changes, rules, stored, pageVars>>

Unlinks ==
    /\ linked /\ linked' = FALSE /\ wire' = <<>>
    /\ Change
    /\ UNCHANGED <<llmVars, rules, stored, pageVars>>

(* The agent reads a frame; it keeps well-formed rules and http endpoints.  *)
FrameArrives ==
    /\ wire # <<>> /\ wire' = Tail(wire)
    /\ HubConfig(1, Head(wire))
    /\ UNCHANGED <<rules, stored, linked, pageVars>>

OtherHubSends ==
    /\ \E h \in Hubs \ {1} : hubConfigs[h] = NoConfig /\ HubConfig(h, OtherConfig)
    /\ UNCHANGED <<hubVars, pageVars>>

----------------------------------------------------------------------------
(* The page.                                                                *)

Edit == changes < MaxEdits /\ changes' = changes + 1

RulesReadAnswers ==
    /\ rulesRead /\ rulesRead' = FALSE
    /\ rulesForm' \in {rules, rulesForm}
    /\ UNCHANGED <<llmVars, changes, hubVars, rulesSaving, selected, form, reading, saving>>

EditRules ==
    /\ selected # "none" /\ Edit /\ \E list \in RuleLists : rulesForm' = list
    /\ UNCHANGED <<llmVars, hubVars, rulesRead, rulesSaving, selected, form, reading, saving>>

SaveRules ==
    /\ selected # "none" /\ rulesSaving = No /\ Edit
    /\ PutRules(rulesForm)
    /\ rulesSaving' = <<rules', ValidRules(rulesForm)>>
    /\ UNCHANGED <<llmVars, rulesForm, rulesRead, selected, form, reading, saving>>

RulesSaved ==
    /\ rulesSaving # No /\ rulesSaving' = No
    /\ rulesForm' = IF rulesSaving[2] THEN rulesSaving[1] ELSE rulesForm
    /\ UNCHANGED <<llmVars, changes, hubVars, rulesRead, selected, form, reading, saving>>

(* A host is chosen: its settings are read, the fields stay as they are     *)
(* until they come.                                                         *)
SelectHost ==
    /\ selected # "none" /\ Edit /\ \E h \in HostIds \ {selected} : selected' = h /\ reading' = reading \cup {h}
    /\ UNCHANGED <<llmVars, hubVars, rulesForm, rulesRead, rulesSaving, form, saving>>

(* The answers come in any order, whichever host is chosen by then.         *)
HostReadAnswers ==
    /\ \E h \in reading :
        /\ reading' = reading \ {h}
        /\ form' \in {stored[h], EmptyForm}
    /\ UNCHANGED <<llmVars, changes, hubVars, rulesForm, rulesRead, rulesSaving, selected, saving>>

EditHost ==
    /\ selected # "none" /\ Edit /\ \E f \in HostForms : form' = f
    /\ UNCHANGED <<llmVars, hubVars, rulesForm, rulesRead, rulesSaving, selected, reading, saving>>

SaveHost ==
    /\ selected # "none" /\ saving = No /\ Edit
    /\ PutHost(selected, form)
    /\ saving' = <<form, ValidHost(form)>>
    /\ UNCHANGED <<llmVars, rulesForm, rulesRead, rulesSaving, selected, form, reading>>

HostSaved ==
    /\ saving # No /\ saving' = No
    /\ form' = IF saving[2] THEN saving[1] ELSE form
    /\ UNCHANGED <<llmVars, changes, hubVars, rulesForm, rulesRead, rulesSaving, selected, reading>>

ServersChange ==
    /\ \E b \in Bases, what \in ServerStates : ServerChanges(b, what)
    /\ UNCHANGED <<hubVars, pageVars>>

----------------------------------------------------------------------------
(* An administrator has the page open on a host without GPU processes, or   *)
(* the settings are there and the processes run: a bound.                   *)
Init ==
    /\ tags \in FirstTags /\ NamesInit /\ servers \in FirstServers
    /\ linked = FALSE /\ wire = <<>>
    /\ rulesForm = <<>> /\ rulesSaving = No /\ form = EmptyForm /\ saving = No
    /\ IF alive = {}
       THEN /\ rules = <<>> /\ stored = [h \in HostIds |-> EmptyForm]
            /\ selected = ThisHost /\ rulesRead = TRUE /\ reading = {ThisHost}
       ELSE /\ rules \in {l \in RuleLists : ValidRules(l)}
            /\ stored \in [HostIds -> {f \in HostForms : f.valid}]
            /\ \A h \in HostIds \ {ThisHost} : stored[h] = stored[ThisHost]
            /\ selected = "none" /\ rulesRead = FALSE /\ reading = {}
   

Next ==
    \/ NamesNext /\ UNCHANGED <<hubVars, pageVars>>
    \/ Links \/ Unlinks \/ FrameArrives \/ OtherHubSends
    \/ RulesReadAnswers \/ EditRules \/ SaveRules \/ RulesSaved
    \/ SelectHost \/ HostReadAnswers \/ EditHost \/ SaveHost \/ HostSaved
    \/ ServersChange

(* The agent reconnects, frames arrive, reads and saves are answered.       *)
Fairness ==
    /\ NamesFairness
    /\ WF_vars(Links) /\ WF_vars(FrameArrives)

SettingsSpec == Init /\ [][Next]_vars
Spec == SettingsSpec /\ Fairness

----------------------------------------------------------------------------
(* What reached the hub is what each process is named by in the end: a      *)
(* process that stays, with an Ollama blob whose tag stands in a manifests  *)
(* dir the agent can read, is shown that name, unless a rule or a server    *)
(* names it; one the rules match gets the name of the rule.                 *)
Readable(r) ==
    \/ LET dir == Discovered(hubDir) IN dir # "none" /\ Dirs[dir] = "store"
    \/ Cmd(r).near
NamedAtLast ==
    \A r \in Rows :
        <>[](r \in alive /\ HasDigest(r) /\ rules = <<>> /\ Readable(r)
                /\ Cmd(r).digest \in DOMAIN Manifests)
            => <>[](shown[r].hint = "none")

(* The settings stored for the host are those the agent works with, once    *)
(* they stay.                                                               *)
SettingsArrive ==
    <>[](hubConfigs[1] = Frame(rules, stored))

(* Settings reach the agent of the host, and from there the names.          *)
SettledAtLast == SettingsArrive /\ NamedAtLast
=============================================================================
