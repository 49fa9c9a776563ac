------------------------------ MODULE AlertsPage ------------------------------
(***************************************************************************)
(* The alerts page of an administrator (src/components/alerts/             *)
(* AlertsPage.tsx) over the routes of server/routes/alerts.ts and the rows *)
(* of server/database/models/Alert.ts; and what an event says in the page  *)
(* (alertService.eventMessage) and on a channel (alertFormatter.ts).       *)
(*                                                                         *)
(* Another administrator edits the same rules, and the evaluator records   *)
(* events.  Every request of the page may be overtaken by another and may  *)
(* be lost, or its answer, or the reload that follows.                     *)
(***************************************************************************)
EXTENDS Naturals, Sequences, FiniteSets

CONSTANTS
    Metrics,    \* the metrics a rule may watch
    Levels,     \* thresholds and readings; the form's field may also be Empty
    Presets,    \* ALERT_PRESETS: triples metric, condition, threshold
    Empty,      \* NaN in the form, null in the body it becomes
    MaxRules,   \* bound: rules ever inserted
    MaxEvents,  \* bound: events ever recorded
    MaxClicks,  \* bound: what the page's user does
    MaxTurns    \* bound: what others do, and losses

ASSUME AlertsPageConstantsOK ==
    /\ Levels \subseteq Nat /\ 0 \in Levels
    /\ IsFiniteSet(Presets) /\ Presets \subseteq Metrics \X {"above", "below"} \X Levels
    /\ MaxRules \in Nat /\ MaxEvents \in Nat /\ MaxClicks \in Nat /\ MaxTurns \in Nat

HostMetrics == {"host_cpu", "host_load_1m", "host_memory"}
ProcessMetrics == {"process_vram", "process_absent"}

\* The text looked for in processes: none, only blanks, or some text.
NoMatch == "null"
Matches == {NoMatch, "blank", "text"}

Ids == 1 .. MaxRules
Flags == {"enabled", "webhook"}
Fields == {"metric", "condition", "threshold", "match"} \cup Flags

VARIABLES
    stored, nextId,   \* alert_rules: id |-> row, and AUTOINCREMENT
    recorded, nextEvent, \* alert_events: id |-> row, and AUTOINCREMENT
    shown, listed,    \* the page's rules and events
    form,             \* editing: NoForm, or an id (0: a new rule) and its fields
    modal,            \* the presets dialog, NoModal when it is closed
    asks,             \* requests of the page under way
    theirs,           \* history: what another administrator set, by <<id, field>>, and
                      \*   this page's user has not asked for since
    blind,            \* history: the dialog may not know a rule that is stored
    clicks, turns     \* history: so many so far

storedVars == <<stored, nextId, recorded, nextEvent>>
shownVars == <<shown, listed>>
dialogs == <<form, modal>>
alertsPageVars == <<storedVars, shownVars, dialogs, asks, theirs, blind, clicks, turns>>

NoForm == <<>>
NoModal == <<>>
EditForm(id, row) == <<id, row>>

Click == clicks < MaxClicks /\ clicks' = clicks + 1
Turn == turns < MaxTurns /\ turns' = turns + 1

Key(row) == <<row.metric, row.condition, row.threshold>>
KeysOf(rows) == {Key(rows[i]) : i \in DOMAIN rows}

-----------------------------------------------------------------------------
(* The routes.                                                             *)

\* processMatch: trimmed, null when nothing is left.
Trimmed(match) == IF match = "text" THEN match ELSE NoMatch

\* Number(null) is 0.
Number(level) == IF level = Empty THEN 0 ELSE level

\* validate and validateProcessMatch of a whole rule.
Acceptable(row) ==
    /\ row.threshold # Empty
    /\ row.metric \in ProcessMetrics => Trimmed(row.match) = "text"

(* POST: the page sends 0 or 1, and only `false` turns a switch off.        *)
SwitchOn(bit) == TRUE

PostedRow(row) ==
    [row EXCEPT !.match = Trimmed(@), !.enabled = SwitchOn(@), !.webhook = SwitchOn(@)]

\* buildRulePatch: what the body does not name stays.
PatchedRow(row, body) ==
    [f \in DOMAIN row |->
        IF f \notin DOMAIN body THEN row[f]
        ELSE IF f = "threshold" THEN Number(body[f])
        ELSE IF f = "match" THEN Trimmed(body[f])
        ELSE body[f]]

PresetRow(p) ==
    [metric |-> p[1], condition |-> p[2], threshold |-> p[3], match |-> NoMatch,
     enabled |-> FALSE, webhook |-> TRUE]

Insert(rows, id, row) == [i \in DOMAIN rows \cup {id} |-> IF i = id THEN row ELSE rows[i]]

Without(rows, gone) == [i \in DOMAIN rows \ gone |-> rows[i]]

CreateRule(row) ==
    /\ nextId \in Ids
    /\ stored' = Insert(stored, nextId, PostedRow(row))
    /\ nextId' = nextId + 1

UpdateRule(id, body) ==
    /\ stored' = [stored EXCEPT ![id] = PatchedRow(@, body)]
    /\ UNCHANGED nextId

Orders(S) == {s \in [1 .. Cardinality(S) -> S] : \A i, j \in DOMAIN s : s[i] = s[j] => i = j}

\* A row per id of the request, in the order they were picked in; a preset
\* already installed is added again.
InstallPresets(ps) ==
    /\ nextId + Cardinality(ps) <= MaxRules + 1
    /\ \E new \in Orders(ps) :
          stored' = [i \in DOMAIN stored \cup nextId .. nextId + Cardinality(ps) - 1 |->
                       IF i < nextId THEN stored[i] ELSE PresetRow(new[i - nextId + 1])]
    /\ nextId' = nextId + Cardinality(ps)

-----------------------------------------------------------------------------
(* What an event says.                                                     *)

\* alertService.evaluateOne.
Crossed(row, observed) ==
    CASE row.metric = "process_absent" -> observed = 1
      [] row.condition = "above" -> observed >= row.threshold
      [] OTHER -> observed <= row.threshold

\* What the rule is on: targetLabel, and target of eventMessage.
Target(metric) ==
    IF metric \in HostMetrics THEN "host"
    ELSE IF metric \in ProcessMetrics THEN "process" ELSE "gpu"

\* eventMessage.
Message(e) ==
    IF e.metric = "process_absent" THEN <<e.state, "process">>
    ELSE IF e.state = "resolved" THEN <<"resolved", Target(e.metric)>>
    ELSE <<"firing", e.condition, Target(e.metric)>>

(* An event row does not hold the condition of its rule.                    *)
InferCondition(e) ==
    IF (e.observed >= e.threshold) = (e.state = "firing") THEN "above" ELSE "below"

\* buildLines and formatAlert.
Notification(e) ==
    IF e.metric = "process_absent" THEN <<e.state, "process">>
    ELSE IF e.state = "resolved" THEN <<"resolved", Target(e.metric)>>
    ELSE <<"firing", InferCondition(e), Target(e.metric)>>

-----------------------------------------------------------------------------
(* The page's requests.  A request is asked; once the hub has handled it    *)
(* the page reads the rules, then the events, and shows both at once.       *)

\* here: the page that asked is still mounted.  wants: the fields the user chose.
Request(op, id, body, wants) ==
    [op |-> op, id |-> id, body |-> body, wants |-> wants, at |-> "asked",
     n |-> clicks + 1, here |-> TRUE, rules |-> <<>>]

Spared(id, fs) == Without(theirs, {<<id, f>> : f \in fs})

Ask(op, id, body, wants) ==
    /\ asks' = asks \cup {Request(op, id, body, wants)}
    /\ theirs' = Spared(id, wants)

Onward(a, at) == asks' = (asks \ {a}) \cup {[a EXCEPT !.at = at]}

(* Mounting the page loads it; what an earlier page asked for goes on.      *)
OpenPage ==
    /\ Click
    /\ asks' = {[a EXCEPT !.here = FALSE] : a \in asks}
                 \cup {[Request("mount", 0, <<>>, {}) EXCEPT !.at = "answered"]}
    /\ shown' = <<>> /\ listed' = <<>>
    /\ form' = NoForm /\ modal' = NoModal
    /\ UNCHANGED <<storedVars, theirs, blind, turns>>

ToggleBody_Whole(row, flag) == [row EXCEPT ![flag] = ~@]

\* toggle and toggleWebhook send the opposite of what the page shows.
ToggleBody(row, flag) == [f \in {flag} |-> ~row[f]]

Toggle(id, flag) ==
    /\ Click
    /\ id \in DOMAIN shown
    /\ Ask("patch", id, ToggleBody(shown[id], flag), {flag})
    /\ UNCHANGED <<storedVars, shownVars, dialogs, blind, turns>>

RemoveRule(id) ==
    /\ Click
    /\ id \in DOMAIN shown
    /\ Ask("delete", id, <<>>, {})
    /\ UNCHANGED <<storedVars, shownVars, dialogs, blind, turns>>

DeleteEvent(id) ==
    /\ Click
    /\ id \in DOMAIN listed
    /\ Ask("deleteEvent", id, <<>>, {})
    /\ UNCHANGED <<storedVars, shownVars, dialogs, blind, turns>>

ClearEvents ==
    /\ Click
    /\ listed # <<>>
    /\ Ask("clearEvents", 0, <<>>, {})
    /\ UNCHANGED <<storedVars, shownVars, dialogs, blind, turns>>

EmptyRule ==
    [metric |-> CHOOSE m \in Metrics \ ProcessMetrics : TRUE, condition |-> "above",
     threshold |-> CHOOSE l \in Levels : \A k \in Levels : k <= l,
     match |-> NoMatch, enabled |-> TRUE, webhook |-> TRUE]

\* "New rule", and the pencil of a row.
OpenForm(id) ==
    /\ Click
    /\ form = NoForm /\ modal = NoModal
    /\ form' = EditForm(id, IF id = 0 THEN EmptyRule ELSE shown[id])
    /\ UNCHANGED <<storedVars, shownVars, modal, asks, theirs, blind, turns>>

(* One field of the form; a rule on absent processes has neither condition  *)
(* nor threshold to edit.                                                   *)
FormEdits(row) ==
       {[row EXCEPT !.metric = m] : m \in Metrics}
  \cup (IF row.metric = "process_absent" THEN {}
        ELSE {[row EXCEPT !.condition = c] : c \in {"above", "below"}}
        \cup {[row EXCEPT !.threshold = l] : l \in Levels \cup {Empty}})
  \cup (IF row.metric \in ProcessMetrics THEN {[row EXCEPT !.match = t] : t \in Matches} ELSE {})
  \cup {[row EXCEPT ![f] = ~@] : f \in Flags}

EditField(row) ==
    /\ Click
    /\ form # NoForm /\ row \in FormEdits(form[2]) \ {form[2]}
    /\ form' = EditForm(form[1], row)
    /\ UNCHANGED <<storedVars, shownVars, modal, asks, theirs, blind, turns>>

(* The form may be submitted again while an earlier answer is awaited; the  *)
(* browser holds back an empty text to match.                               *)
Save ==
    /\ Click
    /\ form # NoForm
    /\ form[2].metric \in ProcessMetrics => form[2].match # NoMatch
    /\ Ask(IF form[1] = 0 THEN "post" ELSE "patch", form[1], form[2], Fields)
    /\ blind' = TRUE
    /\ UNCHANGED <<storedVars, shownVars, dialogs, turns>>

CloseForm ==
    /\ Click
    /\ form # NoForm /\ form' = NoForm
    /\ UNCHANGED <<storedVars, shownVars, modal, asks, theirs, blind, turns>>

-----------------------------------------------------------------------------
(* The presets dialog.  The effect that picks the presets keeps the rules   *)
(* the page showed when the dialog opened.                                  *)

OpenPresets ==
    /\ Click
    /\ form = NoForm /\ modal = NoModal
    /\ modal' = [n |-> clicks + 1, seen |-> KeysOf(shown), picked |-> {},
                 here |-> FALSE, busy |-> FALSE]
    /\ blind' = (asks # {} \/ ~(KeysOf(stored) \subseteq KeysOf(shown)))
    /\ UNCHANGED <<storedVars, shownVars, form, asks, theirs, turns>>

ProposedPresets_All(seen) == Presets

ProposedPresets(seen) == Presets \ seen

PresetsArrive ==
    /\ modal # NoModal /\ ~modal.here
    /\ modal' = [modal EXCEPT !.here = TRUE, !.picked = ProposedPresets(modal.seen)]
    /\ UNCHANGED <<storedVars, shownVars, form, asks, theirs, blind, clicks, turns>>

\* The box of a preset the page shows as installed is disabled.
TogglePreset(p) ==
    /\ Click
    /\ modal # NoModal /\ modal.here /\ p \notin KeysOf(shown)
    /\ modal' = [modal EXCEPT !.picked = IF p \in @ THEN @ \ {p} ELSE @ \cup {p}]
    /\ UNCHANGED <<storedVars, shownVars, form, asks, theirs, blind, turns>>

MayInstall(d) == d.picked # {} /\ ~d.busy

Install ==
    /\ Click
    /\ modal # NoModal /\ MayInstall(modal)
    /\ modal' = [modal EXCEPT !.busy = TRUE]
    /\ Ask("install", modal.n, [presets |-> modal.picked], {})
    /\ UNCHANGED <<storedVars, shownVars, form, blind, turns>>

ClosePresets ==
    /\ Click
    /\ modal # NoModal /\ modal' = NoModal
    /\ UNCHANGED <<storedVars, shownVars, form, asks, theirs, blind, turns>>

-----------------------------------------------------------------------------
(* The hub handles a request.                                               *)

Handled(a) == a \in asks /\ a.at = "asked"

HandlePost(a) ==
    /\ Handled(a) /\ a.op = "post" /\ Acceptable(a.body)
    /\ CreateRule(a.body)
    /\ Onward(a, "answered")
    /\ UNCHANGED <<recorded, nextEvent, shownVars, dialogs, theirs, blind, clicks, turns>>

HandlePatch(a) ==
    /\ Handled(a) /\ a.op = "patch" /\ a.id \in DOMAIN stored
    /\ UpdateRule(a.id, a.body)
    /\ Onward(a, "answered")
    /\ UNCHANGED <<recorded, nextEvent, shownVars, dialogs, theirs, blind, clicks, turns>>

\* 400, or 404 for a rule that is gone: the page shows the error and no more.
Refuse(a) ==
    /\ Handled(a)
    /\ a.op = "post" => ~Acceptable(a.body)
    /\ a.op = "patch" => a.id \notin DOMAIN stored
    /\ a.op \in {"post", "patch"}
    /\ asks' = asks \ {a}
    /\ UNCHANGED <<storedVars, shownVars, dialogs, theirs, blind, clicks, turns>>

HandleDelete(a) ==
    /\ Handled(a) /\ a.op = "delete"
    /\ stored' = Without(stored, {a.id})
    /\ Onward(a, "answered")
    /\ UNCHANGED <<nextId, recorded, nextEvent, shownVars, dialogs, theirs, blind, clicks, turns>>

HandleInstall(a) ==
    /\ Handled(a) /\ a.op = "install"
    /\ InstallPresets(a.body.presets)
    /\ Onward(a, "answered")
    /\ UNCHANGED <<recorded, nextEvent, shownVars, dialogs, theirs, blind, clicks, turns>>

HandleEvents(a) ==
    /\ Handled(a) /\ a.op \in {"deleteEvent", "clearEvents"}
    /\ recorded' = IF a.op = "clearEvents" THEN <<>> ELSE Without(recorded, {a.id})
    /\ Onward(a, "answered")
    /\ UNCHANGED <<stored, nextId, nextEvent, shownVars, dialogs, theirs, blind, clicks, turns>>

-----------------------------------------------------------------------------
(* The page goes on.                                                        *)

\* A save closes whatever form is open, an installation whatever dialog.
Answered(a) ==
    /\ a \in asks /\ a.at = "answered"
    /\ form' = IF a.here /\ a.op \in {"post", "patch"} /\ a.wants = Fields THEN NoForm ELSE form
    /\ modal' = IF a.here /\ a.op = "install" THEN NoModal ELSE modal
    /\ Onward(a, "loading")
    /\ UNCHANGED <<storedVars, shownVars, theirs, blind, clicks, turns>>

RulesRead(a) ==
    /\ a \in asks /\ a.at = "loading"
    /\ asks' = (asks \ {a}) \cup {[a EXCEPT !.at = "read", !.rules = stored]}
    /\ UNCHANGED <<storedVars, shownVars, dialogs, theirs, blind, clicks, turns>>

(* The second answer: both lists are shown.                                 *)
ShowLists(a) ==
    /\ a \in asks /\ a.at = "read"
    /\ shown' = IF a.here THEN a.rules ELSE shown
    /\ listed' = IF a.here THEN recorded ELSE listed
    /\ asks' = asks \ {a}
    /\ UNCHANGED <<storedVars, dialogs, theirs, blind, clicks, turns>>

-----------------------------------------------------------------------------
(* What happens around the page.                                            *)

\* A request, its answer, or the reload that follows fails.
Lost(a) ==
    /\ Turn
    /\ a \in asks
    /\ asks' = asks \ {a}
    /\ modal' = IF modal # NoModal /\ a.op = "install" /\ a.id = modal.n
                THEN [modal EXCEPT !.busy = FALSE] ELSE modal
    /\ blind' = (blind \/ (a.op = "install" /\ a.at # "asked"))
    /\ UNCHANGED <<storedVars, shownVars, form, theirs, clicks>>

OtherPatches(id, flag) ==
    /\ Turn
    /\ id \in DOMAIN stored
    /\ UpdateRule(id, [f \in {flag} |-> ~stored[id][f]])
    /\ theirs' = IF \E a \in asks : a.id = id /\ a.op = "patch" /\ a.at = "asked" /\ flag \in a.wants
                 THEN theirs ELSE Insert(theirs, <<id, flag>>, ~stored[id][flag])
    /\ UNCHANGED <<recorded, nextEvent, shownVars, dialogs, asks, blind, clicks>>

OtherInstalls(p) ==
    /\ Turn
    /\ InstallPresets({p})
    /\ blind' = TRUE
    /\ UNCHANGED <<recorded, nextEvent, shownVars, dialogs, asks, theirs, clicks>>

OtherDeletes(id) ==
    /\ Turn
    /\ id \in DOMAIN stored /\ stored' = Without(stored, {id})
    /\ UNCHANGED <<nextId, recorded, nextEvent, shownVars, dialogs, asks, theirs, blind, clicks>>

(* alertService.fire, for a rule that is enabled.                           *)
Fire(id, observed, state) ==
    /\ Turn
    /\ id \in DOMAIN stored /\ stored[id].enabled
    /\ stored[id].metric \in ProcessMetrics => stored[id].match # NoMatch
    /\ Crossed(stored[id], observed) = (state = "firing")
    /\ nextEvent <= MaxEvents /\ nextEvent' = nextEvent + 1
    /\ recorded' = Insert(recorded, nextEvent,
                      [metric |-> stored[id].metric, condition |-> stored[id].condition,
                       threshold |-> stored[id].threshold, observed |-> observed, state |-> state])
    /\ UNCHANGED <<stored, nextId, shownVars, dialogs, asks, theirs, blind, clicks>>

\* The page has just been opened, on rules installed earlier.
AlertsPageInit ==
    /\ \E ps \in SUBSET Presets : \E new \in Orders(ps) :
          /\ stored = [i \in 1 .. Cardinality(ps) |-> PresetRow(new[i])]
          /\ nextId = Cardinality(ps) + 1
    /\ recorded = <<>> /\ nextEvent = 1
    /\ clicks = 0 /\ turns = 0
    /\ shown = <<>> /\ listed = <<>> /\ form = NoForm /\ modal = NoModal
    /\ asks = {[Request("mount", 0, <<>>, {}) EXCEPT !.at = "answered"]}
    /\ theirs = <<>> /\ blind = FALSE

AlertsPageNext ==
    \/ OpenPage \/ ClearEvents \/ Save \/ CloseForm
    \/ OpenPresets \/ PresetsArrive \/ Install \/ ClosePresets
    \/ \E id \in Ids : RemoveRule(id) \/ OtherDeletes(id)
    \/ \E id \in Ids, flag \in Flags : Toggle(id, flag) \/ OtherPatches(id, flag)
    \/ \E id \in 1 .. MaxEvents : DeleteEvent(id)
    \/ \E id \in {0} \cup DOMAIN shown : OpenForm(id)
    \/ form # NoForm /\ \E row \in FormEdits(form[2]) : EditField(row)
    \/ \E p \in Presets : TogglePreset(p) \/ OtherInstalls(p)
    \/ \E a \in asks : \/ HandlePost(a) \/ HandlePatch(a) \/ Refuse(a) \/ HandleDelete(a)
                      \/ HandleInstall(a) \/ HandleEvents(a)
                      \/ Answered(a) \/ RulesRead(a) \/ ShowLists(a) \/ Lost(a)
    \/ \E id \in Ids, observed \in Levels, state \in {"firing", "resolved"} :
          Fire(id, observed, state)

AlertsPageSpec == AlertsPageInit /\ [][AlertsPageNext]_alertsPageVars

-----------------------------------------------------------------------------
(* Properties                                                               *)

\* What another administrator set in a rule stays, until the user of this page
\* asks for that very field, or saves the form of that rule: a switch flipped
\* in a page whose rows are out of date brings nothing else back.
OthersKept ==
    \A x \in DOMAIN theirs :
        x[1] \in DOMAIN stored => stored[x[1]][x[2]] = theirs[x]

\* The dialog adds no preset that is installed already, when the page knew
\* every rule on opening it, no request was under way, and since then no answer
\* was lost, no one else installed any and the user saved no rule of his own.
PresetsOnce ==
    [][\A a \in asks : Handled(a) /\ a.op = "install" /\ a \notin asks' /\ nextId' > nextId /\ ~blind
          => a.body.presets \cap KeysOf(stored) = {}]_alertsPageVars

-----------------------------------------------------------------------------
(* Statements of the sources that the code does not keep.                   *)

\* "Mirrors the wording shown on the AlertsPage": a notification says the same
\* as the event in the page.
SameWords == \A i \in DOMAIN recorded : Notification(recorded[i]) = Message(recorded[i])

\* "Enable/disable webhook dispatch per rule from the rules list and the
\* editor": a rule created with its switches off is stored with them off.
NewRuleAsChosen ==
    [][\A a \in asks : Handled(a) /\ a.op = "post" /\ nextId' > nextId /\ a \notin asks' =>
          \A f \in Flags : stored'[nextId][f] = a.body[f]]_alertsPageVars

=============================================================================
