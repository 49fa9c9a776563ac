---------------------------- MODULE ChartThresholds ----------------------------
(***************************************************************************)
(* The threshold lines of the charts.  The hub keeps one document          *)
(* (server/services/chartThresholds.ts, routes/thresholds.ts): a global    *)
(* set and the overrides of single cards.  Every tab loads it once, edits  *)
(* its own copy (components/settings/ThresholdsSettings.tsx), and some     *)
(* time after the last edit writes the whole copy back                     *)
(* (store/thresholdsStore.ts).                                             *)
(***************************************************************************)
EXTENDS Naturals, Sequences

CONSTANTS
    Tabs,         \* the tabs open on the hub
    Admins,       \* those of them an administrator is signed in to
    Cards,        \* gpuKey: cards
    Lines,        \* metrics that have a line
    Values,       \* what may be typed in a field
    MaxValue,     \* THRESHOLD_LIMITS.value
    Limit(_),     \* what a card cannot exceed (power cap, throttle temperature)
    Default,      \* DEFAULT_THRESHOLDS, for every metric
    Browser(_),   \* the line a browser kept before the hub held them
    NoLine,       \* null: no line is drawn
    MaxEdits,     \* bound: edits in all
    MaxBreaks     \* bound: reloads of a tab, requests that fail

ASSUME ThresholdConstantsOK ==
    /\ Admins \subseteq Tabs
    /\ Values \subseteq Nat /\ MaxValue \in Nat /\ Default \in Nat
    /\ \A c \in Cards : Limit(c) \in Nat
    /\ \A t \in Tabs : Browser(t) \in Nat \cup {NoLine}
    /\ MaxEdits \in Nat /\ MaxBreaks \in Nat

VARIABLES
    doc,       \* hub: chart.thresholds
    copy,      \* tab: global and gpus of its store
    timer,     \* tabs whose saveTimer runs
    loads,     \* loads under way: <<tab>>, or <<tab, answer>>
    puts,      \* writes under way
    stale,     \* history: tabs whose copy may miss what another tab wrote
    touched,   \* history: <<tab, where, line>> its user edited
    edits, breaks

tabsVars == <<copy, timer>>
thresholdVars == <<doc, tabsVars, loads, puts, stale, touched, edits, breaks>>

Global == "global"
Break == breaks < MaxBreaks /\ breaks' = breaks + 1

(* A set of lines: a function on the metrics it has a value for.            *)
Whole(v) == [l \in Lines |-> v]
Nothing == [l \in {} |-> NoLine]
BrowserThresholds(t) == Whole(Browser(t))
Doc(global, gpus) == [global |-> global, gpus |-> gpus]
Unset == Nothing    \* null: a tab never writes a global set without values
NoCards == [c \in {} |-> Nothing]

----------------------------------------------------------------------------
(* The hub.                                                                 *)

\* parseValues of every set, as a whole: one value out of bounds refuses all.
Valid(d) ==
    LET sound(set) == \A l \in DOMAIN set : set[l] # NoLine => set[l] <= MaxValue
    IN  sound(d.global) /\ \A c \in DOMAIN d.gpus : sound(d.gpus[c])

\* An entry left without a value is dropped.
Parsed(d) ==
    Doc(d.global, [c \in {g \in DOMAIN d.gpus : DOMAIN d.gpus[g] # {}} |-> d.gpus[c]])

Put(p) ==
    LET passed(t) == doc' # doc /\ (t = p.tab => p.blind)
    IN  /\ p \in puts /\ Valid(p.doc)
        /\ doc' = Parsed(p.doc)
        /\ puts' = {[q EXCEPT !.blind = @ \/ passed(q.tab)] : q \in puts \ {p}}
        /\ stale' = stale \cup {t \in Tabs : passed(t)}
        /\ UNCHANGED <<tabsVars, loads, touched, edits, breaks>>

\* 400: a notification; the tab keeps what it has.
Refused(p) ==
    /\ p \in puts /\ ~Valid(p.doc)
    /\ puts' = puts \ {p}
    /\ UNCHANGED <<doc, tabsVars, loads, stale, touched, edits, breaks>>

PutLost(p) ==
    /\ Break
    /\ p \in puts /\ puts' = puts \ {p}
    /\ UNCHANGED <<doc, tabsVars, loads, stale, touched, edits>>

----------------------------------------------------------------------------
(* The store of a tab.                                                      *)

\* Signing in, or opening the tab anew: the store starts from the defaults.
Open(t) ==
    /\ Break
    /\ copy' = [copy EXCEPT ![t] = Doc(Whole(Default), NoCards)]
    /\ timer' = timer \ {t}
    /\ loads' = {l \in loads : l[1] # t} \cup {<<t>>}
    /\ stale' = stale \cup {t}
    /\ UNCHANGED <<doc, puts, touched, edits>>

LoadHandled(t) ==
    /\ <<t>> \in loads
    /\ loads' = (loads \ {<<t>>}) \cup {<<t, doc>>}
    /\ UNCHANGED <<doc, tabsVars, puts, stale, touched, edits, breaks>>

LoadedCopy_GlobalOnly(t, d) == Doc(IF d.global = Unset THEN BrowserThresholds(t) ELSE d.global, copy[t].gpus)

LoadedCopy(t, d) == Doc(IF d.global = Unset THEN BrowserThresholds(t) ELSE d.global, d.gpus)

(* The answer replaces the copy, edits of the meantime included; the first  *)
(* administrator gives the hub what his browser had.                        *)
LoadAnswered(l) ==
    /\ l \in loads /\ Len(l) = 2
    /\ loads' = loads \ {l}
    /\ copy' = [copy EXCEPT ![l[1]] = LoadedCopy(l[1], l[2])]
    /\ timer' = timer \cup IF l[2].global = Unset /\ l[1] \in Admins THEN {l[1]} ELSE {}
    /\ stale' = IF l[2] = doc THEN stale \ {l[1]} ELSE stale \cup {l[1]}
    /\ UNCHANGED <<doc, puts, touched, edits, breaks>>

LoadFails(t) ==
    /\ Break
    /\ \E l \in loads : l[1] = t /\ loads' = loads \ {l}
    /\ copy' = [copy EXCEPT ![t].global = BrowserThresholds(t)]
    /\ stale' = stale \cup {t}
    /\ UNCHANGED <<doc, timer, puts, touched, edits>>

Edit(t, where, ls, to) ==
    /\ t \in Admins /\ edits < MaxEdits /\ edits' = edits + 1
    /\ copy' = [copy EXCEPT ![t] = to] /\ copy' # copy
    /\ timer' = timer \cup {t}
    /\ touched' = touched \cup {<<t, where, l>> : l \in ls}
    /\ UNCHANGED <<doc, loads, puts, stale, breaks>>

\* An emptied field of the global set draws no line; resetGlobal.
SetGlobal(t, l, v) == Edit(t, Global, {l}, [copy[t] EXCEPT !.global[l] = v])
ResetGlobal(t) == Edit(t, Global, Lines, [copy[t] EXCEPT !.global = Whole(Default)])

With(set, l, v) == [k \in DOMAIN set \cup {l} |-> IF k = l THEN v ELSE set[k]]
Less(set, l) == [k \in DOMAIN set \ {l} |-> set[k]]

OwnLines(gpus, c) == IF c \in DOMAIN gpus THEN gpus[c] ELSE Nothing

\* Typing in the field of a card; 0 is no line.
SetGpu(t, c, l, v) ==
    LET own == OwnLines(copy[t].gpus, c)
    IN  Edit(t, c, {l}, [copy[t] EXCEPT !.gpus = With(@, c, With(own, l, IF v = 0 THEN NoLine ELSE v))])

\* Emptying it: the line is inherited; a card with none of its own goes.
InheritLine(t, c, l) ==
    LET own == Less(OwnLines(copy[t].gpus, c), l)
    IN  /\ l \in DOMAIN OwnLines(copy[t].gpus, c)
        /\ Edit(t, c, {l}, [copy[t] EXCEPT !.gpus =
                            IF DOMAIN own = {} THEN Less(@, c) ELSE With(@, c, own)])

ClearGpu(t, c) ==
    /\ c \in DOMAIN copy[t].gpus
    /\ Edit(t, c, Lines, [copy[t] EXCEPT !.gpus = Less(@, c)])

\* SAVE_DELAY_MS after the last edit.
SaveCopy(t) ==
    /\ t \in timer /\ timer' = timer \ {t}
    /\ puts' = puts \cup {[tab |-> t, doc |-> copy[t], blind |-> t \in stale]}
    /\ UNCHANGED <<doc, copy, loads, stale, touched, edits, breaks>>

ThresholdInit ==
    /\ doc = Doc(Unset, NoCards)
    /\ copy = [t \in Tabs |-> Doc(Whole(Default), NoCards)]
    /\ timer = {} /\ loads = {<<t>> : t \in Tabs} /\ puts = {}
    /\ stale = Tabs /\ touched = {} /\ edits = 0 /\ breaks = 0

ThresholdNext ==
    \/ \E p \in puts : Put(p) \/ Refused(p) \/ PutLost(p)
    \/ \E t \in Tabs : Open(t) \/ LoadHandled(t) \/ LoadFails(t) \/ ResetGlobal(t) \/ SaveCopy(t)
    \/ \E l \in loads : LoadAnswered(l)
    \/ \E t \in Tabs, l \in Lines :
         \/ \E v \in Values \cup {NoLine} : SetGlobal(t, l, v)
         \/ \E c \in Cards : InheritLine(t, c, l) \/ \E v \in Values : SetGpu(t, c, l, v)
    \/ \E t \in Tabs, c \in Cards : ClearGpu(t, c)

ThresholdSpec == ThresholdInit /\ [][ThresholdNext]_thresholdVars

----------------------------------------------------------------------------
(* Properties                                                               *)

Inherits(d, c, l) == l \notin DOMAIN OwnLines(d.gpus, c)

\* resolveThresholds: an inherited line is no higher than the card goes.
Line(d, c, l) ==
    IF ~Inherits(d, c, l) THEN d.gpus[c][l]
    ELSE IF d.global[l] = NoLine THEN NoLine
    ELSE IF Limit(c) > 0 /\ Limit(c) < d.global[l] THEN Limit(c) ELSE d.global[l]

\* A write moves the line of a card only if the user of its tab edited that
\* line of that card, or the global one it inherits, or what was written had
\* been copied before another tab changed the document (or before the tab had
\* loaded it at all): saving one field leaves the lines of other cards alone.
OtherLinesKept ==
    [][\A p \in puts : Put(p) /\ doc.global # Unset /\ ~p.blind =>
         \A c \in Cards, l \in Lines :
            Line(doc', c, l) # Line(doc, c, l) =>
               \/ <<p.tab, c, l>> \in touched
               \/ <<p.tab, Global, l>> \in touched /\ (Inherits(doc, c, l) \/ Inherits(doc', c, l))]_thresholdVars

=============================================================================
