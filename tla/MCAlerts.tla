------------------------------- MODULE MCAlerts -------------------------------
(***************************************************************************)
(* One at a time of what the hub's administrators set about the readings   *)
(* of the cards: the alert rules as the evaluator sees them                *)
(* (AlertEvaluator), as an administrator's page edits them (AlertsPage),   *)
(* and the lines of the charts (ChartThresholds).                          *)
(***************************************************************************)
EXTENDS AlertEvaluator, AlertsPage, ChartThresholds

VARIABLE part

parts == <<vars, alertsPageVars, thresholdVars, part>>

\* One of the presets, "Fan stalled": at most 5 %.
MCPresets == {<<"fan_speed", "below", 5>>}

\* What is capped, and what one browser had kept.
MCLimit(c) == 15
MCBrowser(t) == IF t = "A" THEN 8 ELSE NoLine

PageIdle ==
    /\ stored = <<>> /\ nextId = 1 /\ recorded = <<>> /\ nextEvent = 1
    /\ shown = <<>> /\ listed = <<>> /\ form = NoForm /\ modal = NoModal
    /\ asks = {} /\ theirs = <<>> /\ blind = FALSE /\ clicks = 0 /\ turns = 0

MCInit ==
    /\ Init /\ ThresholdInit
    /\ \/ part = "page" /\ AlertsPageInit
       \/ part \in {"evaluate", "lines"} /\ PageIdle

MCNext ==
    /\ part' = part
    /\ \/ part = "evaluate" /\ Next /\ UNCHANGED <<alertsPageVars, thresholdVars>>
       \/ part = "page" /\ AlertsPageNext /\ UNCHANGED <<vars, thresholdVars>>
       \/ part = "lines" /\ ThresholdNext /\ UNCHANGED <<vars, alertsPageVars>>

(* The Fairness of AlertEvaluator.                                          *)
MCFairness ==
    /\ WF_vars(part = "evaluate" /\ Tick)
    /\ \A s \in Series :
         WF_vars(part = "evaluate" /\ \E S \in SUBSET Series : s \in S /\ Sample(S))

MCSpec == MCInit /\ [][MCNext]_parts /\ MCFairness
=============================================================================
