--------------------------- MODULE AlertEvaluator ---------------------------
(***************************************************************************)
(* The alert evaluator of the hub, server/services/alertService.ts, with   *)
(* the rules the admin edits in server/routes/alerts.ts.                   *)
(*                                                                         *)
(* A rule is evaluated against the readings of a set of series (a card of  *)
(* a host, or the host itself).  The evaluator keeps, in memory only, one  *)
(* RuleState per pair <<rule, series>>: since when the threshold is        *)
(* crossed, when the rule last fired, whether it is firing.  The rules     *)
(* come from the database through a cache of a few seconds.                *)
(*                                                                         *)
(* Time is counted in Ticks.  An instant the code stores (crossedSince,    *)
(* lastFired) is modelled by its age, capped where the code stops telling  *)
(* ages apart.  Thresholds, metrics and messages are abstracted: what the  *)
(* evaluator learns from a reading is whether it crosses the threshold.    *)
(***************************************************************************)
EXTENDS Integers

CONSTANTS
    Rules,        \* rule ids (AUTOINCREMENT: an id is never used twice)
    Series,       \* what a rule is evaluated on
    Duration,     \* duration_s of every rule
    Cooldown,     \* cooldown_s of every rule
    MaxRestarts   \* bound: hub restarts in a behaviour

ASSUME AlertConstantsOK ==
    /\ Duration \in Nat
    /\ Cooldown \in Nat
    /\ MaxRestarts \in Nat

VARIABLES
    status,    \* of each rule id: not created yet, a row, or deleted
    covers,    \* database: the series an enabled rule applies to, {} when disabled
    cache,     \* cachedRules: what covers was when it was read
    hot,       \* FALSE when the next rules() reads the database again
    over,      \* environment: does the value cross the threshold now
    held,      \* age of crossedSince, NotCrossed when it is 0
    fired,     \* age of lastFired
    firing,    \* RuleState.firing
    restarts,  \* hub restarts so far
    last,      \* history: the last event recorded for the pair
    turn,      \* history: flips with every event recorded for the pair
    since,     \* history: age of the last firing event of the pair
    clear,     \* history: age of the last reading below the threshold received
    edited     \* history: rules patched since the hub started

vars == <<status, covers, cache, hot, over, held, fired, firing, restarts,
          last, turn, since, clear, edited>>

rules == <<status, covers>>
states == <<held, fired, firing>>
history == <<last, turn, since, clear>>

Pairs == Rules \X Series
NotCrossed == -1
Horizon == IF Duration > Cooldown THEN Duration ELSE Cooldown

TypeOK ==
    /\ status \in [Rules -> {"none", "row", "deleted"}]
    /\ covers \in [Rules -> SUBSET Series]
    /\ cache \in [Rules -> SUBSET Series]
    /\ hot \in BOOLEAN
    /\ over \in [Pairs -> BOOLEAN]
    /\ held \in [Pairs -> NotCrossed .. Duration]
    /\ fired \in [Pairs -> 0 .. Cooldown]
    /\ firing \in [Pairs -> BOOLEAN]
    /\ restarts \in 0 .. MaxRestarts
    /\ last \in [Pairs -> {"none", "firing", "resolved"}]
    /\ turn \in [Pairs -> BOOLEAN]
    /\ since \in [Pairs -> 0 .. Horizon]
    /\ clear \in [Pairs -> 0 .. Duration]
    /\ edited \in SUBSET Rules

Init ==
    /\ status = [r \in Rules |-> "none"]
    /\ covers = [r \in Rules |-> {}]
    /\ cache = [r \in Rules |-> {}]
    /\ hot = FALSE
    /\ over = [p \in Pairs |-> FALSE]
    /\ held = [p \in Pairs |-> NotCrossed]
    /\ fired = [p \in Pairs |-> Cooldown]
    /\ firing = [p \in Pairs |-> FALSE]
    /\ restarts = 0
    /\ last = [p \in Pairs |-> "none"]
    /\ turn = [p \in Pairs |-> FALSE]
    /\ since = [p \in Pairs |-> Horizon]
    /\ clear = [p \in Pairs |-> Duration]
    /\ edited = {}

----------------------------------------------------------------------------
(* Rule edits.  Every route that writes alert_rules drops the cache.       *)

Invalidate == hot' = FALSE

Create(r, S) ==
    /\ status[r] = "none"
    /\ status' = [status EXCEPT ![r] = "row"]
    /\ covers' = [covers EXCEPT ![r] = S]
    /\ Invalidate
    /\ UNCHANGED <<cache, over, states, restarts, history, edited>>

\* Enabling, disabling or rescoping a rule leaves its RuleStates as they are.
Patch(r, S) ==
    /\ status[r] = "row"
    /\ covers' = [covers EXCEPT ![r] = S]
    /\ edited' = edited \union {r}
    /\ Invalidate
    /\ UNCHANGED <<status, cache, over, states, restarts, history>>

Delete(r) ==
    /\ status[r] = "row"
    /\ status' = [status EXCEPT ![r] = "deleted"]
    /\ covers' = [covers EXCEPT ![r] = {}]
    /\ Invalidate
    /\ UNCHANGED <<cache, over, states, restarts, history, edited>>

----------------------------------------------------------------------------
(* One sample event on the bus, read on the series in S.  A reading is     *)
(* null, and skipped, for the series left out.                             *)

Loaded == IF hot THEN cache ELSE covers

Evaluated(p, S) == p[2] \in S /\ p[2] \in Loaded[p[1]]

HeldNow(p) == IF held[p] = NotCrossed THEN 0 ELSE held[p]

Fires(p) ==
    /\ over[p]
    /\ HeldNow(p) >= Duration
    /\ firing[p] => fired[p] >= Cooldown

Resolves_Always(p) == ~over[p]

Resolves(p) == ~over[p] /\ firing[p]

HeldAfter(p) == IF over[p] THEN HeldNow(p) ELSE NotCrossed

FiringAfter_Stuck(p) == Fires(p) \/ firing[p]

FiringAfter(p) == Fires(p) \/ (firing[p] /\ over[p])

Sample(S) ==
    LET fires(p) == Evaluated(p, S) /\ Fires(p)
        resolves(p) == Evaluated(p, S) /\ Resolves(p)
    IN  /\ cache' = Loaded
        /\ hot' = TRUE
        /\ held' = [p \in Pairs |->
                      IF Evaluated(p, S) THEN HeldAfter(p) ELSE held[p]]
        /\ firing' = [p \in Pairs |->
                        IF Evaluated(p, S) THEN FiringAfter(p) ELSE firing[p]]
        /\ fired' = [p \in Pairs |-> IF fires(p) THEN 0 ELSE fired[p]]
        /\ last' = [p \in Pairs |-> IF fires(p) THEN "firing"
                                    ELSE IF resolves(p) THEN "resolved"
                                    ELSE last[p]]
        /\ turn' = [p \in Pairs |-> IF fires(p) \/ resolves(p) THEN ~turn[p]
                                    ELSE turn[p]]
        /\ since' = [p \in Pairs |-> IF fires(p) THEN 0 ELSE since[p]]
        /\ clear' = [p \in Pairs |->
                       IF p[2] \in S /\ ~over[p] THEN 0 ELSE clear[p]]
        /\ UNCHANGED <<rules, over, restarts, edited>>

----------------------------------------------------------------------------
(* Time, the measured values, the hub's restarts.                          *)

Older(age, cap) == IF age = cap THEN cap ELSE age + 1

\* A second passes; the cache may reach the end of its five seconds.
Tick ==
    /\ held' = [p \in Pairs |-> IF held[p] = NotCrossed THEN NotCrossed
                                ELSE Older(held[p], Duration)]
    /\ fired' = [p \in Pairs |-> Older(fired[p], Cooldown)]
    /\ since' = [p \in Pairs |-> Older(since[p], Horizon)]
    /\ clear' = [p \in Pairs |-> Older(clear[p], Duration)]
    /\ hot' \in {hot, FALSE}
    /\ UNCHANGED <<rules, cache, over, firing, restarts, last, turn, edited>>

Move(p) ==
    /\ over' = [over EXCEPT ![p] = ~over[p]]
    /\ UNCHANGED <<rules, cache, hot, states, restarts, history, edited>>

\* RuleStates live in memory only.
HubRestart ==
    /\ restarts < MaxRestarts
    /\ restarts' = restarts + 1
    /\ hot' = FALSE
    /\ cache' = [r \in Rules |-> {}]
    /\ held' = [p \in Pairs |-> NotCrossed]
    /\ fired' = [p \in Pairs |-> Cooldown]
    /\ firing' = [p \in Pairs |-> FALSE]
    /\ edited' = {}
    /\ UNCHANGED <<rules, over, history>>

Next ==
    \/ \E r \in Rules, S \in SUBSET Series : Create(r, S) \/ Patch(r, S)
    \/ \E r \in Rules : Delete(r)
    \/ \E S \in SUBSET Series : Sample(S)
    \/ \E p \in Pairs : Move(p)
    \/ Tick
    \/ HubRestart

Spec == Init /\ [][Next]_vars

\* The clock runs, and the agent behind a series keeps sending readings of it.
Fairness ==
    /\ WF_vars(Tick)
    /\ \A s \in Series : WF_vars(\E S \in SUBSET Series : s \in S /\ Sample(S))

FairSpec == Spec /\ Fairness

----------------------------------------------------------------------------
(* Properties                                                              *)

Recorded(p) == turn'[p] # turn[p]
RecordedFiring(p) == Recorded(p) /\ last'[p] = "firing"
RecordedResolved(p) == Recorded(p) /\ last'[p] = "resolved"

\* A "resolved" event always closes a "firing" event of the same rule and
\* series: nothing else was recorded in between, restarts of the hub included.
ResolvedClosesFiring ==
    [][\A p \in Pairs : RecordedResolved(p) => last[p] = "firing"]_vars

\* The firing events of one alert are a cooldown apart.  The evaluator forgets
\* the alert when the hub restarts and announces it anew: then the rule's
\* duration at least lies between the two.
RepeatsSpaced ==
    [][\A p \in Pairs :
          RecordedFiring(p) /\ last[p] = "firing" =>
             IF firing[p] THEN since[p] >= Cooldown ELSE since[p] >= Duration]_vars

\* An event is only ever recorded for a rule that the database holds enabled,
\* on a series it applies to: no sample is judged by an outdated cached rule.
EventsFollowStoredRules ==
    [][\A p \in Pairs : Recorded(p) => p[2] \in covers[p[1]]]_vars

\* A rule left alone since the hub started fires only when no reading below
\* its threshold was received for its whole duration.
SustainedUnlessEdited ==
    [][\A p \in Pairs :
          RecordedFiring(p) /\ p[1] \notin edited => clear[p] >= Duration]_vars

\* What the event log tells can be relied on: all four of the above.
EventsTrue ==
    /\ ResolvedClosesFiring
    /\ RepeatsSpaced
    /\ EventsFollowStoredRules
    /\ SustainedUnlessEdited

\* An alert whose value is back to normal for good, under a rule that stays
\* enabled on that series, does not stay in the firing state.
ResolvesWhenClear ==
    \A p \in Pairs : <>[](~over[p] /\ p[2] \in covers[p[1]]) => <>[]~firing[p]

----------------------------------------------------------------------------
(* A statement of the schema that the code does not keep.                  *)

\* What the schema says of duration_s: "value must stay above/below threshold
\* for this long".  No reading below the threshold was received for the rule's
\* duration when it fires.
SustainedAlways ==
    [][\A p \in Pairs : RecordedFiring(p) => clear[p] >= Duration]_vars

=============================================================================
