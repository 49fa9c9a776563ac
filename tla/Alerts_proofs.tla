---------------------------- MODULE Alerts_proofs ----------------------------
(***************************************************************************)
(* Proofs about AlertEvaluator, for any rules, series, duration, cooldown  *)
(* and number of restarts; about AlertsPage, for any metrics, presets and  *)
(* number of clicks; and about ChartThresholds, for any tabs and cards.    *)
(*                                                                         *)
(* IInv: what the memory of the evaluator says of a pair agrees with what  *)
(* was recorded for it.  KeptInv: a patch on its way names nothing another *)
(* administrator has set since it was asked for.  OnceInv: a dialog that   *)
(* is not blind waits for the one installation under way, and everything   *)
(* it may be shown next knows every stored rule.  LinesInv: the copy of a  *)
(* tab that is not stale, and what it sent, differ from the document only  *)
(* in lines its user edited.                                               *)
(***************************************************************************)
EXTENDS AlertEvaluator, AlertsPage, ChartThresholds, FiniteSetTheorems, TLAPS

\* The cached rules, while they may be used, are the stored ones.
Coherent == hot => cache = covers

\* Only a row covers series, and only what was a row was ever evaluated.
RowsOnly ==
    \A r \in Rules :
       /\ status[r] # "row" => covers[r] = {}
       /\ status[r] = "none" => \A s \in Series : held[<<r, s>>] = NotCrossed

\* A firing alert was announced last, no earlier than its cooldown says.
FiringRecorded ==
    \A p \in Pairs : firing[p] => last[p] = "firing" /\ fired[p] <= since[p]

\* An announced alert that was forgotten has been crossed again since then.
ForgottenRestarts ==
    \A p \in Pairs :
       last[p] = "firing" /\ ~firing[p] => held[p] <= since[p]

\* crossedSince of an unedited rule is no older than the last clear reading.
HeldIsClean ==
    \A p \in Pairs :
       p[1] \notin edited /\ p[2] \in covers[p[1]] => held[p] <= clear[p]

IInv == TypeOK /\ Coherent /\ RowsOnly /\ FiringRecorded
          /\ ForgottenRestarts /\ HeldIsClean

LEMMA LoadedIsStored ==
  ASSUME TypeOK, Coherent, NEW p \in Pairs
  PROVE  (p[2] \in Loaded[p[1]]) <=> (p[2] \in covers[p[1]])
BY DEF TypeOK, Coherent, Loaded, Pairs

LEMMA OlderBounds ==
  ASSUME NEW cap \in Nat, NEW age \in 0 .. cap
  PROVE  Older(age, cap) \in 0 .. cap /\ Older(age, cap) >= age
BY DEF Older

LEMMA OlderKeepsOrder ==
  ASSUME NEW a \in Int, NEW b \in Int, NEW A \in Nat, NEW B \in Nat,
         a <= b, a <= A, b <= B, A <= B
  PROVE  Older(a, A) <= Older(b, B)
BY DEF Older

LEMMA HorizonBounds == Horizon \in Nat /\ Duration <= Horizon /\ Cooldown <= Horizon
BY AlertConstantsOK DEF AlertConstantsOK, Horizon

LEMMA RangeBounds ==
  /\ NotCrossed \in NotCrossed .. Duration
  /\ Cooldown \in 0 .. Cooldown
  /\ Duration \in 0 .. Duration
  /\ Horizon \in 0 .. Horizon
  /\ 0 \in 0 .. MaxRestarts
BY AlertConstantsOK, HorizonBounds DEF AlertConstantsOK, NotCrossed

LEMMA InitIInv == Init => IInv
<1> SUFFICES ASSUME Init PROVE IInv
  OBVIOUS
<1>1. TypeOK
  BY RangeBounds DEF Init, TypeOK
<1>2. Coherent /\ RowsOnly
  BY DEF Init, Coherent, RowsOnly, Pairs
<1>3. FiringRecorded /\ ForgottenRestarts /\ HeldIsClean
  BY DEF Init, FiringRecorded, ForgottenRestarts, HeldIsClean, Pairs
<1>4. QED
  BY <1>1, <1>2, <1>3 DEF IInv

----------------------------------------------------------------------------
(* A sample keeps the invariant.                                           *)

LEMMA SampleIInv ==
  ASSUME IInv, NEW S \in SUBSET Series, Sample(S)
  PROVE  IInv'
<1> USE DEF IInv
<1>1. TypeOK'
  <2>1. \A p \in Pairs : /\ held'[p] \in NotCrossed .. Duration
                         /\ firing'[p] \in BOOLEAN
                         /\ fired'[p] \in 0 .. Cooldown
                         /\ last'[p] \in {"none", "firing", "resolved"}
                         /\ turn'[p] \in BOOLEAN
                         /\ since'[p] \in 0 .. Horizon
                         /\ clear'[p] \in 0 .. Duration
    <3> TAKE p \in Pairs
    <3>1. held'[p] \in NotCrossed .. Duration
      BY AlertConstantsOK
         DEF Sample, TypeOK, HeldAfter, HeldNow, NotCrossed, AlertConstantsOK
    <3>2. firing'[p] \in BOOLEAN
      BY DEF Sample, TypeOK, FiringAfter, Fires
    <3>3. /\ fired'[p] \in 0 .. Cooldown
          /\ since'[p] \in 0 .. Horizon
          /\ clear'[p] \in 0 .. Duration
      BY AlertConstantsOK, HorizonBounds DEF Sample, TypeOK, AlertConstantsOK
    <3>4. last'[p] \in {"none", "firing", "resolved"} /\ turn'[p] \in BOOLEAN
      BY DEF Sample, TypeOK
    <3>5. QED
      BY <3>1, <3>2, <3>3, <3>4
  <2>2. /\ held' = [p \in Pairs |-> held'[p]]
        /\ firing' = [p \in Pairs |-> firing'[p]]
        /\ fired' = [p \in Pairs |-> fired'[p]]
        /\ last' = [p \in Pairs |-> last'[p]]
        /\ turn' = [p \in Pairs |-> turn'[p]]
        /\ since' = [p \in Pairs |-> since'[p]]
        /\ clear' = [p \in Pairs |-> clear'[p]]
    BY DEF Sample
  <2>3. /\ held' \in [Pairs -> NotCrossed .. Duration]
        /\ firing' \in [Pairs -> BOOLEAN]
        /\ fired' \in [Pairs -> 0 .. Cooldown]
        /\ last' \in [Pairs -> {"none", "firing", "resolved"}]
        /\ turn' \in [Pairs -> BOOLEAN]
        /\ since' \in [Pairs -> 0 .. Horizon]
        /\ clear' \in [Pairs -> 0 .. Duration]
    BY <2>1, <2>2
  <2>4. QED
    BY <2>3 DEF Sample, TypeOK, Loaded, rules
<1>2. Coherent'
  BY DEF Sample, TypeOK, Coherent, Loaded, rules
<1>3. RowsOnly'
  <2> SUFFICES ASSUME NEW r \in Rules, status[r] = "none", NEW s \in Series
               PROVE  held'[<<r, s>>] = NotCrossed
    BY DEF RowsOnly, Sample, rules
  <2>1. <<r, s>> \in Pairs /\ covers[r] = {} /\ held[<<r, s>>] = NotCrossed
    BY DEF RowsOnly, Pairs
  <2>2. ~Evaluated(<<r, s>>, S)
    BY <2>1, LoadedIsStored DEF Evaluated
  <2>3. QED
    BY <2>1, <2>2 DEF Sample
<1>4. FiringRecorded'
  <2> SUFFICES ASSUME NEW p \in Pairs, firing'[p]
               PROVE  last'[p] = "firing" /\ fired'[p] <= since'[p]
    BY DEF FiringRecorded
  <2>1. CASE Evaluated(p, S) /\ Fires(p)
    BY <2>1 DEF Sample
  <2>2. CASE Evaluated(p, S) /\ ~Fires(p)
    <3>1. firing[p] /\ over[p]
      BY <2>2 DEF Sample, FiringAfter
    <3>2. /\ last'[p] = last[p]
          /\ fired'[p] = fired[p]
          /\ since'[p] = since[p]
      BY <2>2, <3>1 DEF Sample, Resolves
    <3>3. QED
      BY <3>1, <3>2 DEF FiringRecorded
  <2>3. CASE ~Evaluated(p, S)
    BY <2>3 DEF Sample, FiringRecorded
  <2>4. QED
    BY <2>1, <2>2, <2>3
<1>5. ForgottenRestarts'
  <2> SUFFICES ASSUME NEW p \in Pairs, last'[p] = "firing", ~firing'[p]
               PROVE  held'[p] <= since'[p]
    BY DEF ForgottenRestarts
  <2>0. since[p] \in Nat /\ held[p] \in Int
    BY HorizonBounds, AlertConstantsOK DEF TypeOK, NotCrossed, AlertConstantsOK
  <2>1. CASE Evaluated(p, S)
    <3>1. ~Fires(p) /\ ~(firing[p] /\ over[p])
      BY <2>1 DEF Sample, FiringAfter
    <3>2. since'[p] = since[p] /\ held'[p] = HeldAfter(p)
      BY <2>1, <3>1 DEF Sample
    <3>3. ~firing[p] /\ last[p] = "firing"
      BY <2>1, <3>1 DEF Sample, Resolves
    <3>4. held[p] <= since[p]
      BY <3>3 DEF ForgottenRestarts
    <3>5. HeldAfter(p) <= since[p]
      <4>1. CASE over[p]
        BY <2>0, <3>4, <4>1 DEF HeldAfter, HeldNow, NotCrossed
      <4>2. CASE ~over[p]
        BY <2>0, <4>2 DEF HeldAfter, NotCrossed
      <4>3. QED
        BY <4>1, <4>2
    <3>6. QED
      BY <3>2, <3>5
  <2>2. CASE ~Evaluated(p, S)
    BY <2>2 DEF Sample, ForgottenRestarts
  <2>3. QED
    BY <2>1, <2>2
<1>6. HeldIsClean'
  <2> SUFFICES ASSUME NEW p \in Pairs, p[1] \notin edited, p[2] \in covers[p[1]]
               PROVE  held'[p] <= clear'[p]
    BY DEF HeldIsClean, Sample, rules
  <2>0. /\ clear[p] >= 0
        /\ held[p] <= clear[p]
        /\ Evaluated(p, S) <=> p[2] \in S
    BY LoadedIsStored DEF TypeOK, HeldIsClean, Evaluated
  <2>1. CASE Evaluated(p, S) /\ over[p]
    BY <2>0, <2>1 DEF Sample, HeldAfter, HeldNow, NotCrossed
  <2>2. CASE Evaluated(p, S) /\ ~over[p]
    BY <2>0, <2>2 DEF Sample, HeldAfter, NotCrossed
  <2>3. CASE ~Evaluated(p, S)
    BY <2>0, <2>3 DEF Sample
  <2>4. QED
    BY <2>1, <2>2, <2>3
<1>7. QED
  BY <1>1, <1>2, <1>3, <1>4, <1>5, <1>6

----------------------------------------------------------------------------
(* The other steps.                                                        *)

LEMMA TickIInv ==
  ASSUME IInv, Tick
  PROVE  IInv'
<1> USE DEF IInv
<1>0. /\ Duration \in Nat /\ Cooldown \in Nat
      /\ \A p \in Pairs : /\ held[p] \in Int /\ held[p] <= Duration
                          /\ fired[p] \in 0 .. Cooldown
                          /\ since[p] \in 0 .. Horizon
                          /\ clear[p] \in 0 .. Duration
  BY AlertConstantsOK DEF AlertConstantsOK, TypeOK, NotCrossed
<1>1. TypeOK'
  <2>1. /\ held' \in [Pairs -> NotCrossed .. Duration]
        /\ fired' \in [Pairs -> 0 .. Cooldown]
        /\ since' \in [Pairs -> 0 .. Horizon]
        /\ clear' \in [Pairs -> 0 .. Duration]
    <3>1. Horizon \in Nat
      BY HorizonBounds
    <3>2. \A p \in Pairs : held[p] # NotCrossed => Older(held[p], Duration) \in 0 .. Duration
      <4>1. \A p \in Pairs : held[p] # NotCrossed => held[p] \in 0 .. Duration
        BY DEF TypeOK, NotCrossed
      <4>2. QED
        BY <1>0, <4>1, OlderBounds
    <3>3. \A p \in Pairs : /\ Older(fired[p], Cooldown) \in 0 .. Cooldown
                           /\ Older(since[p], Horizon) \in 0 .. Horizon
                           /\ Older(clear[p], Duration) \in 0 .. Duration
      BY <1>0, <3>1, OlderBounds
    <3>4. 0 .. Duration \subseteq NotCrossed .. Duration /\ NotCrossed \in NotCrossed .. Duration
      BY <1>0 DEF NotCrossed
    <3>5. QED
      BY <3>2, <3>3, <3>4 DEF Tick
  <2>2. QED
    BY <2>1 DEF Tick, TypeOK, rules
<1>6. Coherent'
  BY DEF Tick, Coherent, TypeOK, rules
<1>2. RowsOnly'
  <2> SUFFICES ASSUME NEW r \in Rules, status[r] = "none", NEW s \in Series
               PROVE  held'[<<r, s>>] = NotCrossed
    BY DEF RowsOnly, Tick, rules
  <2>1. <<r, s>> \in Pairs /\ held[<<r, s>>] = NotCrossed
    BY DEF RowsOnly, Pairs
  <2>2. QED
    BY <2>1 DEF Tick
<1>3. FiringRecorded'
  <2> SUFFICES ASSUME NEW p \in Pairs, firing[p]
               PROVE  last[p] = "firing" /\ fired'[p] <= since'[p]
    BY DEF FiringRecorded, Tick
  <2>1. last[p] = "firing" /\ fired[p] <= since[p]
    BY DEF FiringRecorded
  <2>2. Older(fired[p], Cooldown) <= Older(since[p], Horizon)
    BY <1>0, <2>1, HorizonBounds, OlderKeepsOrder
  <2>3. QED
    BY <2>1, <2>2 DEF Tick
<1>4. ForgottenRestarts'
  <2> SUFFICES ASSUME NEW p \in Pairs, last[p] = "firing", ~firing[p]
               PROVE  held'[p] <= since'[p]
    BY DEF ForgottenRestarts, Tick
  <2>1. held[p] <= since[p]
    BY DEF ForgottenRestarts
  <2>2. Older(held[p], Duration) <= Older(since[p], Horizon)
    BY <1>0, <2>1, HorizonBounds, OlderKeepsOrder
  <2>3. since'[p] = Older(since[p], Horizon) /\ since'[p] \in 0 .. Horizon
    BY <1>0, HorizonBounds, OlderBounds DEF Tick
  <2>4. held'[p] = IF held[p] = NotCrossed THEN NotCrossed ELSE Older(held[p], Duration)
    BY DEF Tick
  <2>5. CASE held[p] = NotCrossed
    BY <2>3, <2>4, <2>5 DEF NotCrossed
  <2>6. QED
    BY <2>2, <2>3, <2>4, <2>5
<1>5. HeldIsClean'
  <2> SUFFICES ASSUME NEW p \in Pairs, p[1] \notin edited, p[2] \in covers[p[1]]
               PROVE  held'[p] <= clear'[p]
    BY DEF HeldIsClean, Tick, rules
  <2>1. held[p] <= clear[p]
    BY DEF HeldIsClean
  <2>2. Older(held[p], Duration) <= Older(clear[p], Duration)
    BY <1>0, <2>1, OlderKeepsOrder
  <2>3. clear'[p] = Older(clear[p], Duration) /\ clear'[p] \in 0 .. Duration
    BY <1>0, OlderBounds DEF Tick
  <2>4. held'[p] = IF held[p] = NotCrossed THEN NotCrossed ELSE Older(held[p], Duration)
    BY DEF Tick
  <2>5. CASE held[p] = NotCrossed
    BY <2>3, <2>4, <2>5 DEF NotCrossed
  <2>6. QED
    BY <2>2, <2>3, <2>4, <2>5
<1>7. QED
  BY <1>1, <1>2, <1>6, <1>3, <1>4, <1>5

LEMMA EditIInv ==
  ASSUME IInv, NEW r \in Rules, NEW S \in SUBSET Series,
         Create(r, S) \/ Patch(r, S) \/ Delete(r)
  PROVE  IInv'
<1> USE DEF IInv
<1>1. CASE Create(r, S)
  <2>1. \A s \in Series : held[<<r, s>>] = NotCrossed
    BY <1>1 DEF Create, RowsOnly
  <2>2. \A p \in Pairs : p[1] = r => held[p] = NotCrossed /\ clear[p] >= 0
    BY <2>1 DEF Pairs, TypeOK
  <2>3. HeldIsClean'
    BY <1>1, <2>2 DEF Create, HeldIsClean, TypeOK, states, history, NotCrossed
  <2>4. QED
    BY <1>1, <2>3 DEF Create, TypeOK, Coherent, RowsOnly, FiringRecorded,
                      ForgottenRestarts, Invalidate, states, history
<1>2. CASE Patch(r, S)
  <2>1. TypeOK' /\ Coherent' /\ RowsOnly'
    BY <1>2 DEF Patch, TypeOK, Coherent, RowsOnly, Invalidate, states, history
  <2>2. FiringRecorded' /\ ForgottenRestarts'
    BY <1>2 DEF Patch, FiringRecorded, ForgottenRestarts, states, history
  <2>3. HeldIsClean'
    BY <1>2 DEF Patch, HeldIsClean, TypeOK, states, history
  <2>4. QED
    BY <2>1, <2>2, <2>3
<1>3. CASE Delete(r)
  <2>1. HeldIsClean'
    BY <1>3 DEF Delete, HeldIsClean, TypeOK, states, history
  <2>2. QED
    BY <1>3, <2>1 DEF Delete, TypeOK, Coherent, RowsOnly, FiringRecorded,
                      ForgottenRestarts, Invalidate, states, history
<1>4. QED
  BY <1>1, <1>2, <1>3

LEMMA OutsideIInv ==
  ASSUME IInv, HubRestart \/ (\E p \in Pairs : Move(p))
  PROVE  IInv'
<1> USE DEF IInv
<1>1. CASE HubRestart
  <2>1. TypeOK'
    <3>1. restarts' \in 0 .. MaxRestarts
      BY <1>1, AlertConstantsOK DEF HubRestart, TypeOK, AlertConstantsOK
    <3>2. QED
      BY <1>1, <3>1, RangeBounds DEF HubRestart, TypeOK, rules, history
  <2>2. Coherent' /\ RowsOnly' /\ FiringRecorded'
    BY <1>1 DEF HubRestart, Coherent, RowsOnly, FiringRecorded, rules, Pairs
  <2>3. \A p \in Pairs : since[p] \in Nat /\ clear[p] \in Nat
    BY HorizonBounds, AlertConstantsOK DEF TypeOK, AlertConstantsOK
  <2>4. ForgottenRestarts' /\ HeldIsClean'
    BY <1>1, <2>3 DEF HubRestart, ForgottenRestarts, HeldIsClean, history, NotCrossed
  <2>5. QED
    BY <2>1, <2>2, <2>4
<1>2. ASSUME NEW p \in Pairs, Move(p)
      PROVE  IInv'
  BY <1>2 DEF Move, TypeOK, Coherent, RowsOnly, FiringRecorded, ForgottenRestarts,
              HeldIsClean, rules, states, history
<1>3. QED
  BY <1>1, <1>2

LEMMA StepIInv == IInv /\ [Next]_vars => IInv'
<1> SUFFICES ASSUME IInv, [Next]_vars PROVE IInv'
  OBVIOUS
<1>1. CASE UNCHANGED vars
  BY <1>1 DEF vars, IInv, TypeOK, Coherent, RowsOnly, FiringRecorded,
              ForgottenRestarts, HeldIsClean
<1>2. CASE \E S \in SUBSET Series : Sample(S)
  BY <1>2, SampleIInv
<1>3. CASE Tick
  BY <1>3, TickIInv
<1>4. CASE \E r \in Rules, S \in SUBSET Series : Create(r, S) \/ Patch(r, S)
  BY <1>4, EditIInv
<1>5. CASE \E r \in Rules : Delete(r)
  BY <1>5, EditIInv
<1>6. CASE HubRestart \/ (\E p \in Pairs : Move(p))
  BY <1>6, OutsideIInv
<1>7. QED
  BY <1>1, <1>2, <1>3, <1>4, <1>5, <1>6 DEF Next

(* The invariant above holds throughout, of any rules and any series.       *)
THEOREM Invariant == Spec => []IInv
BY InitIInv, StepIInv, PTL DEF Spec

----------------------------------------------------------------------------
(* The theorems.  Only a sample records an event.                          *)

\* Every reachable state has the types TypeOK gives.
THEOREM TypeCorrect == Spec => []TypeOK
<1>1. IInv => TypeOK
  BY DEF IInv
<1>2. QED
  BY <1>1, Invariant, PTL

LEMMA OnlySamplesRecord ==
  ASSUME IInv, [Next]_vars, NEW p \in Pairs, turn'[p] # turn[p]
  PROVE  \E S \in SUBSET Series :
            /\ Evaluated(p, S)
            /\ Fires(p) \/ Resolves(p)
            /\ last'[p] = IF Fires(p) THEN "firing" ELSE "resolved"
<1>1. PICK S \in SUBSET Series : Sample(S)
  BY DEF Next, vars, Create, Patch, Delete, Move, Tick, HubRestart, history
<1>2. CASE Evaluated(p, S) /\ (Fires(p) \/ Resolves(p))
  BY <1>1, <1>2 DEF Sample
<1>3. CASE ~(Evaluated(p, S) /\ (Fires(p) \/ Resolves(p)))
  BY <1>1, <1>3 DEF Sample
<1>4. QED
  BY <1>2, <1>3

\* A "resolved" event always closes a "firing" event of the same pair, over
\* any rule edits and hub restarts.
THEOREM ResolvedClosesFiringHolds == Spec => ResolvedClosesFiring
<1>1. ASSUME IInv, [Next]_vars, NEW p \in Pairs, RecordedResolved(p)
      PROVE  last[p] = "firing"
  <2>1. Resolves(p)
    BY <1>1, OnlySamplesRecord DEF RecordedResolved, Recorded
  <2>2. QED
    BY <1>1, <2>1 DEF Resolves, IInv, FiringRecorded
<1>2. IInv /\ [Next]_vars => [\A p \in Pairs : RecordedResolved(p) => last[p] = "firing"]_vars
  BY <1>1
<1>3. QED
  BY <1>2, Invariant, PTL DEF Spec, ResolvedClosesFiring

\* Two firing events of one alert are a cooldown apart or, when the hub
\* restarted in between, a sustain duration apart.
THEOREM RepeatsSpacedHolds == Spec => RepeatsSpaced
<1> DEFINE Spaced(p) == IF firing[p] THEN since[p] >= Cooldown ELSE since[p] >= Duration
<1>1. ASSUME IInv, [Next]_vars, NEW p \in Pairs, RecordedFiring(p), last[p] = "firing"
      PROVE  Spaced(p)
  <2>1. Fires(p)
    BY <1>1, OnlySamplesRecord DEF RecordedFiring, Recorded
  <2>2. /\ since[p] \in Nat /\ held[p] \in Int /\ fired[p] \in Nat
        /\ Duration \in Nat /\ Cooldown \in Nat
    BY <1>1, AlertConstantsOK, HorizonBounds
       DEF IInv, TypeOK, NotCrossed, AlertConstantsOK
  <2>3. CASE firing[p]
    <3>1. fired[p] <= since[p] /\ fired[p] >= Cooldown
      BY <1>1, <2>1, <2>3 DEF IInv, FiringRecorded, Fires
    <3>2. QED
      BY <2>2, <2>3, <3>1
  <2>4. CASE ~firing[p]
    <3>1. held[p] <= since[p] /\ HeldNow(p) >= Duration
      BY <1>1, <2>1, <2>4 DEF IInv, ForgottenRestarts, Fires
    <3>2. since[p] >= Duration
      BY <2>2, <3>1 DEF HeldNow
    <3>3. QED
      BY <2>4, <3>2
  <2>5. QED
    BY <2>3, <2>4
<1>2. IInv /\ [Next]_vars =>
        [\A p \in Pairs : RecordedFiring(p) /\ last[p] = "firing" =>
           IF firing[p] THEN since[p] >= Cooldown ELSE since[p] >= Duration]_vars
  BY <1>1
<1>3. QED
  BY <1>2, Invariant, PTL DEF Spec, RepeatsSpaced

\* No event is recorded for a rule that is not stored enabled on its series.
THEOREM EventsFollowStoredRulesHolds == Spec => EventsFollowStoredRules
<1>1. ASSUME IInv, [Next]_vars, NEW p \in Pairs, Recorded(p)
      PROVE  p[2] \in covers[p[1]]
  BY <1>1, OnlySamplesRecord, LoadedIsStored DEF Recorded, Evaluated, IInv
<1>2. IInv /\ [Next]_vars => [\A p \in Pairs : Recorded(p) => p[2] \in covers[p[1]]]_vars
  BY <1>1
<1>3. QED
  BY <1>2, Invariant, PTL DEF Spec, EventsFollowStoredRules

\* A rule nobody edited since the hub started fires only on a value no reading
\* below the threshold interrupted for the rule's duration.
THEOREM SustainedUnlessEditedHolds == Spec => SustainedUnlessEdited
<1>1. ASSUME IInv, [Next]_vars, NEW p \in Pairs, RecordedFiring(p), p[1] \notin edited
      PROVE  clear[p] >= Duration
  <2>1. Fires(p) /\ p[2] \in covers[p[1]]
    BY <1>1, OnlySamplesRecord, LoadedIsStored
       DEF RecordedFiring, Recorded, Evaluated, IInv
  <2>2. held[p] <= clear[p] /\ HeldNow(p) >= Duration
    BY <1>1, <2>1 DEF IInv, HeldIsClean, Fires
  <2>3. clear[p] \in Nat /\ held[p] \in Int /\ Duration \in Nat
    BY <1>1, AlertConstantsOK DEF IInv, TypeOK, NotCrossed, AlertConstantsOK
  <2>4. QED
    BY <2>2, <2>3 DEF HeldNow
<1>2. IInv /\ [Next]_vars =>
        [\A p \in Pairs : RecordedFiring(p) /\ p[1] \notin edited => clear[p] >= Duration]_vars
  BY <1>1
<1>3. QED
  BY <1>2, Invariant, PTL DEF Spec, SustainedUnlessEdited

\* What the event log tells, as the run checks it.
THEOREM EventsTrueHolds == Spec => EventsTrue
BY ResolvedClosesFiringHolds, RepeatsSpacedHolds, EventsFollowStoredRulesHolds,
   SustainedUnlessEditedHolds DEF EventsTrue

-----------------------------------------------------------------------------
(* The page. Every row is a whole rule, wherever it is.                     *)
Rowed(rows) == \A i \in DOMAIN rows : DOMAIN rows[i] = Fields

IsRequest(a) ==
    a = [op |-> a.op, id |-> a.id, body |-> a.body, wants |-> a.wants, at |-> a.at,
         n |-> a.n, here |-> a.here, rules |-> a.rules]

IsModal(m) ==
    m = [n |-> m.n, seen |-> m.seen, picked |-> m.picked, here |-> m.here, busy |-> m.busy]

RequestOK(a) ==
    /\ IsRequest(a)
    /\ a.at = "read" => Rowed(a.rules)
    /\ a.op = "post" => DOMAIN a.body = Fields
    /\ a.op = "install" => a.body.presets \subseteq Presets

TableOK == nextId \in Nat /\ (\A i \in DOMAIN stored : i \in Nat /\ i < nextId) /\ Rowed(stored)

ViewOK ==
    /\ Rowed(shown)
    /\ form # NoForm => DOMAIN form[2] = Fields
    /\ modal # NoModal => IsModal(modal) /\ modal.picked \subseteq Presets

AsksOK == \A a \in asks : RequestOK(a)

(* What others set is in rules that are, or were, in the table; a patch on  *)
(* its way names nothing of it.                                             *)
TheirsListed == \A x \in DOMAIN theirs : \E id \in Nat, f \in Flags : x = <<id, f>> /\ id < nextId

PatchesSpare ==
    \A a \in asks : a.op = "patch" /\ a.at = "asked" =>
        DOMAIN a.body \subseteq a.wants /\ \A f \in a.wants : <<a.id, f>> \notin DOMAIN theirs

KeptInv == TableOK /\ ViewOK /\ AsksOK /\ TheirsListed /\ PatchesSpare /\ OthersKept

LEMMA PatchedFields ==
    ASSUME NEW row, NEW body, DOMAIN row = Fields
    PROVE  /\ DOMAIN PatchedRow(row, body) = Fields
           /\ \A f \in Fields : f \notin DOMAIN body => PatchedRow(row, body)[f] = row[f]
           /\ \A f \in Flags : f \in DOMAIN body => PatchedRow(row, body)[f] = body[f]
BY DEF PatchedRow, Fields, Flags

LEMMA PostedFields ==
    ASSUME NEW row, DOMAIN row = Fields PROVE DOMAIN PostedRow(row) = Fields
BY DEF PostedRow

LEMMA PresetFields == ASSUME NEW p PROVE DOMAIN PresetRow(p) = Fields
BY DEF PresetRow, Fields, Flags

LEMMA EmptyFields == DOMAIN EmptyRule = Fields
BY DEF EmptyRule, Fields, Flags

LEMMA EditedFields ==
    ASSUME NEW row, DOMAIN row = Fields PROVE \A r \in FormEdits(row) : DOMAIN r = Fields
BY DEF FormEdits

LEMMA RequestIs ==
    ASSUME NEW op, NEW id, NEW body, NEW wants
    PROVE  LET r == Request(op, id, body, wants) IN
           /\ IsRequest(r) /\ r.op = op /\ r.id = id /\ r.body = body /\ r.wants = wants
           /\ r.at = "asked" /\ r.here = TRUE
BY DEF Request, IsRequest

LEMMA OnwardIs ==
    ASSUME NEW a, IsRequest(a), NEW at
    PROVE  LET b == [a EXCEPT !.at = at] IN
           /\ IsRequest(b) /\ b.at = at /\ b.op = a.op /\ b.id = a.id /\ b.body = a.body
           /\ b.wants = a.wants /\ b.here = a.here /\ b.rules = a.rules
BY DEF IsRequest

LEMMA HereIs ==
    ASSUME NEW a, IsRequest(a), NEW here
    PROVE  LET b == [a EXCEPT !.here = here] IN
           /\ IsRequest(b) /\ b.at = a.at /\ b.op = a.op /\ b.id = a.id /\ b.body = a.body
           /\ b.wants = a.wants /\ b.rules = a.rules /\ b.here = here
BY DEF IsRequest

LEMMA RulesIs ==
    ASSUME NEW a, IsRequest(a), NEW rows
    PROVE  LET b == [a EXCEPT !.rules = rows] IN
           /\ IsRequest(b) /\ b.at = a.at /\ b.op = a.op /\ b.id = a.id /\ b.body = a.body
           /\ b.wants = a.wants /\ b.here = a.here /\ b.rules = rows
BY DEF IsRequest

ReadUp(a, rows) == [a EXCEPT !.at = "read", !.rules = rows]

LEMMA ReadIs ==
    ASSUME NEW a, IsRequest(a), NEW rows
    PROVE  LET b == ReadUp(a, rows) IN
           /\ IsRequest(b) /\ b.at = "read" /\ b.op = a.op /\ b.id = a.id /\ b.body = a.body
           /\ b.wants = a.wants /\ b.here = a.here /\ b.rules = rows
<1> DEFINE c == [a EXCEPT !.at = "read"]
           d == [c EXCEPT !.rules = rows]
<1>1. /\ IsRequest(c) /\ c.at = "read" /\ c.op = a.op /\ c.id = a.id /\ c.body = a.body
      /\ c.wants = a.wants /\ c.here = a.here
  BY OnwardIs
<1>2. d = ReadUp(a, rows)
  BY DEF ReadUp
<1> HIDE DEF c
<1>3. /\ IsRequest(d) /\ d.at = c.at /\ d.op = c.op /\ d.id = c.id /\ d.body = c.body
      /\ d.wants = c.wants /\ d.here = c.here /\ d.rules = rows
  BY <1>1, RulesIs
<1> HIDE DEF d
<1>4. QED
  BY <1>1, <1>2, <1>3

LEMMA BusyIs ==
    ASSUME NEW m, IsModal(m), NEW busy
    PROVE  LET d == [m EXCEPT !.busy = busy] IN
           /\ IsModal(d) /\ d.picked = m.picked /\ d.seen = m.seen /\ d.here = m.here
BY DEF IsModal

LEMMA InsertIs ==
    ASSUME NEW rows, NEW id, NEW row
    PROVE  /\ DOMAIN Insert(rows, id, row) = DOMAIN rows \cup {id}
           /\ Insert(rows, id, row)[id] = row
           /\ \A i \in DOMAIN rows : i # id => Insert(rows, id, row)[i] = rows[i]
BY DEF Insert

LEMMA WithoutIs ==
    ASSUME NEW rows, NEW gone
    PROVE  /\ DOMAIN Without(rows, gone) = DOMAIN rows \ gone
           /\ \A i \in DOMAIN rows \ gone : Without(rows, gone)[i] = rows[i]
BY DEF Without

LEMMA PresetCount ==
    ASSUME NEW ps, ps \subseteq Presets PROVE Cardinality(ps) \in Nat
BY AlertsPageConstantsOK, FS_Subset, FS_CardinalityType DEF AlertsPageConstantsOK

(* The steps that change the rules: which ids, and which fields of them.    *)
LEMMA InstalledRows ==
    ASSUME NEW ps, ps \subseteq Presets, InstallPresets(ps), TableOK
    PROVE  /\ nextId' \in Nat /\ nextId <= nextId'
           /\ \A i \in DOMAIN stored' : i \in Nat /\ i < nextId'
           /\ \A i \in DOMAIN stored : i \in DOMAIN stored' /\ stored'[i] = stored[i]
           /\ \A i \in DOMAIN stored' : i < nextId => i \in DOMAIN stored
           /\ Rowed(stored')
<1>1. Cardinality(ps) \in Nat /\ nextId \in Nat
  BY PresetCount DEF TableOK
<1>2. PICK new \in Orders(ps) :
        stored' = [i \in DOMAIN stored \cup nextId .. nextId + Cardinality(ps) - 1 |->
                     IF i < nextId THEN stored[i] ELSE PresetRow(new[i - nextId + 1])]
  BY DEF InstallPresets
<1>3. nextId' = nextId + Cardinality(ps)
  BY DEF InstallPresets
<1>4. DOMAIN stored' = DOMAIN stored \cup nextId .. nextId + Cardinality(ps) - 1
  BY <1>2
<1>5. \A i \in DOMAIN stored : i \in Nat /\ i < nextId
  BY DEF TableOK
<1>6. \A i \in DOMAIN stored' : stored'[i] = IF i < nextId THEN stored[i] ELSE PresetRow(new[i - nextId + 1])
  BY <1>2, <1>4
<1>7. Rowed(stored')
  BY <1>1, <1>4, <1>5, <1>6, PresetFields DEF TableOK, Rowed
<1>8. QED
  BY <1>1, <1>3, <1>4, <1>5, <1>6, <1>7

LEMMA CreatedRows ==
    ASSUME NEW row, DOMAIN row = Fields, CreateRule(row), TableOK
    PROVE  /\ nextId' \in Nat /\ nextId <= nextId'
           /\ \A i \in DOMAIN stored' : i \in Nat /\ i < nextId'
           /\ \A i \in DOMAIN stored : i \in DOMAIN stored' /\ stored'[i] = stored[i]
           /\ \A i \in DOMAIN stored' : i < nextId => i \in DOMAIN stored
           /\ Rowed(stored')
<1>1. stored' = Insert(stored, nextId, PostedRow(row)) /\ nextId' = nextId + 1 /\ nextId \in Nat
  BY DEF CreateRule, TableOK
<1>2. DOMAIN stored' = DOMAIN stored \cup {nextId} /\ stored'[nextId] = PostedRow(row)
      /\ \A i \in DOMAIN stored : i # nextId => stored'[i] = stored[i]
  BY <1>1 DEF Insert
<1>3. \A i \in DOMAIN stored : i \in Nat /\ i < nextId /\ i # nextId
  BY <1>1 DEF TableOK
<1>4. DOMAIN PostedRow(row) = Fields
  BY PostedFields
<1>5. Rowed(stored')
  BY <1>2, <1>3, <1>4 DEF TableOK, Rowed
<1>6. QED
  BY <1>1, <1>2, <1>3, <1>5

LEMMA UpdatedRows ==
    ASSUME NEW id \in DOMAIN stored, NEW body, UpdateRule(id, body), TableOK
    PROVE  /\ DOMAIN stored' = DOMAIN stored /\ nextId' = nextId
           /\ \A i \in DOMAIN stored : i # id => stored'[i] = stored[i]
           /\ stored'[id] = PatchedRow(stored[id], body)
           /\ Rowed(stored')
<1>1. stored' = [stored EXCEPT ![id] = PatchedRow(stored[id], body)] /\ nextId' = nextId
  BY DEF UpdateRule
<1>2. DOMAIN PatchedRow(stored[id], body) = Fields
  BY PatchedFields DEF TableOK, Rowed
<1>3. QED
  BY <1>1, <1>2 DEF TableOK, Rowed

LEMMA FewerRows ==
    ASSUME NEW gone, stored' = Without(stored, gone), UNCHANGED nextId, TableOK
    PROVE  /\ DOMAIN stored' \subseteq DOMAIN stored
           /\ \A i \in DOMAIN stored' : stored'[i] = stored[i]
           /\ Rowed(stored')
BY DEF Without, TableOK, Rowed

----------------------------------------------------------------------------
(* What a step does to the table, to what others set, and to the requests.  *)

\* Rows are added under new ids.
Grown ==
    /\ nextId' \in Nat /\ nextId <= nextId'
    /\ \A i \in DOMAIN stored' : i \in Nat /\ i < nextId'
    /\ \A i \in DOMAIN stored : i \in DOMAIN stored' /\ stored'[i] = stored[i]
    /\ \A i \in DOMAIN stored' : i < nextId => i \in DOMAIN stored
    /\ Rowed(stored')

LEMMA GrownKeeps ==
    ASSUME KeptInv, Grown, UNCHANGED theirs
    PROVE  TableOK' /\ TheirsListed' /\ OthersKept'
<1>1. nextId \in Nat
  BY DEF KeptInv, TableOK
<1>2. TheirsListed'
  BY <1>1 DEF KeptInv, TheirsListed, Grown
<1>3. OthersKept'
  <2> SUFFICES ASSUME NEW x \in DOMAIN theirs, x[1] \in DOMAIN stored'
               PROVE  stored'[x[1]][x[2]] = theirs[x]
    BY DEF OthersKept
  <2>1. x[1] \in Nat /\ x[1] < nextId
    BY DEF KeptInv, TheirsListed
  <2>2. QED
    BY <2>1 DEF KeptInv, OthersKept, Grown
<1>4. QED
  BY <1>2, <1>3 DEF TableOK, Grown

LEMMA ShrunkKeeps ==
    ASSUME KeptInv, NEW gone, stored' = Without(stored, gone), UNCHANGED <<nextId, theirs>>
    PROVE  TableOK' /\ TheirsListed' /\ OthersKept'
<1>1. /\ DOMAIN stored' \subseteq DOMAIN stored
      /\ \A i \in DOMAIN stored' : stored'[i] = stored[i]
      /\ Rowed(stored')
  BY FewerRows DEF KeptInv
<1>2. QED
  BY <1>1 DEF KeptInv, TableOK, TheirsListed, OthersKept

LEMMA SameKeeps ==
    ASSUME KeptInv, UNCHANGED <<stored, nextId>>,
           DOMAIN theirs' \subseteq DOMAIN theirs, \A x \in DOMAIN theirs' : theirs'[x] = theirs[x]
    PROVE  TableOK' /\ TheirsListed' /\ OthersKept'
BY DEF KeptInv, TableOK, TheirsListed, OthersKept

\* A request that stays goes on, or stays as it is.
LEMMA AsksGoOn ==
    ASSUME KeptInv, DOMAIN theirs' \subseteq DOMAIN theirs,
           \A b \in asks' : /\ RequestOK(b)
                            /\ \/ b.at # "asked"
                               \/ \E c \in asks : /\ c.at = "asked" /\ c.op = b.op /\ c.id = b.id
                                                  /\ c.body = b.body /\ c.wants = b.wants
    PROVE  AsksOK' /\ PatchesSpare'
<1>1. AsksOK'
  BY DEF AsksOK
<1>2. PatchesSpare'
  BY DEF KeptInv, PatchesSpare
<1>3. QED
  BY <1>1, <1>2

LEMMA OnwardOK ==
    ASSUME KeptInv, NEW a \in asks, NEW at, at \notin {"asked", "read"}, Onward(a, at), UNCHANGED theirs
    PROVE  AsksOK' /\ PatchesSpare'
<1> DEFINE b == [a EXCEPT !.at = at]
<1>1. RequestOK(a) /\ IsRequest(a)
  BY DEF KeptInv, AsksOK, RequestOK
<1>2. /\ IsRequest(b) /\ b.at = at /\ b.op = a.op /\ b.id = a.id /\ b.body = a.body
      /\ b.wants = a.wants /\ b.here = a.here /\ b.rules = a.rules
  BY <1>1, OnwardIs
<1>3. asks' = (asks \ {a}) \cup {b}
  BY DEF Onward
<1> HIDE DEF b
<1>4. RequestOK(b)
  BY <1>1, <1>2 DEF RequestOK
<1>5. QED
  BY <1>2, <1>3, <1>4, AsksGoOn DEF KeptInv, AsksOK

LEMMA DroppedOK ==
    ASSUME KeptInv, asks' \subseteq asks, UNCHANGED theirs
    PROVE  AsksOK' /\ PatchesSpare'
BY AsksGoOn DEF KeptInv, AsksOK

\* What is asked for is no longer theirs.
LEMMA AskOK ==
    ASSUME KeptInv, NEW op, NEW id, NEW body, NEW wants, Ask(op, id, body, wants),
           op = "post" => DOMAIN body = Fields,
           op = "install" => body.presets \subseteq Presets,
           op = "patch" => DOMAIN body \subseteq wants
    PROVE  /\ DOMAIN theirs' \subseteq DOMAIN theirs /\ \A x \in DOMAIN theirs' : theirs'[x] = theirs[x]
           /\ AsksOK' /\ PatchesSpare'
<1> DEFINE r == Request(op, id, body, wants)
<1>1. /\ IsRequest(r) /\ r.op = op /\ r.id = id /\ r.body = body /\ r.wants = wants /\ r.at = "asked"
  BY DEF Request, IsRequest
<1>2. asks' = asks \cup {r} /\ theirs' = Without(theirs, {<<id, f>> : f \in wants})
  BY DEF Ask, Spared
<1>3. /\ DOMAIN theirs' = DOMAIN theirs \ {<<id, f>> : f \in wants}
      /\ \A x \in DOMAIN theirs' : theirs'[x] = theirs[x]
  BY <1>2 DEF Without
<1> HIDE DEF r
<1>4. RequestOK(r)
  BY <1>1 DEF RequestOK
<1>5. AsksOK'
  BY <1>2, <1>4 DEF KeptInv, AsksOK
<1>6. PatchesSpare'
  BY <1>1, <1>2, <1>3 DEF KeptInv, PatchesSpare
<1>7. QED
  BY <1>3, <1>5, <1>6

----------------------------------------------------------------------------
(* Each step.                                                               *)

LEMMA ViewStep ==
    ASSUME KeptInv,
           \/ CloseForm \/ OpenPresets \/ PresetsArrive \/ ClosePresets
           \/ \E id \in {0} \cup DOMAIN shown : OpenForm(id)
           \/ form # NoForm /\ \E row \in FormEdits(form[2]) : EditField(row)
           \/ \E p \in Presets : TogglePreset(p)
    PROVE  KeptInv'
<1> USE DEF storedVars, shownVars
<1>1. UNCHANGED <<stored, nextId, theirs, asks, shown>>
  BY DEF CloseForm, OpenPresets, PresetsArrive, ClosePresets, OpenForm, EditField, TogglePreset
<1>2. TableOK' /\ TheirsListed' /\ OthersKept'
  BY <1>1, SameKeeps
<1>3. AsksOK' /\ PatchesSpare'
  BY <1>1, DroppedOK
<1>4. ViewOK'
  <2> USE DEF KeptInv
  <2>1. CASE CloseForm
    BY <1>1, <2>1 DEF CloseForm, ViewOK, Rowed
  <2>2. CASE ClosePresets
    BY <1>1, <2>2 DEF ClosePresets, ViewOK, Rowed
  <2>3. CASE OpenPresets
    <3>1. IsModal(modal') /\ modal'.picked = {}
      BY <2>3 DEF OpenPresets, IsModal
    <3>2. QED
      BY <1>1, <2>3, <3>1 DEF OpenPresets, ViewOK, Rowed
  <2>4. CASE PresetsArrive
    <3>1. IsModal(modal)
      BY <2>4 DEF PresetsArrive, ViewOK
    <3>2. modal' = [modal EXCEPT !.here = TRUE, !.picked = ProposedPresets(modal.seen)]
      BY <2>4 DEF PresetsArrive
    <3>3. IsModal(modal') /\ modal'.picked = ProposedPresets(modal.seen)
      BY <3>1, <3>2 DEF IsModal
    <3>4. ProposedPresets(modal.seen) \subseteq Presets
      BY DEF ProposedPresets
    <3>5. QED
      BY <1>1, <2>4, <3>3, <3>4 DEF PresetsArrive, ViewOK, Rowed
  <2>5. CASE \E p \in Presets : TogglePreset(p)
    <3>1. PICK p \in Presets : TogglePreset(p)
      BY <2>5
    <3>2. IsModal(modal) /\ modal.picked \subseteq Presets
      BY <3>1 DEF TogglePreset, ViewOK
    <3> DEFINE ps == IF p \in modal.picked THEN modal.picked \ {p} ELSE modal.picked \cup {p}
    <3>3. modal' = [modal EXCEPT !.picked = ps]
      BY <3>1 DEF TogglePreset
    <3>4. ps \subseteq Presets
      BY <3>2
    <3> HIDE DEF ps
    <3>5. IsModal(modal') /\ modal'.picked = ps
      BY <3>2, <3>3 DEF IsModal
    <3>6. QED
      BY <1>1, <3>1, <3>4, <3>5 DEF TogglePreset, ViewOK, Rowed
  <2>6. CASE \E id \in {0} \cup DOMAIN shown : OpenForm(id)
    <3>1. PICK id \in {0} \cup DOMAIN shown : OpenForm(id)
      BY <2>6
    <3>2. form' = EditForm(id, IF id = 0 THEN EmptyRule ELSE shown[id]) /\ UNCHANGED modal
      BY <3>1 DEF OpenForm
    <3>3. form'[2] = IF id = 0 THEN EmptyRule ELSE shown[id]
      BY <3>2 DEF EditForm
    <3>4. DOMAIN form'[2] = Fields
      BY <3>3, EmptyFields DEF ViewOK, Rowed
    <3>5. QED
      BY <1>1, <3>2, <3>4 DEF ViewOK, Rowed
  <2>7. CASE form # NoForm /\ \E row \in FormEdits(form[2]) : EditField(row)
    <3>1. PICK row \in FormEdits(form[2]) : EditField(row) /\ form # NoForm
      BY <2>7
    <3>2. form' = EditForm(form[1], row) /\ UNCHANGED modal
      BY <3>1 DEF EditField
    <3>3. form'[2] = row
      BY <3>2 DEF EditForm
    <3>4. DOMAIN row = Fields
      BY <3>1, EditedFields DEF ViewOK
    <3>5. QED
      BY <1>1, <3>2, <3>3, <3>4 DEF ViewOK, Rowed
  <2>8. QED
    BY <2>1, <2>2, <2>3, <2>4, <2>5, <2>6, <2>7
<1>5. QED
  BY <1>2, <1>3, <1>4 DEF KeptInv

LEMMA AskStep ==
    ASSUME KeptInv,
           \/ ClearEvents \/ Save \/ Install
           \/ \E id \in Ids : RemoveRule(id)
           \/ \E id \in Ids, flag \in Flags : Toggle(id, flag)
           \/ \E id \in 1 .. MaxEvents : DeleteEvent(id)
    PROVE  KeptInv'
<1> USE DEF storedVars, shownVars, dialogs
<1>1. UNCHANGED <<stored, nextId, shown, form>>
  BY DEF ClearEvents, Save, Install, RemoveRule, Toggle, DeleteEvent
<1>2. \E op, id, body, wants :
        /\ Ask(op, id, body, wants)
        /\ op = "post" => DOMAIN body = Fields
        /\ op = "install" => body.presets \subseteq Presets
        /\ op = "patch" => DOMAIN body \subseteq wants
  <2>1. CASE ClearEvents
    BY <2>1 DEF ClearEvents
  <2>2. CASE Save
    <3>1. DOMAIN form[2] = Fields
      BY <2>2 DEF KeptInv, ViewOK, Save
    <3>2. QED
      BY <2>2, <3>1 DEF Save
  <2>3. CASE Install
    <3>1. modal.picked \subseteq Presets
      BY <2>3 DEF KeptInv, ViewOK, Install
    <3>2. [presets |-> modal.picked].presets \subseteq Presets
      BY <3>1
    <3>3. Ask("install", modal.n, [presets |-> modal.picked], {})
      BY <2>3 DEF Install
    <3>4. QED
      BY <3>2, <3>3
  <2>4. CASE \E id \in Ids : RemoveRule(id)
    BY <2>4 DEF RemoveRule
  <2>5. CASE \E id \in Ids, flag \in Flags : Toggle(id, flag)
    <3>1. PICK id \in Ids, flag \in Flags : Toggle(id, flag)
      BY <2>5
    <3>2. DOMAIN ToggleBody(shown[id], flag) = {flag}
      BY DEF ToggleBody
    <3>3. QED
      BY <3>1, <3>2 DEF Toggle
  <2>6. CASE \E id \in 1 .. MaxEvents : DeleteEvent(id)
    BY <2>6 DEF DeleteEvent
  <2>7. QED
    BY <2>1, <2>2, <2>3, <2>4, <2>5, <2>6
<1>3. /\ DOMAIN theirs' \subseteq DOMAIN theirs /\ \A x \in DOMAIN theirs' : theirs'[x] = theirs[x]
      /\ AsksOK' /\ PatchesSpare'
  BY <1>2, AskOK
<1>4. TableOK' /\ TheirsListed' /\ OthersKept'
  BY <1>1, <1>3, SameKeeps
<1>5. ViewOK'
  <2>1. CASE Install
    <3>1. IsModal(modal) /\ modal.picked \subseteq Presets
      BY <2>1 DEF KeptInv, ViewOK, Install
    <3>2. modal' = [modal EXCEPT !.busy = TRUE]
      BY <2>1 DEF Install
    <3>3. IsModal(modal') /\ modal'.picked = modal.picked
      BY <3>1, <3>2 DEF IsModal
    <3>4. QED
      BY <1>1, <3>1, <3>3 DEF KeptInv, ViewOK, Rowed
  <2>2. CASE UNCHANGED modal
    BY <1>1, <2>2 DEF KeptInv, ViewOK, Rowed
  <2>3. QED
    BY <2>1, <2>2 DEF ClearEvents, Save, RemoveRule, Toggle, DeleteEvent
<1>6. QED
  BY <1>3, <1>4, <1>5 DEF KeptInv

LEMMA OpenPageStep ==
    ASSUME KeptInv, OpenPage
    PROVE  KeptInv'
<1> DEFINE Away(a) == [a EXCEPT !.here = FALSE]
           r0 == Request("mount", 0, <<>>, {})
           r == [r0 EXCEPT !.at = "answered"]
<1>1. UNCHANGED <<stored, nextId, theirs>> /\ shown' = <<>> /\ form' = NoForm /\ modal' = NoModal
  BY DEF OpenPage, storedVars
<1>2. asks' = {Away(a) : a \in asks} \cup {r}
  BY DEF OpenPage
<1>3. \A a \in asks : /\ RequestOK(Away(a)) /\ Away(a).at = a.at /\ Away(a).op = a.op /\ Away(a).id = a.id
                      /\ Away(a).body = a.body /\ Away(a).wants = a.wants
  <2> SUFFICES ASSUME NEW a \in asks
               PROVE  /\ RequestOK(Away(a)) /\ Away(a).at = a.at /\ Away(a).op = a.op /\ Away(a).id = a.id
                      /\ Away(a).body = a.body /\ Away(a).wants = a.wants
    OBVIOUS
  <2>1. RequestOK(a) /\ IsRequest(a)
    BY DEF KeptInv, AsksOK, RequestOK
  <2>2. /\ IsRequest(Away(a)) /\ Away(a).at = a.at /\ Away(a).op = a.op /\ Away(a).id = a.id
        /\ Away(a).body = a.body /\ Away(a).wants = a.wants /\ Away(a).rules = a.rules
    BY <2>1, HereIs
  <2> HIDE DEF Away
  <2>3. RequestOK(Away(a))
    BY <2>1, <2>2 DEF RequestOK
  <2>4. QED
    BY <2>2, <2>3
<1>a. IsRequest(r0) /\ r0.op = "mount"
  BY DEF Request, IsRequest
<1> HIDE DEF Away, r0
<1>4. IsRequest(r) /\ r.op = "mount" /\ r.at = "answered"
  BY <1>a, OnwardIs
<1> HIDE DEF r
<1>5. RequestOK(r)
  BY <1>4 DEF RequestOK
<1>6. AsksOK' /\ PatchesSpare'
  <2>1. \A b \in asks' : /\ RequestOK(b)
                         /\ \/ b.at # "asked"
                            \/ \E c \in asks : /\ c.at = "asked" /\ c.op = b.op /\ c.id = b.id
                                               /\ c.body = b.body /\ c.wants = b.wants
    BY <1>2, <1>3, <1>4, <1>5
  <2>2. QED
    BY <1>1, <2>1, AsksGoOn
<1>7. TableOK' /\ TheirsListed' /\ OthersKept'
  BY <1>1, SameKeeps
<1>8. ViewOK'
  BY <1>1 DEF ViewOK, Rowed
<1>9. QED
  BY <1>6, <1>7, <1>8 DEF KeptInv

LEMMA HubStep ==
    ASSUME KeptInv, NEW a \in asks,
           \/ HandlePost(a) \/ HandlePatch(a) \/ Refuse(a) \/ HandleDelete(a)
           \/ HandleInstall(a) \/ HandleEvents(a)
    PROVE  KeptInv'
<1> USE DEF storedVars, shownVars, dialogs
<1>1. UNCHANGED <<shown, form, modal, theirs>>
  BY DEF HandlePost, HandlePatch, Refuse, HandleDelete, HandleInstall, HandleEvents
<1>2. AsksOK' /\ PatchesSpare'
  <2>1. CASE Refuse(a)
    BY <1>1, <2>1, DroppedOK DEF Refuse
  <2>2. CASE Onward(a, "answered")
    BY <1>1, <2>2, OnwardOK
  <2>3. QED
    BY <2>1, <2>2 DEF HandlePost, HandlePatch, HandleDelete, HandleInstall, HandleEvents
<1>3. ViewOK'
  BY <1>1 DEF KeptInv, ViewOK, Rowed
<1>4. TableOK' /\ TheirsListed' /\ OthersKept'
  <2>1. CASE HandlePost(a)
    <3>1. DOMAIN a.body = Fields
      BY <2>1 DEF HandlePost, KeptInv, AsksOK, RequestOK
    <3>2. Grown
      BY <2>1, <3>1, CreatedRows DEF HandlePost, KeptInv, Grown
    <3>3. QED
      BY <1>1, <3>2, GrownKeeps
  <2>2. CASE HandlePatch(a)
    <3>1. /\ a.id \in DOMAIN stored /\ DOMAIN stored' = DOMAIN stored /\ nextId' = nextId
          /\ \A i \in DOMAIN stored : i # a.id => stored'[i] = stored[i]
          /\ stored'[a.id] = PatchedRow(stored[a.id], a.body)
          /\ Rowed(stored')
      BY <2>2, UpdatedRows DEF HandlePatch, KeptInv
    <3>2. DOMAIN a.body \subseteq a.wants /\ \A f \in a.wants : <<a.id, f>> \notin DOMAIN theirs
      BY <2>2 DEF HandlePatch, Handled, KeptInv, PatchesSpare
    <3>3. \A f \in Fields : f \notin DOMAIN a.body => stored'[a.id][f] = stored[a.id][f]
      BY <3>1, PatchedFields DEF KeptInv, TableOK, Rowed
    <3>4. OthersKept'
      <4> SUFFICES ASSUME NEW x \in DOMAIN theirs, x[1] \in DOMAIN stored
                   PROVE  stored'[x[1]][x[2]] = theirs[x]
        BY <1>1, <3>1 DEF OthersKept
      <4>1. PICK id \in Nat, f \in Flags : x = <<id, f>>
        BY DEF KeptInv, TheirsListed
      <4>2. x[1] = id /\ x[2] = f /\ f \in Fields
        BY <4>1 DEF Fields
      <4>3. stored[id][f] = theirs[x]
        BY <4>2 DEF KeptInv, OthersKept
      <4>4. CASE id = a.id
        BY <3>2, <3>3, <4>1, <4>2, <4>3, <4>4
      <4>5. CASE id # a.id
        BY <3>1, <4>2, <4>3, <4>5
      <4>6. QED
        BY <4>4, <4>5
    <3>5. QED
      BY <1>1, <3>1, <3>4 DEF KeptInv, TableOK, TheirsListed
  <2>3. CASE HandleDelete(a)
    BY <1>1, <2>3, ShrunkKeeps DEF HandleDelete
  <2>4. CASE HandleInstall(a)
    <3>1. a.body.presets \subseteq Presets
      BY <2>4 DEF HandleInstall, KeptInv, AsksOK, RequestOK
    <3>2. Grown
      BY <2>4, <3>1, InstalledRows DEF HandleInstall, KeptInv, Grown
    <3>3. QED
      BY <1>1, <3>2, GrownKeeps
  <2>5. CASE Refuse(a) \/ HandleEvents(a)
    BY <1>1, <2>5, SameKeeps DEF Refuse, HandleEvents
  <2>6. QED
    BY <2>1, <2>2, <2>3, <2>4, <2>5
<1>5. QED
  BY <1>2, <1>3, <1>4 DEF KeptInv

LEMMA AnswerStep ==
    ASSUME KeptInv, NEW a \in asks, Answered(a) \/ RulesRead(a) \/ ShowLists(a) \/ Lost(a)
    PROVE  KeptInv'
<1> USE DEF storedVars, shownVars, dialogs
<1>1. UNCHANGED <<stored, nextId, theirs>>
  BY DEF Answered, RulesRead, ShowLists, Lost
<1>2. TableOK' /\ TheirsListed' /\ OthersKept'
  BY <1>1, SameKeeps
<1>3. RequestOK(a) /\ IsRequest(a)
  BY DEF KeptInv, AsksOK, RequestOK
<1>4. AsksOK' /\ PatchesSpare'
  <2>1. CASE Answered(a)
    BY <1>1, <2>1, OnwardOK DEF Answered
  <2>2. CASE RulesRead(a)
    <3> DEFINE b == ReadUp(a, stored)
    <3>1. /\ IsRequest(b) /\ b.at = "read" /\ b.op = a.op /\ b.id = a.id /\ b.body = a.body
          /\ b.wants = a.wants /\ b.here = a.here /\ b.rules = stored
      BY <1>3, ReadIs
    <3>2. asks' = (asks \ {a}) \cup {b}
      BY <2>2 DEF RulesRead, ReadUp
    <3> HIDE DEF b
    <3>3. RequestOK(b)
      BY <1>3, <3>1 DEF RequestOK, KeptInv, TableOK
    <3>4. QED
      BY <1>1, <3>1, <3>2, <3>3, AsksGoOn DEF KeptInv, AsksOK
  <2>3. CASE ShowLists(a) \/ Lost(a)
    BY <1>1, <2>3, DroppedOK DEF ShowLists, Lost
  <2>4. QED
    BY <2>1, <2>2, <2>3
<1>5. ViewOK'
  <2> USE DEF KeptInv
  <2>1. CASE Answered(a)
    BY <2>1 DEF Answered, ViewOK, Rowed
  <2>2. CASE RulesRead(a)
    BY <2>2 DEF RulesRead, ViewOK, Rowed
  <2>3. CASE ShowLists(a)
    BY <1>3, <2>3 DEF ShowLists, ViewOK, RequestOK, Rowed
  <2>4. CASE Lost(a)
    <3>1. UNCHANGED <<shown, form>> /\ modal' \in {modal, [modal EXCEPT !.busy = FALSE]}
          /\ (modal' = modal \/ modal # NoModal)
      BY <2>4 DEF Lost
    <3>2. modal # NoModal => /\ IsModal([modal EXCEPT !.busy = FALSE])
                             /\ [modal EXCEPT !.busy = FALSE].picked = modal.picked
      BY BusyIs DEF ViewOK
    <3>3. QED
      BY <3>1, <3>2 DEF ViewOK, Rowed
  <2>5. QED
    BY <2>1, <2>2, <2>3, <2>4
<1>6. QED
  BY <1>2, <1>4, <1>5 DEF KeptInv

LEMMA OthersStep ==
    ASSUME KeptInv,
           \/ \E id \in Ids : OtherDeletes(id)
           \/ \E p \in Presets : OtherInstalls(p)
           \/ \E id \in Ids, observed \in Levels, state \in {"firing", "resolved"} : Fire(id, observed, state)
    PROVE  KeptInv'
<1> USE DEF storedVars, shownVars, dialogs
<1>1. UNCHANGED <<shown, form, modal, theirs, asks>>
  BY DEF OtherDeletes, OtherInstalls, Fire
<1>2. AsksOK' /\ PatchesSpare'
  BY <1>1, DroppedOK
<1>3. ViewOK'
  BY <1>1 DEF KeptInv, ViewOK, Rowed
<1>4. TableOK' /\ TheirsListed' /\ OthersKept'
  <2>1. CASE \E id \in Ids : OtherDeletes(id)
    BY <1>1, <2>1, ShrunkKeeps DEF OtherDeletes
  <2>2. CASE \E p \in Presets : OtherInstalls(p)
    <3>1. PICK p \in Presets : OtherInstalls(p)
      BY <2>2
    <3>2. {p} \subseteq Presets /\ InstallPresets({p})
      BY <3>1 DEF OtherInstalls
    <3>3. Grown
      BY <3>2, InstalledRows DEF KeptInv, Grown
    <3>4. QED
      BY <1>1, <3>3, GrownKeeps
  <2>3. CASE \E id \in Ids, observed \in Levels, state \in {"firing", "resolved"} : Fire(id, observed, state)
    BY <1>1, <2>3, SameKeeps DEF Fire
  <2>4. QED
    BY <2>1, <2>2, <2>3
<1>5. QED
  BY <1>2, <1>3, <1>4 DEF KeptInv

LEMMA OtherPatchStep ==
    ASSUME KeptInv, NEW id \in Ids, NEW flag \in Flags, OtherPatches(id, flag)
    PROVE  KeptInv'
<1> USE DEF storedVars, shownVars, dialogs
<1> DEFINE body == [f \in {flag} |-> ~stored[id][f]]
           x0 == <<id, flag>>
           Asked == \E a \in asks : a.id = id /\ a.op = "patch" /\ a.at = "asked" /\ flag \in a.wants
<1>1. /\ UNCHANGED <<shown, form, modal, asks>> /\ id \in DOMAIN stored /\ UpdateRule(id, body)
      /\ theirs' = IF Asked THEN theirs ELSE Insert(theirs, x0, ~stored[id][flag])
  BY DEF OtherPatches
<1>2. /\ DOMAIN stored' = DOMAIN stored /\ nextId' = nextId
      /\ \A i \in DOMAIN stored : i # id => stored'[i] = stored[i]
      /\ stored'[id] = PatchedRow(stored[id], body)
      /\ Rowed(stored')
  BY <1>1, UpdatedRows DEF KeptInv
<1>3. TableOK' /\ ViewOK'
  BY <1>1, <1>2 DEF KeptInv, TableOK, ViewOK, Rowed
<1>4. /\ \A f \in Fields : f # flag => stored'[id][f] = stored[id][f]
      /\ stored'[id][flag] = ~stored[id][flag]
  <2>1. DOMAIN body = {flag} /\ body[flag] = ~stored[id][flag] /\ DOMAIN stored[id] = Fields
    BY <1>1 DEF KeptInv, TableOK, Rowed
  <2> HIDE DEF body
  <2>2. QED
    BY <1>2, <2>1, PatchedFields
<1>5. id \in Nat /\ id < nextId
  BY <1>1 DEF KeptInv, TableOK
<1> HIDE DEF body, Asked
<1>6. /\ DOMAIN theirs' = IF Asked THEN DOMAIN theirs ELSE DOMAIN theirs \cup {x0}
      /\ \A x \in DOMAIN theirs : x # x0 \/ Asked => theirs'[x] = theirs[x]
      /\ ~Asked => theirs'[x0] = ~stored[id][flag]
  BY <1>1 DEF Insert
<1>7. TheirsListed'
  BY <1>2, <1>5, <1>6 DEF KeptInv, TheirsListed
<1>8. AsksOK'
  BY <1>1 DEF KeptInv, AsksOK
<1>9. PatchesSpare'
  <2> SUFFICES ASSUME NEW a \in asks, a.op = "patch", a.at = "asked"
               PROVE  DOMAIN a.body \subseteq a.wants /\ \A f \in a.wants : <<a.id, f>> \notin DOMAIN theirs'
    BY <1>1 DEF PatchesSpare
  <2>1. DOMAIN a.body \subseteq a.wants /\ \A f \in a.wants : <<a.id, f>> \notin DOMAIN theirs
    BY DEF KeptInv, PatchesSpare
  <2>2. \A f \in a.wants : <<a.id, f>> = x0 => Asked
    BY DEF Asked
  <2>3. QED
    BY <1>6, <2>1, <2>2
<1>10. OthersKept'
  <2> SUFFICES ASSUME NEW x \in DOMAIN theirs', x[1] \in DOMAIN stored
               PROVE  stored'[x[1]][x[2]] = theirs'[x]
    BY <1>2 DEF OthersKept
  <2>1. CASE x = x0 /\ ~Asked
    BY <1>4, <1>6, <2>1
  <2>2. CASE x # x0 \/ Asked
    <3>1. x \in DOMAIN theirs /\ theirs'[x] = theirs[x]
      BY <1>6, <2>2
    <3>2. PICK i \in Nat, f \in Flags : x = <<i, f>>
      BY <3>1 DEF KeptInv, TheirsListed
    <3>3. x[1] = i /\ x[2] = f /\ f \in Fields
      BY <3>2 DEF Fields
    <3>4. stored[i][f] = theirs[x]
      BY <3>1, <3>3 DEF KeptInv, OthersKept
    <3>5. ~(i = id /\ f = flag)
      <4> SUFFICES ASSUME i = id, f = flag PROVE FALSE
        OBVIOUS
      <4>1. Asked /\ <<id, flag>> \in DOMAIN theirs
        BY <2>2, <3>1, <3>2
      <4>2. QED
        BY <4>1 DEF Asked, KeptInv, PatchesSpare
    <3>6. QED
      BY <1>2, <1>4, <3>1, <3>3, <3>4, <3>5
  <2>3. QED
    BY <2>1, <2>2
<1>11. QED
  BY <1>3, <1>7, <1>8, <1>9, <1>10 DEF KeptInv

LEMMA PageInitInv == AlertsPageInit => KeptInv
<1> SUFFICES ASSUME AlertsPageInit PROVE KeptInv
  OBVIOUS
<1>1. PICK ps \in SUBSET Presets : \E new \in Orders(ps) :
        /\ stored = [i \in 1 .. Cardinality(ps) |-> PresetRow(new[i])]
        /\ nextId = Cardinality(ps) + 1
  BY DEF AlertsPageInit
<1>2. Cardinality(ps) \in Nat
  BY PresetCount
<1>3. TableOK
  BY <1>1, <1>2, PresetFields DEF TableOK, Rowed
<1>4. ViewOK
  BY DEF AlertsPageInit, ViewOK, Rowed
<1> DEFINE r0 == Request("mount", 0, <<>>, {})
           r == [r0 EXCEPT !.at = "answered"]
<1>5. asks = {r} /\ theirs = <<>>
  BY DEF AlertsPageInit
<1>6. IsRequest(r0) /\ r0.op = "mount"
  BY DEF Request, IsRequest
<1> HIDE DEF r0
<1>7. IsRequest(r) /\ r.op = "mount" /\ r.at = "answered"
  BY <1>6, OnwardIs
<1> HIDE DEF r
<1>8. AsksOK /\ PatchesSpare
  BY <1>5, <1>7 DEF AsksOK, RequestOK, PatchesSpare
<1>9. TheirsListed /\ OthersKept
  BY <1>5 DEF TheirsListed, OthersKept
<1>10. QED
  BY <1>3, <1>4, <1>8, <1>9 DEF KeptInv

LEMMA PageStepInv == KeptInv /\ [AlertsPageNext]_alertsPageVars => KeptInv'
<1> SUFFICES ASSUME KeptInv, [AlertsPageNext]_alertsPageVars PROVE KeptInv'
  OBVIOUS
<1>1. CASE UNCHANGED alertsPageVars
  BY <1>1 DEF alertsPageVars, storedVars, shownVars, dialogs, KeptInv, TableOK, ViewOK, AsksOK, Rowed,
     TheirsListed, PatchesSpare, OthersKept
<1>2. CASE AlertsPageNext
  BY <1>2, ViewStep, AskStep, OpenPageStep, HubStep, AnswerStep, OthersStep, OtherPatchStep DEF AlertsPageNext
<1>3. QED
  BY <1>1, <1>2

LEMMA PageInvariant == AlertsPageSpec => []KeptInv
BY PageInitInv, PageStepInv, PTL DEF AlertsPageSpec

\* What another administrator set stays, for any rules, presets and number of
\* clicks: handlePatch (buildRulePatch) writes only the fields a request names, and
\* a request names only what its user asked for after the other had set it.
THEOREM OthersKeptHolds == AlertsPageSpec => []OthersKept
<1>1. KeptInv => OthersKept
  BY DEF KeptInv
<1>2. QED
  BY <1>1, PageInvariant, PTL

----------------------------------------------------------------------------
(* A preset is added once. As long as the dialog is not blind, one          *)
(* installation is under way at most, the dialog waits for it, and what it  *)
(* is to install is not in the table.                                       *)
SaferAsks ==
    \A a \in asks : a.op # "post" /\ (a.op = "patch" => DOMAIN a.body \subseteq Flags)

OneInstall == \A a, b \in asks : a.op = "install" /\ b.op = "install" => a = b

StillNew ==
    \A a \in asks : a.op = "install" /\ a.at = "asked" => a.body.presets \cap KeysOf(stored) = {}

DialogWaits ==
    modal # NoModal =>
        \A a \in asks : a.here /\ (a.op = "install" => modal.busy /\ a.at \in {"asked", "answered"})

Unhandled == \A a \in asks : a.op = "install" => a.at = "asked"

KnowsAll ==
    /\ KeysOf(stored) \subseteq KeysOf(shown)
    /\ \A a \in asks : a.at = "read" => KeysOf(stored) \subseteq KeysOf(a.rules)
    /\ modal.picked \cap KeysOf(stored) = {}
    /\ ~modal.here => KeysOf(stored) \subseteq modal.seen

DialogKnows == modal # NoModal /\ Unhandled => KnowsAll

OnceParts == SaferAsks /\ OneInstall /\ StillNew /\ DialogWaits /\ DialogKnows

OnceInv == KeptInv /\ (~blind => OnceParts)

LEMMA FewerKeys ==
    ASSUME NEW rows, NEW fewer, DOMAIN fewer \subseteq DOMAIN rows,
           \A i \in DOMAIN fewer : Key(fewer[i]) = Key(rows[i])
    PROVE  KeysOf(fewer) \subseteq KeysOf(rows)
BY DEF KeysOf

LEMMA FlagsKeepKey ==
    ASSUME NEW row, DOMAIN row = Fields, NEW body, DOMAIN body \subseteq Flags
    PROVE  Key(PatchedRow(row, body)) = Key(row)
<1>1. \A f \in {"metric", "condition", "threshold"} : PatchedRow(row, body)[f] = row[f]
  BY PatchedFields DEF Fields, Flags
<1>2. QED
  BY <1>1 DEF Key

\* The dialog and the page as they were, and some requests gone.
LEMMA FewerOnce ==
    ASSUME OnceParts, KeysOf(stored') \subseteq KeysOf(stored), UNCHANGED <<shown, modal>>,
           asks' \subseteq asks, Unhandled' => Unhandled \/ modal = NoModal
    PROVE  OnceParts'
BY DEF OnceParts, SaferAsks, OneInstall, StillNew, DialogWaits, DialogKnows, Unhandled, KnowsAll

\* A request that installs nothing.
LEMMA AskedOnce ==
    ASSUME OnceParts, UNCHANGED <<stored, shown, modal>>, NEW op, NEW id, NEW body, NEW wants,
           op \notin {"install", "post"}, op = "patch" => DOMAIN body \subseteq Flags,
           Ask(op, id, body, wants)
    PROVE  OnceParts'
<1> DEFINE r == Request(op, id, body, wants)
<1>1. /\ r.op = op /\ r.body = body /\ r.at = "asked" /\ r.here
  BY DEF Request
<1>2. asks' = asks \cup {r}
  BY DEF Ask
<1> HIDE DEF r
<1>3. SaferAsks' /\ OneInstall'
  BY <1>1, <1>2 DEF OnceParts, SaferAsks, OneInstall
<1>4. StillNew' /\ DialogWaits'
  BY <1>1, <1>2 DEF OnceParts, StillNew, DialogWaits
<1>5. DialogKnows'
  BY <1>1, <1>2 DEF OnceParts, DialogKnows, Unhandled, KnowsAll
<1>6. QED
  BY <1>3, <1>4, <1>5 DEF OnceParts

\* A request that goes on, with no more keys in the table.
LEMMA OnwardOnce ==
    ASSUME KeptInv, OnceParts, NEW a \in asks, NEW at, at \notin {"asked", "read"}, Onward(a, at),
           UNCHANGED <<shown, modal>>, KeysOf(stored') \subseteq KeysOf(stored),
           a.op # "install" \/ modal = NoModal
    PROVE  OnceParts'
<1> DEFINE b == [a EXCEPT !.at = at]
<1>1. IsRequest(a)
  BY DEF KeptInv, AsksOK, RequestOK
<1>2. b.at = at /\ b.op = a.op /\ b.body = a.body /\ b.here = a.here
  BY <1>1, OnwardIs
<1>3. asks' = (asks \ {a}) \cup {b}
  BY DEF Onward
<1> HIDE DEF b
<1>4. SaferAsks' /\ OneInstall'
  BY <1>2, <1>3 DEF OnceParts, SaferAsks, OneInstall
<1>5. StillNew' /\ DialogWaits'
  BY <1>2, <1>3 DEF OnceParts, StillNew, DialogWaits
<1>6. DialogKnows'
  BY <1>2, <1>3 DEF OnceParts, DialogKnows, Unhandled, KnowsAll
<1>7. QED
  BY <1>4, <1>5, <1>6 DEF OnceParts

LEMMA ViewOnce ==
    ASSUME OnceInv, ~blind',
           \/ CloseForm \/ OpenPresets \/ PresetsArrive \/ ClosePresets
           \/ \E id \in {0} \cup DOMAIN shown : OpenForm(id)
           \/ form # NoForm /\ \E row \in FormEdits(form[2]) : EditField(row)
           \/ \E p \in Presets : TogglePreset(p)
           \/ \E id \in Ids, observed \in Levels, state \in {"firing", "resolved"} : Fire(id, observed, state)
    PROVE  OnceParts'
<1> USE DEF storedVars, shownVars, dialogs
<1>1. UNCHANGED <<stored, asks, shown>>
  BY DEF CloseForm, OpenPresets, PresetsArrive, ClosePresets, OpenForm, EditField, TogglePreset, Fire
<1>2. CASE OpenPresets
  <2>1. asks = {} /\ KeysOf(stored) \subseteq KeysOf(shown)
    BY <1>2 DEF OpenPresets
  <2>2. modal'.picked = {} /\ modal'.seen = KeysOf(shown)
    BY <1>2 DEF OpenPresets
  <2>3. SaferAsks' /\ OneInstall' /\ StillNew' /\ DialogWaits'
    BY <1>1, <2>1 DEF SaferAsks, OneInstall, StillNew, DialogWaits
  <2>4. DialogKnows'
    BY <1>1, <2>1, <2>2 DEF DialogKnows, KnowsAll
  <2>5. QED
    BY <2>3, <2>4 DEF OnceParts
<1>3. CASE ~OpenPresets
  <2>1. OnceParts
    BY <1>3 DEF OnceInv, CloseForm, PresetsArrive, ClosePresets, OpenForm, EditField, TogglePreset, Fire
  <2>2. CASE UNCHANGED modal
    BY <1>1, <2>1, <2>2, FewerOnce DEF Unhandled
  <2>3. CASE ClosePresets
    BY <1>1, <2>1, <2>3 DEF ClosePresets, OnceParts, SaferAsks, OneInstall, StillNew, DialogWaits, DialogKnows
  <2>4. CASE PresetsArrive
    <3>1. modal # NoModal /\ IsModal(modal) /\ ~modal.here
      BY <2>4 DEF PresetsArrive, OnceInv, KeptInv, ViewOK
    <3>2. modal' = [modal EXCEPT !.here = TRUE, !.picked = ProposedPresets(modal.seen)]
      BY <2>4 DEF PresetsArrive
    <3>3. modal'.picked = ProposedPresets(modal.seen)
      BY <3>1, <3>2 DEF IsModal
    <3>4. modal'.busy = modal.busy
      BY <3>1, <3>2 DEF IsModal
    <3>5. modal'.here
      BY <3>1, <3>2 DEF IsModal
    <3>6. SaferAsks' /\ OneInstall' /\ StillNew'
      BY <1>1, <2>1 DEF OnceParts, SaferAsks, OneInstall, StillNew
    <3>7. DialogWaits'
      BY <1>1, <2>1, <3>1, <3>4 DEF OnceParts, DialogWaits
    <3>8. DialogKnows'
      BY <1>1, <2>1, <3>1, <3>3, <3>5 DEF OnceParts, DialogKnows, Unhandled, KnowsAll, ProposedPresets
    <3>9. QED
      BY <3>6, <3>7, <3>8 DEF OnceParts
  <2>5. CASE \E p \in Presets : TogglePreset(p)
    <3>1. PICK p \in Presets : TogglePreset(p)
      BY <2>5
    <3>2. modal # NoModal /\ IsModal(modal) /\ p \notin KeysOf(shown)
      BY <3>1 DEF TogglePreset, OnceInv, KeptInv, ViewOK
    <3>3. modal.here
      BY <3>1 DEF TogglePreset
    <3> DEFINE ps == IF p \in modal.picked THEN modal.picked \ {p} ELSE modal.picked \cup {p}
    <3>4. modal' = [modal EXCEPT !.picked = ps]
      BY <3>1 DEF TogglePreset
    <3>5. ps \subseteq modal.picked \cup {p}
      OBVIOUS
    <3> HIDE DEF ps
    <3>6. modal'.picked = ps
      BY <3>2, <3>4 DEF IsModal
    <3>7. modal'.busy = modal.busy
      BY <3>2, <3>4 DEF IsModal
    <3>8. modal'.here = modal.here
      BY <3>2, <3>4 DEF IsModal
    <3>9. SaferAsks' /\ OneInstall' /\ StillNew'
      BY <1>1, <2>1 DEF OnceParts, SaferAsks, OneInstall, StillNew
    <3>10. DialogWaits'
      BY <1>1, <2>1, <3>2, <3>7 DEF OnceParts, DialogWaits
    <3>11. DialogKnows'
      <4> SUFFICES ASSUME Unhandled' PROVE KnowsAll'
        BY DEF DialogKnows
      <4>1. KnowsAll
        BY <1>1, <2>1, <3>2 DEF OnceParts, DialogKnows, Unhandled
      <4>2. modal'.picked \cap KeysOf(stored) = {}
        BY <3>2, <3>5, <3>6, <4>1 DEF KnowsAll
      <4>3. modal'.here
        BY <3>3, <3>8
      <4>4. QED
        BY <1>1, <4>1, <4>2, <4>3 DEF KnowsAll
    <3>12. QED
      BY <3>9, <3>10, <3>11 DEF OnceParts
  <2>6. QED
    BY <1>3, <2>2, <2>3, <2>4, <2>5 DEF CloseForm, OpenForm, EditField, Fire
<1>4. QED
  BY <1>2, <1>3

LEMMA AskOnce ==
    ASSUME OnceInv, ~blind',
           \/ ClearEvents \/ Save \/ Install
           \/ \E id \in Ids : RemoveRule(id)
           \/ \E id \in Ids, flag \in Flags : Toggle(id, flag)
           \/ \E id \in 1 .. MaxEvents : DeleteEvent(id)
    PROVE  OnceParts'
<1> USE DEF storedVars, shownVars, dialogs
<1>1. /\ UNCHANGED <<stored, shown>> /\ ~Save
  BY DEF ClearEvents, Save, Install, RemoveRule, Toggle, DeleteEvent
<1>2. OnceParts
  BY <1>1 DEF OnceInv, ClearEvents, Install, RemoveRule, Toggle, DeleteEvent
<1>3. CASE Install
  <2>1. modal # NoModal /\ IsModal(modal)
    BY <1>3 DEF Install, OnceInv, KeptInv, ViewOK
  <2>2. ~modal.busy
    BY <1>3 DEF Install, MayInstall
  <2>3. \A a \in asks : a.op # "install" /\ a.here
    BY <1>2, <2>1, <2>2 DEF OnceParts, DialogWaits
  <2>4. modal' = [modal EXCEPT !.busy = TRUE]
    BY <1>3 DEF Install
  <2>5. modal'.picked = modal.picked /\ modal'.seen = modal.seen
    BY <2>1, <2>4 DEF IsModal
  <2>6. modal'.here = modal.here
    BY <2>1, <2>4 DEF IsModal
  <2>7. modal'.busy
    BY <2>1, <2>4 DEF IsModal
  <2> DEFINE body == [presets |-> modal.picked]
             r == Request("install", modal.n, body, {})
  <2>8. body.presets = modal.picked
    OBVIOUS
  <2>9. /\ r.op = "install" /\ r.body = body /\ r.at = "asked" /\ r.here
    BY DEF Request
  <2>10. asks' = asks \cup {r}
    BY <1>3 DEF Install, Ask
  <2> HIDE DEF body, r
  <2>11. KnowsAll
    BY <1>2, <2>1, <2>3 DEF OnceParts, DialogKnows, Unhandled
  <2>12. SaferAsks' /\ OneInstall'
    BY <1>2, <2>3, <2>9, <2>10 DEF OnceParts, SaferAsks, OneInstall
  <2>13. StillNew'
    BY <1>1, <2>3, <2>8, <2>9, <2>10, <2>11 DEF StillNew, KnowsAll
  <2>14. DialogWaits'
    BY <2>3, <2>7, <2>9, <2>10 DEF DialogWaits
  <2>15. DialogKnows'
    BY <1>1, <2>5, <2>6, <2>9, <2>10, <2>11 DEF DialogKnows, KnowsAll
  <2>16. QED
    BY <2>12, <2>13, <2>14, <2>15 DEF OnceParts
<1>4. CASE \E id \in Ids, flag \in Flags : Toggle(id, flag)
  <2>1. PICK id \in Ids, flag \in Flags : Toggle(id, flag)
    BY <1>4
  <2>2. DOMAIN ToggleBody(shown[id], flag) \subseteq Flags
    BY DEF ToggleBody
  <2>3. UNCHANGED modal /\ Ask("patch", id, ToggleBody(shown[id], flag), {flag})
    BY <2>1 DEF Toggle
  <2>4. QED
    BY <1>1, <1>2, <2>2, <2>3, AskedOnce
<1>5. CASE \E id \in Ids : RemoveRule(id)
  BY <1>1, <1>2, <1>5, AskedOnce DEF RemoveRule
<1>6. CASE ClearEvents
  BY <1>1, <1>2, <1>6, AskedOnce DEF ClearEvents
<1>7. CASE \E id \in 1 .. MaxEvents : DeleteEvent(id)
  BY <1>1, <1>2, <1>7, AskedOnce DEF DeleteEvent
<1>8. QED
  BY <1>1, <1>3, <1>4, <1>5, <1>6, <1>7

LEMMA OpenPageOnce ==
    ASSUME OnceInv, ~blind', OpenPage
    PROVE  OnceParts'
<1> DEFINE Away(a) == [a EXCEPT !.here = FALSE]
           r0 == Request("mount", 0, <<>>, {})
           r == [r0 EXCEPT !.at = "answered"]
<1>1. UNCHANGED <<stored, blind>> /\ modal' = NoModal
  BY DEF OpenPage, storedVars
<1>2. OnceParts
  BY <1>1 DEF OnceInv
<1>3. asks' = {Away(a) : a \in asks} \cup {r}
  BY DEF OpenPage
<1>4. \A a \in asks : IsRequest(a)
  BY DEF OnceInv, KeptInv, AsksOK, RequestOK
<1>5. \A a \in asks : Away(a).at = a.at /\ Away(a).op = a.op /\ Away(a).body = a.body
  BY <1>4, HereIs
<1>6. IsRequest(r0) /\ r0.op = "mount"
  BY DEF Request, IsRequest
<1> HIDE DEF Away, r0
<1>7. r.op = "mount"
  BY <1>6, OnwardIs
<1> HIDE DEF r
<1>8. SaferAsks' /\ StillNew'
  BY <1>1, <1>2, <1>3, <1>5, <1>7 DEF OnceParts, SaferAsks, StillNew
<1>9. OneInstall'
  BY <1>2, <1>3, <1>5, <1>7 DEF OnceParts, OneInstall
<1>10. DialogWaits' /\ DialogKnows'
  BY <1>1 DEF DialogWaits, DialogKnows
<1>11. QED
  BY <1>8, <1>9, <1>10 DEF OnceParts

LEMMA HubOnce ==
    ASSUME OnceInv, ~blind', NEW a \in asks,
           \/ HandlePost(a) \/ HandlePatch(a) \/ Refuse(a) \/ HandleDelete(a)
           \/ HandleInstall(a) \/ HandleEvents(a)
    PROVE  OnceParts'
<1> USE DEF storedVars, shownVars, dialogs
<1>1. UNCHANGED <<shown, modal, blind>>
  BY DEF HandlePost, HandlePatch, Refuse, HandleDelete, HandleInstall, HandleEvents
<1>2. OnceParts /\ KeptInv
  BY <1>1 DEF OnceInv
<1>3. TableOK
  BY <1>2 DEF KeptInv
<1>4. CASE HandlePost(a)
  BY <1>2, <1>4 DEF HandlePost, OnceParts, SaferAsks
<1>5. CASE HandlePatch(a)
  <2>1. DOMAIN a.body \subseteq Flags /\ a.op # "install"
    BY <1>2, <1>5 DEF HandlePatch, OnceParts, SaferAsks
  <2>2. /\ a.id \in DOMAIN stored /\ DOMAIN stored' = DOMAIN stored
        /\ \A i \in DOMAIN stored : i # a.id => stored'[i] = stored[i]
        /\ stored'[a.id] = PatchedRow(stored[a.id], a.body)
    BY <1>3, <1>5, UpdatedRows DEF HandlePatch
  <2>3. Key(stored'[a.id]) = Key(stored[a.id])
    BY <1>3, <2>1, <2>2, FlagsKeepKey DEF TableOK, Rowed
  <2>4. \A i \in DOMAIN stored' : Key(stored'[i]) = Key(stored[i])
    BY <2>2, <2>3
  <2>5. KeysOf(stored') \subseteq KeysOf(stored)
    BY <2>2, <2>4, FewerKeys
  <2>6. QED
    BY <1>1, <1>2, <1>5, <2>1, <2>5, OnwardOnce DEF HandlePatch
<1>6. CASE Refuse(a)
  BY <1>1, <1>2, <1>6, FewerOnce DEF Refuse, Unhandled
<1>7. CASE HandleDelete(a)
  <2>1. DOMAIN stored' \subseteq DOMAIN stored /\ \A i \in DOMAIN stored' : stored'[i] = stored[i]
    BY <1>3, <1>7, FewerRows DEF HandleDelete
  <2>2. KeysOf(stored') \subseteq KeysOf(stored)
    BY <2>1, FewerKeys
  <2>3. QED
    BY <1>1, <1>2, <1>7, <2>2, OnwardOnce DEF HandleDelete
<1>8. CASE HandleEvents(a)
  BY <1>1, <1>2, <1>8, OnwardOnce DEF HandleEvents
<1>9. CASE HandleInstall(a)
  <2> DEFINE b == [a EXCEPT !.at = "answered"]
  <2>1. IsRequest(a)
    BY <1>2 DEF KeptInv, AsksOK, RequestOK
  <2>2. b.at = "answered" /\ b.op = a.op /\ b.body = a.body /\ b.here = a.here
    BY <2>1, OnwardIs
  <2>3. asks' = (asks \ {a}) \cup {b} /\ a.op = "install"
    BY <1>9 DEF HandleInstall, Onward
  <2> HIDE DEF b
  <2>4. \A c \in asks' : c.op = "install" => c = b
    BY <1>2, <2>2, <2>3 DEF OnceParts, OneInstall
  <2>5. SaferAsks' /\ OneInstall' /\ StillNew'
    BY <1>2, <2>2, <2>3, <2>4 DEF OnceParts, SaferAsks, OneInstall, StillNew
  <2>6. DialogWaits'
    BY <1>1, <1>2, <2>2, <2>3 DEF OnceParts, DialogWaits
  <2>7. DialogKnows'
    BY <2>2, <2>3 DEF DialogKnows, Unhandled
  <2>8. QED
    BY <2>5, <2>6, <2>7 DEF OnceParts
<1>10. QED
  BY <1>4, <1>5, <1>6, <1>7, <1>8, <1>9

LEMMA AnswerOnce ==
    ASSUME OnceInv, ~blind', NEW a \in asks, Answered(a) \/ RulesRead(a) \/ ShowLists(a) \/ Lost(a)
    PROVE  OnceParts'
<1> USE DEF storedVars, shownVars, dialogs
<1>1. UNCHANGED stored
  BY DEF Answered, RulesRead, ShowLists, Lost
<1>2. OnceParts /\ KeptInv /\ IsRequest(a)
  BY DEF OnceInv, KeptInv, AsksOK, RequestOK, Answered, RulesRead, ShowLists, Lost
<1>3. CASE Answered(a)
  <2>1. UNCHANGED shown /\ Onward(a, "loading")
    BY <1>3 DEF Answered
  <2>2. CASE UNCHANGED modal /\ (a.op # "install" \/ modal = NoModal)
    BY <1>1, <1>2, <2>1, <2>2, OnwardOnce
  <2>3. CASE modal' = NoModal /\ a.op = "install"
    <3> DEFINE b == [a EXCEPT !.at = "loading"]
    <3>1. b.at = "loading" /\ b.op = a.op /\ b.body = a.body
      BY <1>2, OnwardIs
    <3>2. asks' = (asks \ {a}) \cup {b}
      BY <2>1 DEF Onward
    <3> HIDE DEF b
    <3>3. SaferAsks' /\ OneInstall' /\ StillNew'
      BY <1>1, <1>2, <3>1, <3>2 DEF OnceParts, SaferAsks, OneInstall, StillNew
    <3>4. DialogWaits' /\ DialogKnows'
      BY <2>3 DEF DialogWaits, DialogKnows
    <3>5. QED
      BY <3>3, <3>4 DEF OnceParts
  <2>4. QED
    BY <1>2, <1>3, <2>2, <2>3 DEF Answered, OnceParts, DialogWaits
<1>4. CASE RulesRead(a)
  <2> DEFINE b == ReadUp(a, stored)
  <2>1. b.at = "read" /\ b.op = a.op /\ b.body = a.body /\ b.here = a.here /\ b.rules = stored
    BY <1>2, ReadIs
  <2>2. asks' = (asks \ {a}) \cup {b} /\ UNCHANGED <<shown, modal>> /\ a.at = "loading"
    BY <1>4 DEF RulesRead, ReadUp
  <2> HIDE DEF b
  <2>3. SaferAsks' /\ OneInstall' /\ StillNew'
    BY <1>1, <1>2, <2>1, <2>2 DEF OnceParts, SaferAsks, OneInstall, StillNew
  <2>4. DialogWaits'
    BY <1>2, <2>1, <2>2 DEF OnceParts, DialogWaits
  <2>5. DialogKnows'
    BY <1>1, <1>2, <2>1, <2>2 DEF OnceParts, DialogKnows, Unhandled, KnowsAll
  <2>6. QED
    BY <2>3, <2>4, <2>5 DEF OnceParts
<1>5. CASE ShowLists(a)
  <2>1. asks' = asks \ {a} /\ UNCHANGED modal /\ a.at = "read" /\ shown' = IF a.here THEN a.rules ELSE shown
    BY <1>5 DEF ShowLists
  <2>2. SaferAsks' /\ OneInstall' /\ StillNew'
    BY <1>1, <1>2, <2>1 DEF OnceParts, SaferAsks, OneInstall, StillNew
  <2>3. DialogWaits'
    BY <1>2, <2>1 DEF OnceParts, DialogWaits
  <2>4. DialogKnows'
    <3> SUFFICES ASSUME modal # NoModal, Unhandled' PROVE KnowsAll'
      BY <2>1 DEF DialogKnows
    <3>1. a.op # "install" /\ a.here
      BY <1>2, <2>1 DEF OnceParts, DialogWaits
    <3>2. KnowsAll
      BY <1>2, <2>1, <3>1 DEF OnceParts, DialogKnows, Unhandled
    <3>3. QED
      BY <1>1, <2>1, <3>1, <3>2 DEF KnowsAll
  <2>5. QED
    BY <2>2, <2>3, <2>4 DEF OnceParts
<1>6. CASE Lost(a)
  <2>1. asks' = asks \ {a} /\ UNCHANGED shown /\ ~(a.op = "install" /\ a.at # "asked")
    BY <1>6 DEF Lost
  <2>2. CASE UNCHANGED modal
    BY <1>1, <1>2, <2>1, <2>2, FewerOnce DEF Unhandled
  <2>3. CASE modal # NoModal /\ a.op = "install" /\ modal' = [modal EXCEPT !.busy = FALSE]
    <3>1. IsModal(modal)
      BY <1>2, <2>3 DEF KeptInv, ViewOK
    <3>2. modal'.picked = modal.picked /\ modal'.seen = modal.seen
      BY <2>3, <3>1, BusyIs
    <3>3. modal'.here = modal.here
      BY <2>3, <3>1, BusyIs
    <3>4. \A c \in asks' : c.op # "install"
      BY <1>2, <2>1, <2>3 DEF OnceParts, OneInstall
    <3>5. SaferAsks' /\ OneInstall' /\ StillNew'
      BY <1>1, <1>2, <2>1 DEF OnceParts, SaferAsks, OneInstall, StillNew
    <3>6. DialogWaits'
      BY <1>2, <2>1, <2>3, <3>4 DEF OnceParts, DialogWaits
    <3>7. KnowsAll
      BY <1>2, <2>1, <2>3 DEF OnceParts, DialogKnows, Unhandled, OneInstall
    <3>8. DialogKnows'
      BY <1>1, <2>1, <3>2, <3>3, <3>7 DEF DialogKnows, KnowsAll
    <3>9. QED
      BY <3>5, <3>6, <3>8 DEF OnceParts
  <2>4. QED
    BY <1>6, <2>2, <2>3 DEF Lost
<1>7. QED
  BY <1>3, <1>4, <1>5, <1>6

LEMMA OthersOnce ==
    ASSUME OnceInv, ~blind',
           \/ \E id \in Ids : OtherDeletes(id)
           \/ \E id \in Ids, flag \in Flags : OtherPatches(id, flag)
           \/ \E p \in Presets : OtherInstalls(p)
    PROVE  OnceParts'
<1> USE DEF storedVars, shownVars, dialogs
<1>1. UNCHANGED <<shown, modal, asks, blind>>
  BY DEF OtherDeletes, OtherPatches, OtherInstalls
<1>2. OnceParts /\ TableOK
  BY <1>1 DEF OnceInv, KeptInv
<1>3. KeysOf(stored') \subseteq KeysOf(stored)
  <2>1. CASE \E id \in Ids : OtherDeletes(id)
    <3>1. DOMAIN stored' \subseteq DOMAIN stored /\ \A i \in DOMAIN stored' : stored'[i] = stored[i]
      BY <1>2, <2>1, FewerRows DEF OtherDeletes
    <3>2. QED
      BY <3>1, FewerKeys
  <2>2. CASE \E id \in Ids, flag \in Flags : OtherPatches(id, flag)
    <3>1. PICK id \in Ids, flag \in Flags : OtherPatches(id, flag)
      BY <2>2
    <3> DEFINE body == [f \in {flag} |-> ~stored[id][f]]
    <3>2. id \in DOMAIN stored /\ UpdateRule(id, body)
      BY <3>1 DEF OtherPatches
    <3>3. DOMAIN body \subseteq Flags
      OBVIOUS
    <3> HIDE DEF body
    <3>4. /\ DOMAIN stored' = DOMAIN stored
          /\ \A i \in DOMAIN stored : i # id => stored'[i] = stored[i]
          /\ stored'[id] = PatchedRow(stored[id], body)
      BY <1>2, <3>2, UpdatedRows
    <3>5. Key(stored'[id]) = Key(stored[id])
      BY <1>2, <3>2, <3>3, <3>4, FlagsKeepKey DEF TableOK, Rowed
    <3>6. \A i \in DOMAIN stored' : Key(stored'[i]) = Key(stored[i])
      BY <3>4, <3>5
    <3>7. QED
      BY <3>4, <3>6, FewerKeys
  <2>3. QED
    BY <2>1, <2>2 DEF OtherInstalls
<1>4. QED
  BY <1>1, <1>2, <1>3, FewerOnce DEF Unhandled

LEMMA OnceInit == AlertsPageInit => OnceInv
<1> SUFFICES ASSUME AlertsPageInit PROVE OnceInv
  OBVIOUS
<1> DEFINE r0 == Request("mount", 0, <<>>, {})
           r == [r0 EXCEPT !.at = "answered"]
<1>1. asks = {r} /\ modal = NoModal
  BY DEF AlertsPageInit
<1>2. IsRequest(r0) /\ r0.op = "mount"
  BY DEF Request, IsRequest
<1> HIDE DEF r0
<1>3. r.op = "mount"
  BY <1>2, OnwardIs
<1> HIDE DEF r
<1>4. OnceParts
  BY <1>1, <1>3 DEF OnceParts, SaferAsks, OneInstall, StillNew, DialogWaits, DialogKnows
<1>5. QED
  BY <1>4, PageInitInv DEF OnceInv

LEMMA OnceStep == OnceInv /\ [AlertsPageNext]_alertsPageVars => OnceInv'
<1> SUFFICES ASSUME OnceInv, [AlertsPageNext]_alertsPageVars, ~blind' PROVE OnceParts'
  BY PageStepInv DEF OnceInv
<1>1. CASE UNCHANGED alertsPageVars
  BY <1>1, FewerOnce DEF OnceInv, alertsPageVars, storedVars, shownVars, dialogs, Unhandled
<1>2. CASE AlertsPageNext
  BY <1>2, ViewOnce, AskOnce, OpenPageOnce, HubOnce, AnswerOnce, OthersOnce DEF AlertsPageNext
<1>3. QED
  BY <1>1, <1>2

\* The dialog installs no preset twice: POST /api/alerts/presets adds a row per id
\* whatever is stored, so that the page alone sees to it, by the rules it showed
\* when the dialog opened, the disabled boxes and the busy button.
THEOREM PresetsOnceHolds == AlertsPageSpec => PresetsOnce
<1>1. OnceInv /\ [AlertsPageNext]_alertsPageVars =>
        [\A a \in asks : Handled(a) /\ a.op = "install" /\ a \notin asks' /\ nextId' > nextId /\ ~blind
           => a.body.presets \cap KeysOf(stored) = {}]_alertsPageVars
  BY DEF OnceInv, OnceParts, StillNew, Handled
<1>2. QED
  BY <1>1, OnceInit, OnceStep, PTL DEF AlertsPageSpec, PresetsOnce

-----------------------------------------------------------------------------
(* The lines. What a document says of one line of one card, or of all.      *)
SameOwn(d, e, c, l) ==
    /\ l \in DOMAIN OwnLines(d.gpus, c) <=> l \in DOMAIN OwnLines(e.gpus, c)
    /\ l \in DOMAIN OwnLines(d.gpus, c) => OwnLines(d.gpus, c)[l] = OwnLines(e.gpus, c)[l]

\* Two documents that differ only in lines a tab's user edited.
Agree(d, e, t, mine) ==
    /\ \A c \in Cards, l \in Lines : <<t, c, l>> \in mine \/ SameOwn(d, e, c, l)
    /\ \A l \in Lines : <<t, Global, l>> \in mine \/ d.global[l] = e.global[l]

IsDoc(d) == d = [global |-> d.global, gpus |-> d.gpus]
WholeDoc(d) == IsDoc(d) /\ DOMAIN d.global = Lines

IsPut(p) == p = [tab |-> p.tab, doc |-> p.doc, blind |-> p.blind]

LinesType ==
    /\ IsDoc(doc) /\ (doc.global = Unset \/ DOMAIN doc.global = Lines)
    /\ DOMAIN copy = Tabs /\ \A t \in Tabs : WholeDoc(copy[t])
    /\ \A p \in puts : IsPut(p) /\ p.tab \in Tabs /\ WholeDoc(p.doc)
    /\ \A l \in loads : \E t \in Tabs :
         \/ l = <<t>>
         \/ \E d : l = <<t, d>> /\ IsDoc(d) /\ (d.global = Unset \/ DOMAIN d.global = Lines)

\* A tab that is not stale has the document, but for what its user edited; and
\* so has what it sent.
CopiesAgree == \A t \in Tabs \ stale : Agree(copy[t], LoadedCopy(t, doc), t, touched)
PutsAgree == \A p \in puts : ~p.blind => Agree(p.doc, LoadedCopy(p.tab, doc), p.tab, touched)

LinesInv == LinesType /\ CopiesAgree /\ PutsAgree

LEMMA AgreeSelf == ASSUME NEW d, NEW t, NEW mine PROVE Agree(d, d, t, mine)
BY DEF Agree, SameOwn

LEMMA AgreeTurned ==
    ASSUME NEW d, NEW e, NEW t, NEW mine, Agree(d, e, t, mine) PROVE Agree(e, d, t, mine)
BY DEF Agree, SameOwn

LEMMA AgreeOn ==
    ASSUME NEW d, NEW e, NEW f, NEW t, NEW mine, Agree(d, e, t, mine), Agree(e, f, t, mine)
    PROVE  Agree(d, f, t, mine)
<1>1. \A c \in Cards, l \in Lines : <<t, c, l>> \in mine \/ SameOwn(d, f, c, l)
  BY DEF Agree, SameOwn
<1>2. \A l \in Lines : <<t, Global, l>> \in mine \/ d.global[l] = f.global[l]
  BY DEF Agree
<1>3. QED
  BY <1>1, <1>2 DEF Agree

LEMMA AgreeMore ==
    ASSUME NEW d, NEW e, NEW t, NEW mine, NEW more, mine \subseteq more, Agree(d, e, t, mine)
    PROVE  Agree(d, e, t, more)
BY DEF Agree

LEMMA DocIs ==
    ASSUME NEW global, NEW gpus
    PROVE  IsDoc(Doc(global, gpus)) /\ Doc(global, gpus).global = global /\ Doc(global, gpus).gpus = gpus
BY DEF Doc, IsDoc

LEMMA WithGlobal ==
    ASSUME NEW d, IsDoc(d), NEW g
    PROVE  LET e == [d EXCEPT !.global = g] IN IsDoc(e) /\ e.global = g /\ e.gpus = d.gpus
BY DEF IsDoc

LEMMA WithGpus ==
    ASSUME NEW d, IsDoc(d), NEW g
    PROVE  LET e == [d EXCEPT !.gpus = g] IN IsDoc(e) /\ e.gpus = g /\ e.global = d.global
BY DEF IsDoc

LEMMA WholeIs == ASSUME NEW v PROVE DOMAIN Whole(v) = Lines
BY DEF Whole

LEMMA BlindIs ==
    ASSUME NEW p, IsPut(p), NEW unseen
    PROVE  LET q == [p EXCEPT !.blind = unseen] IN
           IsPut(q) /\ q.tab = p.tab /\ q.doc = p.doc /\ q.blind = unseen
BY DEF IsPut

\* Dropping the entries without a value changes no line.
LEMMA ParsedAgrees ==
    ASSUME NEW d, WholeDoc(d), NEW t, NEW mine
    PROVE  /\ IsDoc(Parsed(d)) /\ DOMAIN Parsed(d).global = Lines
           /\ Agree(LoadedCopy(t, Parsed(d)), d, t, mine)
<1> DEFINE e == Parsed(d)
           kept == [c \in {g \in DOMAIN d.gpus : DOMAIN d.gpus[g] # {}} |-> d.gpus[c]]
           f == LoadedCopy(t, e)
<1>1. IsDoc(e) /\ e.global = d.global /\ e.gpus = kept
  BY DocIs DEF Parsed
<1>2. DOMAIN d.global = Lines
  BY DEF WholeDoc
<1>3. f.gpus = kept /\ (e.global # Unset => f.global = e.global)
  <2> HIDE DEF e, kept
  <2>1. QED
    BY <1>1, DocIs DEF LoadedCopy
<1>4. \A c \in Cards, l \in Lines : SameOwn(f, d, c, l)
  <2> SUFFICES ASSUME NEW c \in Cards, NEW l \in Lines PROVE SameOwn(f, d, c, l)
    OBVIOUS
  <2>1. DOMAIN Nothing = {}
    BY DEF Nothing
  <2>2. CASE c \in DOMAIN kept
    <3>1. OwnLines(kept, c) = OwnLines(d.gpus, c)
      BY <2>2 DEF OwnLines
    <3> HIDE DEF kept, f, e
    <3>2. QED
      BY <1>3, <3>1 DEF SameOwn
  <2>3. CASE c \notin DOMAIN kept
    <3>1. DOMAIN OwnLines(kept, c) = {} /\ DOMAIN OwnLines(d.gpus, c) = {}
      BY <2>1, <2>3 DEF OwnLines
    <3> HIDE DEF kept, f, e
    <3>2. QED
      BY <1>3, <3>1 DEF SameOwn
  <2>4. QED
    BY <2>2, <2>3
<1>5. \A l \in Lines : f.global[l] = d.global[l]
  <2> SUFFICES ASSUME NEW l \in Lines PROVE f.global[l] = d.global[l]
    OBVIOUS
  <2>1. DOMAIN Unset = {}
    BY DEF Unset, Nothing
  <2> HIDE DEF e, f, kept
  <2>2. e.global # Unset
    BY <1>1, <1>2, <2>1
  <2>3. QED
    BY <1>1, <1>3, <2>2
<1> HIDE DEF e, f, kept
<1>6. IsDoc(e) /\ DOMAIN e.global = Lines /\ Agree(f, d, t, mine)
  BY <1>1, <1>2, <1>4, <1>5 DEF Agree
<1>7. QED
  BY <1>6 DEF e, f

----------------------------------------------------------------------------
(* The steps of the hub.                                                    *)

LEMMA PutLines ==
    ASSUME LinesInv, NEW p \in puts, Put(p)
    PROVE  LinesInv'
<1> DEFINE passed(t) == doc' # doc /\ (t = p.tab => p.blind)
           Marked(q) == [q EXCEPT !.blind = q.blind \/ passed(q.tab)]
<1>1. /\ doc' = Parsed(p.doc) /\ puts' = {Marked(q) : q \in puts \ {p}}
      /\ stale' = stale \cup {t \in Tabs : passed(t)}
      /\ UNCHANGED <<copy, loads, touched>>
  BY DEF Put, tabsVars
<1>2. /\ IsPut(p) /\ p.tab \in Tabs /\ WholeDoc(p.doc)
  BY DEF LinesInv, LinesType
<1>3. IsDoc(doc') /\ DOMAIN doc'.global = Lines
  BY <1>1, <1>2, ParsedAgrees
<1>4. \A q \in puts : /\ IsPut(Marked(q)) /\ Marked(q).tab = q.tab /\ Marked(q).doc = q.doc
                      /\ Marked(q).blind = (q.blind \/ passed(q.tab))
  <2> SUFFICES ASSUME NEW q \in puts
               PROVE  /\ IsPut(Marked(q)) /\ Marked(q).tab = q.tab /\ Marked(q).doc = q.doc
                      /\ Marked(q).blind = (q.blind \/ passed(q.tab))
    OBVIOUS
  <2>1. IsPut(q)
    BY DEF LinesInv, LinesType
  <2> HIDE DEF passed
  <2>2. QED
    BY <2>1, BlindIs
<1> HIDE DEF Marked
<1>5. LinesType'
  <2>1. \A q \in puts' : IsPut(q) /\ q.tab \in Tabs /\ WholeDoc(q.doc)
    BY <1>1, <1>4 DEF LinesInv, LinesType
  <2>2. QED
    BY <1>1, <1>3, <2>1 DEF LinesInv, LinesType
(* What agreed with the document, unless it was passed, still does.         *)
<1>6. ASSUME NEW d, NEW t \in Tabs, Agree(d, LoadedCopy(t, doc), t, touched), ~passed(t)
      PROVE  Agree(d, LoadedCopy(t, doc'), t, touched)
  <2>1. CASE doc' = doc
    BY <1>6, <2>1
  <2>2. CASE t = p.tab /\ ~p.blind
    <3>1. Agree(p.doc, LoadedCopy(t, doc), t, touched)
      BY <2>2 DEF LinesInv, PutsAgree
    <3>2. Agree(LoadedCopy(t, doc), p.doc, t, touched)
      BY <3>1, AgreeTurned
    <3>3. Agree(LoadedCopy(t, doc'), p.doc, t, touched)
      BY <1>1, <1>2, ParsedAgrees
    <3>4. Agree(p.doc, LoadedCopy(t, doc'), t, touched)
      BY <3>3, AgreeTurned
    <3>5. Agree(d, p.doc, t, touched)
      BY <1>6, <3>2, AgreeOn
    <3>6. QED
      BY <3>4, <3>5, AgreeOn
  <2>3. QED
    BY <1>6, <2>1, <2>2
<1>7. CopiesAgree'
  <2> SUFFICES ASSUME NEW t \in Tabs \ stale' PROVE Agree(copy[t], LoadedCopy(t, doc'), t, touched)
    BY <1>1 DEF CopiesAgree
  <2>1. t \notin stale /\ ~passed(t)
    BY <1>1
  <2>2. Agree(copy[t], LoadedCopy(t, doc), t, touched)
    BY <2>1 DEF LinesInv, CopiesAgree
  <2>3. QED
    BY <1>6, <2>1, <2>2
<1>8. PutsAgree'
  <2> SUFFICES ASSUME NEW r \in puts', ~r.blind PROVE Agree(r.doc, LoadedCopy(r.tab, doc'), r.tab, touched)
    BY <1>1 DEF PutsAgree
  <2>1. PICK q \in puts : r = Marked(q)
    BY <1>1
  <2>2. r.tab = q.tab /\ r.doc = q.doc /\ ~q.blind /\ ~passed(q.tab)
    BY <1>4, <2>1
  <2>3. q.tab \in Tabs /\ Agree(q.doc, LoadedCopy(q.tab, doc), q.tab, touched)
    BY <2>2 DEF LinesInv, LinesType, PutsAgree
  <2>4. Agree(q.doc, LoadedCopy(q.tab, doc'), q.tab, touched)
    BY <1>6, <2>2, <2>3
  <2>5. QED
    BY <2>2, <2>4
<1>9. QED
  BY <1>5, <1>7, <1>8 DEF LinesInv

LEMMA PutGone ==
    ASSUME LinesInv, NEW p \in puts, Refused(p) \/ PutLost(p)
    PROVE  LinesInv'
BY DEF Refused, PutLost, LinesInv, LinesType, CopiesAgree, PutsAgree, tabsVars, LoadedCopy

----------------------------------------------------------------------------
(* The steps of a tab.                                                      *)

\* The copy of a tab that is stale from now on is any whole document.
LEMMA StaleLines ==
    ASSUME LinesInv, NEW t \in Tabs, NEW d, WholeDoc(d), copy' = [copy EXCEPT ![t] = d],
           stale' = stale \cup {t}, UNCHANGED <<doc, puts, touched>>,
           \A l \in loads' : l \in loads \/ l = <<t>>
    PROVE  LinesInv'
<1>1. LinesType'
  BY DEF LinesInv, LinesType
<1>2. CopiesAgree' /\ PutsAgree'
  BY DEF LinesInv, LinesType, CopiesAgree, PutsAgree, LoadedCopy
<1>3. QED
  BY <1>1, <1>2 DEF LinesInv

LEMMA LoadLines ==
    ASSUME LinesInv, NEW l \in loads, LoadAnswered(l)
    PROVE  LinesInv'
<1>1. PICK t \in Tabs :
        \E d : l = <<t, d>> /\ IsDoc(d) /\ (d.global = Unset \/ DOMAIN d.global = Lines)
  BY DEF LoadAnswered, LinesInv, LinesType
<1>d. PICK d : l = <<t, d>> /\ IsDoc(d) /\ (d.global = Unset \/ DOMAIN d.global = Lines)
  BY <1>1
<1>2. /\ l[1] = t /\ l[2] = d
  BY <1>d
<1>3. /\ copy' = [copy EXCEPT ![t] = LoadedCopy(t, d)] /\ loads' = loads \ {l}
      /\ stale' = IF d = doc THEN stale \ {t} ELSE stale \cup {t}
      /\ UNCHANGED <<doc, puts, touched>>
  BY <1>2 DEF LoadAnswered
<1>4. WholeDoc(LoadedCopy(t, d))
  BY <1>d, DocIs, WholeIs DEF LoadedCopy, WholeDoc, BrowserThresholds
<1>5. LinesType'
  BY <1>3, <1>4 DEF LinesInv, LinesType
<1>6. PutsAgree'
  BY <1>3 DEF LinesInv, PutsAgree, LoadedCopy
<1>7. CopiesAgree'
  <2> SUFFICES ASSUME NEW s \in Tabs \ stale' PROVE Agree(copy'[s], LoadedCopy(s, doc), s, touched)
    BY <1>3 DEF CopiesAgree, LoadedCopy
  <2>1. CASE s = t
    <3>1. d = doc /\ copy'[s] = LoadedCopy(t, d)
      BY <1>3, <2>1 DEF LinesInv, LinesType
    <3>2. QED
      BY <2>1, <3>1, AgreeSelf
  <2>2. CASE s # t
    BY <1>3, <2>2 DEF LinesInv, LinesType, CopiesAgree
  <2>3. QED
    BY <2>1, <2>2
<1>8. QED
  BY <1>5, <1>6, <1>7 DEF LinesInv

\* An edit changes no line but those it is of.
LEMMA EditLines ==
    ASSUME LinesInv, NEW t \in Tabs, NEW where, NEW ls, NEW to, Edit(t, where, ls, to), WholeDoc(to),
           Agree(to, copy[t], t, {<<t, where, l>> : l \in ls})
    PROVE  LinesInv'
<1>1. /\ copy' = [copy EXCEPT ![t] = to] /\ touched' = touched \cup {<<t, where, l>> : l \in ls}
      /\ UNCHANGED <<doc, loads, puts, stale>>
  BY DEF Edit
<1>2. LinesType'
  BY <1>1 DEF LinesInv, LinesType
<1>3. \A d, e, s : Agree(d, e, s, touched) => Agree(d, e, s, touched')
  BY <1>1, AgreeMore
<1>4. PutsAgree'
  BY <1>1, <1>3 DEF LinesInv, PutsAgree, LoadedCopy
<1>5. CopiesAgree'
  <2> SUFFICES ASSUME NEW s \in Tabs \ stale PROVE Agree(copy'[s], LoadedCopy(s, doc), s, touched')
    BY <1>1 DEF CopiesAgree, LoadedCopy
  <2>1. Agree(copy[s], LoadedCopy(s, doc), s, touched')
    BY <1>3 DEF LinesInv, CopiesAgree
  <2>2. CASE s = t
    <3>1. Agree(to, copy[t], t, touched') /\ copy'[s] = to
      BY <1>1, <2>2, AgreeMore DEF LinesInv, LinesType
    <3>2. QED
      BY <2>1, <2>2, <3>1, AgreeOn
  <2>3. CASE s # t
    BY <1>1, <2>1, <2>3 DEF LinesInv, LinesType
  <2>4. QED
    BY <2>2, <2>3
<1>6. QED
  BY <1>2, <1>4, <1>5 DEF LinesInv

LEMMA GlobalLines ==
    ASSUME LinesInv, NEW t \in Tabs,
           ResetGlobal(t) \/ \E l \in Lines, v \in Values \cup {NoLine} : SetGlobal(t, l, v)
    PROVE  LinesInv'
<1>1. IsDoc(copy[t]) /\ DOMAIN copy[t].global = Lines
  BY DEF LinesInv, LinesType, WholeDoc
<1>2. CASE ResetGlobal(t)
  <2> DEFINE to == [copy[t] EXCEPT !.global = Whole(Default)]
  <2>1. IsDoc(to) /\ to.global = Whole(Default) /\ to.gpus = copy[t].gpus
    BY <1>1, WithGlobal
  <2>2. Edit(t, Global, Lines, to)
    BY <1>2 DEF ResetGlobal
  <2> HIDE DEF to
  <2>3. WholeDoc(to)
    BY <2>1, WholeIs DEF WholeDoc
  <2>4. Agree(to, copy[t], t, {<<t, Global, l>> : l \in Lines})
    BY <2>1 DEF Agree, SameOwn
  <2>5. QED
    BY <2>2, <2>3, <2>4, EditLines
<1>3. CASE \E l \in Lines, v \in Values \cup {NoLine} : SetGlobal(t, l, v)
  <2>1. PICK l \in Lines, v \in Values \cup {NoLine} : SetGlobal(t, l, v)
    BY <1>3
  <2> DEFINE g == [copy[t].global EXCEPT ![l] = v]
             to == [copy[t] EXCEPT !.global = g]
  <2>2. DOMAIN g = Lines /\ \A k \in Lines : k # l => g[k] = copy[t].global[k]
    BY <1>1
  <2>3. Edit(t, Global, {l}, to)
    BY <2>1 DEF SetGlobal
  <2> HIDE DEF g
  <2>4. IsDoc(to) /\ to.global = g /\ to.gpus = copy[t].gpus
    BY <1>1, WithGlobal
  <2> HIDE DEF to
  <2>5. WholeDoc(to)
    BY <2>2, <2>4 DEF WholeDoc
  <2>6. Agree(to, copy[t], t, {<<t, Global, k>> : k \in {l}})
    BY <2>2, <2>4 DEF Agree, SameOwn
  <2>7. QED
    BY <2>3, <2>5, <2>6, EditLines
<1>4. QED
  BY <1>2, <1>3

\* An edit of one card: every line but those it is of is as it was.
LEMMA CardLines ==
    ASSUME LinesInv, NEW t \in Tabs, NEW c, NEW ls, NEW gpus,
           Edit(t, c, ls, [copy[t] EXCEPT !.gpus = gpus]),
           \A k \in Cards : k # c => OwnLines(gpus, k) = OwnLines(copy[t].gpus, k),
           \A l \in Lines \ ls :
              /\ l \in DOMAIN OwnLines(gpus, c) <=> l \in DOMAIN OwnLines(copy[t].gpus, c)
              /\ l \in DOMAIN OwnLines(gpus, c) => OwnLines(gpus, c)[l] = OwnLines(copy[t].gpus, c)[l]
    PROVE  LinesInv'
<1> DEFINE to == [copy[t] EXCEPT !.gpus = gpus]
<1>1. WholeDoc(copy[t])
  BY DEF LinesInv, LinesType
<1>2. IsDoc(to) /\ to.gpus = gpus /\ to.global = copy[t].global
  BY <1>1, WithGpus DEF WholeDoc
<1> HIDE DEF to
<1>3. WholeDoc(to)
  BY <1>1, <1>2 DEF WholeDoc
<1>4. Agree(to, copy[t], t, {<<t, c, l>> : l \in ls})
  <2>1. \A k \in Cards, l \in Lines : <<t, k, l>> \in {<<t, c, m>> : m \in ls} \/ SameOwn(to, copy[t], k, l)
    <3> SUFFICES ASSUME NEW k \in Cards, NEW l \in Lines, ~(k = c /\ l \in ls)
                 PROVE  SameOwn(to, copy[t], k, l)
      OBVIOUS
    <3>1. CASE k = c
      BY <1>2, <3>1 DEF SameOwn
    <3>2. CASE k # c
      BY <1>2, <3>2 DEF SameOwn
    <3>3. QED
      BY <3>1, <3>2
  <2>2. QED
    BY <1>2, <2>1 DEF Agree
<1>5. Edit(t, c, ls, to)
  BY DEF to
<1>6. QED
  BY <1>3, <1>4, <1>5, EditLines

LEMMA GpuLines ==
    ASSUME LinesInv, NEW t \in Tabs, NEW c \in Cards,
           \/ ClearGpu(t, c)
           \/ \E l \in Lines : InheritLine(t, c, l) \/ \E v \in Values : SetGpu(t, c, l, v)
    PROVE  LinesInv'
<1> DEFINE g == copy[t].gpus
<1>0. DOMAIN Nothing = {}
  BY DEF Nothing
<1>1. CASE ClearGpu(t, c)
  <2> DEFINE to == Less(g, c)
  <2>1. \A k \in Cards : k # c => OwnLines(to, k) = OwnLines(g, k)
    BY DEF OwnLines, Less
  <2>2. Edit(t, c, Lines, [copy[t] EXCEPT !.gpus = to])
    BY <1>1 DEF ClearGpu
  <2> HIDE DEF to
  <2>3. QED
    BY <2>1, <2>2, CardLines
<1>2. ASSUME NEW l \in Lines, InheritLine(t, c, l)
      PROVE  LinesInv'
  <2> DEFINE own == Less(OwnLines(g, c), l)
             to == IF DOMAIN own = {} THEN Less(g, c) ELSE With(g, c, own)
  <2>1. Edit(t, c, {l}, [copy[t] EXCEPT !.gpus = to])
    BY <1>2 DEF InheritLine
  <2>2. DOMAIN own = DOMAIN OwnLines(g, c) \ {l} /\ \A k \in DOMAIN own : own[k] = OwnLines(g, c)[k]
    BY DEF Less
  <2> HIDE DEF own
  <2>3. \A k \in Cards : k # c => OwnLines(to, k) = OwnLines(g, k)
    BY DEF OwnLines, Less, With
  <2>4. DOMAIN OwnLines(to, c) = DOMAIN own /\ \A k \in DOMAIN own : OwnLines(to, c)[k] = own[k]
    <3>1. CASE DOMAIN own = {}
      BY <1>0, <3>1 DEF OwnLines, Less
    <3>2. CASE DOMAIN own # {}
      <4>1. c \in DOMAIN to /\ to[c] = own
        BY <3>2 DEF With
      <4> HIDE DEF to
      <4>2. QED
        BY <4>1 DEF OwnLines
    <3>3. QED
      BY <3>1, <3>2
  <2> HIDE DEF to
  <2>5. QED
    BY <2>1, <2>2, <2>3, <2>4, CardLines
<1>3. ASSUME NEW l \in Lines, NEW v \in Values, SetGpu(t, c, l, v)
      PROVE  LinesInv'
  <2> DEFINE own == With(OwnLines(g, c), l, IF v = 0 THEN NoLine ELSE v)
             to == With(g, c, own)
  <2>1. Edit(t, c, {l}, [copy[t] EXCEPT !.gpus = to])
    BY <1>3 DEF SetGpu
  <2>2. /\ DOMAIN own = DOMAIN OwnLines(g, c) \cup {l}
        /\ \A k \in DOMAIN OwnLines(g, c) : k # l => own[k] = OwnLines(g, c)[k]
    BY DEF With
  <2> HIDE DEF own
  <2>3. \A k \in Cards : k # c => OwnLines(to, k) = OwnLines(g, k)
    BY DEF OwnLines, With
  <2>4. OwnLines(to, c) = own
    <3>1. c \in DOMAIN to /\ to[c] = own
      BY DEF With
    <3> HIDE DEF to
    <3>2. QED
      BY <3>1 DEF OwnLines
  <2> HIDE DEF to
  <2>5. QED
    BY <2>1, <2>2, <2>3, <2>4, CardLines
<1>4. QED
  BY <1>1, <1>2, <1>3

LEMMA TabLines ==
    ASSUME LinesInv, NEW t \in Tabs, Open(t) \/ LoadHandled(t) \/ LoadFails(t) \/ SaveCopy(t)
    PROVE  LinesInv'
<1>1. CASE Open(t)
  <2> DEFINE d == Doc(Whole(Default), NoCards)
  <2>1. WholeDoc(d)
    BY DocIs, WholeIs DEF WholeDoc
  <2>2. /\ copy' = [copy EXCEPT ![t] = d] /\ stale' = stale \cup {t} /\ UNCHANGED <<doc, puts, touched>>
        /\ loads' = {l \in loads : l[1] # t} \cup {<<t>>}
    BY <1>1 DEF Open
  <2> HIDE DEF d
  <2>3. QED
    BY <2>1, <2>2, StaleLines
<1>2. CASE LoadHandled(t)
  <2>1. /\ loads' = (loads \ {<<t>>}) \cup {<<t, doc>>} /\ UNCHANGED <<doc, copy, puts, stale, touched>>
    BY <1>2 DEF LoadHandled, tabsVars
  <2>2. LinesType'
    BY <2>1 DEF LinesInv, LinesType
  <2>3. QED
    BY <2>1, <2>2 DEF LinesInv, CopiesAgree, PutsAgree, LoadedCopy
<1>3. CASE LoadFails(t)
  <2> DEFINE d == [copy[t] EXCEPT !.global = BrowserThresholds(t)]
  <2>1. IsDoc(copy[t])
    BY DEF LinesInv, LinesType, WholeDoc
  <2>2. IsDoc(d) /\ d.global = BrowserThresholds(t)
    BY <2>1, WithGlobal
  <2>3. /\ copy' = [copy EXCEPT ![t] = d] /\ stale' = stale \cup {t} /\ UNCHANGED <<doc, puts, touched>>
        /\ loads' \subseteq loads
    BY <1>3 DEF LoadFails
  <2> HIDE DEF d
  <2>4. WholeDoc(d)
    BY <2>2, WholeIs DEF WholeDoc, BrowserThresholds
  <2>5. QED
    BY <2>3, <2>4, StaleLines
<1>4. CASE SaveCopy(t)
  <2> DEFINE p == [tab |-> t, doc |-> copy[t], blind |-> t \in stale]
  <2>1. puts' = puts \cup {p} /\ UNCHANGED <<doc, copy, loads, stale, touched>>
    BY <1>4 DEF SaveCopy
  <2>2. IsPut(p) /\ p.tab = t /\ p.doc = copy[t]
    BY DEF IsPut
  <2>3. p.blind = (t \in stale)
    OBVIOUS
  <2> HIDE DEF p
  <2>4. LinesType'
    BY <2>1, <2>2 DEF LinesInv, LinesType
  <2>5. PutsAgree'
    <3>1. ~p.blind => Agree(p.doc, LoadedCopy(t, doc), t, touched)
      BY <2>2, <2>3 DEF LinesInv, CopiesAgree
    <3>2. QED
      BY <2>1, <2>2, <3>1 DEF LinesInv, PutsAgree, LoadedCopy
  <2>6. QED
    BY <2>1, <2>4, <2>5 DEF LinesInv, CopiesAgree, LoadedCopy
<1>5. QED
  BY <1>1, <1>2, <1>3, <1>4

LEMMA LinesInit == ThresholdInit => LinesInv
<1> SUFFICES ASSUME ThresholdInit PROVE LinesInv
  OBVIOUS
<1>1. IsDoc(doc) /\ doc.global = Unset
  BY DocIs DEF ThresholdInit
<1>2. \A t \in Tabs : WholeDoc(copy[t])
  <2>1. WholeDoc(Doc(Whole(Default), NoCards))
    BY DocIs, WholeIs DEF WholeDoc
  <2>2. \A t \in Tabs : copy[t] = Doc(Whole(Default), NoCards)
    BY DEF ThresholdInit
  <2>3. QED
    BY <2>1, <2>2
<1>3. LinesType
  BY <1>1, <1>2 DEF ThresholdInit, LinesType
<1>4. QED
  BY <1>3 DEF ThresholdInit, LinesInv, CopiesAgree, PutsAgree

LEMMA LinesStep == LinesInv /\ [ThresholdNext]_thresholdVars => LinesInv'
<1> SUFFICES ASSUME LinesInv, [ThresholdNext]_thresholdVars PROVE LinesInv'
  OBVIOUS
<1>1. CASE UNCHANGED thresholdVars
  BY <1>1 DEF thresholdVars, tabsVars, LinesInv, LinesType, CopiesAgree, PutsAgree, LoadedCopy
<1>2. CASE ThresholdNext
  BY <1>2, PutLines, PutGone, LoadLines, GlobalLines, GpuLines, TabLines DEF ThresholdNext
<1>3. QED
  BY <1>1, <1>2

LEMMA PutMoves ==
    ASSUME LinesInv, NEW p \in puts, Put(p), doc.global # Unset, ~p.blind,
           NEW c \in Cards, NEW l \in Lines, Line(doc', c, l) # Line(doc, c, l)
    PROVE  \/ <<p.tab, c, l>> \in touched
           \/ <<p.tab, Global, l>> \in touched /\ (Inherits(doc, c, l) \/ Inherits(doc', c, l))
<1> DEFINE t == p.tab
<1>1. t \in Tabs /\ WholeDoc(p.doc) /\ doc' = Parsed(p.doc) /\ IsDoc(doc)
  BY DEF LinesInv, LinesType, Put
<1>2. Agree(p.doc, LoadedCopy(t, doc), t, touched)
  BY DEF LinesInv, PutsAgree
<1>3. IsDoc(doc') /\ DOMAIN doc'.global = Lines /\ Agree(LoadedCopy(t, doc'), p.doc, t, touched)
  BY <1>1, ParsedAgrees
<1>4. Agree(LoadedCopy(t, doc'), LoadedCopy(t, doc), t, touched)
  BY <1>2, <1>3, AgreeOn
<1>5. doc'.global # Unset
  BY <1>3 DEF Unset, Nothing
<1>6. /\ LoadedCopy(t, doc).global = doc.global /\ LoadedCopy(t, doc).gpus = doc.gpus
      /\ LoadedCopy(t, doc').global = doc'.global /\ LoadedCopy(t, doc').gpus = doc'.gpus
  BY <1>5, DocIs DEF LoadedCopy
<1>7. /\ <<t, c, l>> \in touched \/ SameOwn(doc', doc, c, l)
      /\ <<t, Global, l>> \in touched \/ doc'.global[l] = doc.global[l]
  BY <1>4, <1>6 DEF Agree, SameOwn
<1>8. SUFFICES ASSUME SameOwn(doc', doc, c, l)
               PROVE  <<t, Global, l>> \in touched /\ (Inherits(doc, c, l) \/ Inherits(doc', c, l))
  BY <1>7
<1>9. Inherits(doc', c, l) = Inherits(doc, c, l)
  BY <1>8 DEF Inherits, SameOwn
<1>10. CASE ~Inherits(doc, c, l)
  <2>1. l \in DOMAIN OwnLines(doc'.gpus, c) /\ l \in DOMAIN OwnLines(doc.gpus, c)
    BY <1>9, <1>10 DEF Inherits
  <2>2. c \in DOMAIN doc'.gpus /\ c \in DOMAIN doc.gpus
    BY <2>1 DEF OwnLines, Nothing
  <2>3. doc'.gpus[c][l] = doc.gpus[c][l]
    BY <1>8, <2>1, <2>2 DEF SameOwn, OwnLines
  <2>4. QED
    BY <1>9, <1>10, <2>3 DEF Line
<1>11. CASE Inherits(doc, c, l)
  BY <1>7, <1>9, <1>11 DEF Line
<1>12. QED
  BY <1>10, <1>11

\* Saving the copy of a tab moves only lines its user edited, for any tabs, cards
\* and lines: what the copy of a tab that is up to date says of any other line is
\* what the hub's document says (thresholdsStore.ts writes it whole, and
\* parseThresholds replaces the whole document).
THEOREM OtherLinesKeptHolds == ThresholdSpec => OtherLinesKept
<1>1. LinesInv /\ [ThresholdNext]_thresholdVars =>
        [\A p \in puts : Put(p) /\ doc.global # Unset /\ ~p.blind =>
           \A c \in Cards, l \in Lines :
              Line(doc', c, l) # Line(doc, c, l) =>
                 \/ <<p.tab, c, l>> \in touched
                 \/ <<p.tab, Global, l>> \in touched /\ (Inherits(doc, c, l) \/ Inherits(doc', c, l))]_thresholdVars
  BY PutMoves
<1>2. QED
  BY <1>1, LinesInit, LinesStep, PTL DEF ThresholdSpec, OtherLinesKept
=============================================================================
