-------------------------- MODULE HostIngest_proofs --------------------------
(***************************************************************************)
(* Proofs about HostIngest, for any number of hosts, sockets, ticks and    *)
(* frames: type correctness, the registry invariant and what rests on it   *)
(* (a disablement cuts every open session; the hub implements              *)
(* HostSessions), the stickiness of a disablement, and the watchdog's      *)
(* claim that a host it flips has been quiet.                              *)
(***************************************************************************)
EXTENDS HostIngest, TLAPS

(* Every step keeps every variable in its type.                             *)
LEMMA TypeStep == TypeOK /\ [Next]_vars => TypeOK'
<1> SUFFICES ASSUME TypeOK, [Next]_vars PROVE TypeOK'
  OBVIOUS
<1> USE IngestConstantsOK DEF IngestConstantsOK, TypeOK, Statuses, Long, NULL
<1>1. ASSUME NEW c \in Conns, NEW h \in Hosts, Connect(c, h) PROVE TypeOK'
  BY <1>1 DEF Connect, hostVars
<1>2. ASSUME NEW c \in Conns, NEW h \in Hosts, NEW s \in Statuses \cup {"absent", "deleted"},
             NEW to \in {"open", "gone"}, Admit(h, c, s, to)
      PROVE  /\ status' \in [Hosts -> Statuses \cup {"absent", "deleted"}]
             /\ lag' \in [Hosts -> -1..Long]
             /\ shown' \in [Hosts -> Statuses \cup {"none"}]
             /\ live' \in [Hosts -> Conns \cup {None}]
             /\ phase' \in [Conns -> {"gone", "checking", "dropped", "open", "closing"}]
  BY <1>2 DEF Admit, MarkSeen, Evict
<1>3. ASSUME NEW c \in Conns, NEW h \in Hosts, ConnectLocal(c, h) PROVE TypeOK'
  <2>1. Admit(h, c, IF Exists(h) THEN status[h] ELSE "online", "open")
    BY <1>3 DEF ConnectLocal
  <2>2. (IF Exists(h) THEN status[h] ELSE "online") \in Statuses \cup {"absent", "deleted"}
    OBVIOUS
  <2> QED BY <1>2, <1>3, <2>1, <2>2 DEF ConnectLocal
<1>4. ASSUME NEW c \in Conns, CheckDone(c) PROVE TypeOK'
  <2>1. CASE good[c]
    <3> DEFINE to == IF phase[c] = "checking" THEN "open" ELSE "gone"
    <3>1. Admit(claim[c], c, status[claim[c]], to)
      BY <1>4, <2>1 DEF CheckDone
    <3>2. claim[c] \in Hosts /\ status[claim[c]] \in Statuses \cup {"absent", "deleted"}
      OBVIOUS
    <3>3. to \in {"open", "gone"}
      OBVIOUS
    <3>4. /\ status' \in [Hosts -> Statuses \cup {"absent", "deleted"}]
          /\ lag' \in [Hosts -> -1..Long]
          /\ shown' \in [Hosts -> Statuses \cup {"none"}]
          /\ live' \in [Hosts -> Conns \cup {None}]
          /\ phase' \in [Conns -> {"gone", "checking", "dropped", "open", "closing"}]
      <4> HIDE DEF to, TypeOK, Statuses, Long, NULL
      <4> QED BY <1>2, <3>1, <3>2, <3>3
    <3>5. good' \in [Conns -> BOOLEAN] /\ UNCHANGED <<claim, age, window, quiet>>
      BY <1>4 DEF CheckDone
    <3> QED BY <3>4, <3>5
  <2>2. CASE ~good[c]
    BY <1>4, <2>2 DEF CheckDone, hostVars
  <2> QED BY <2>1, <2>2
<1>5. ASSUME NEW c \in Conns, DropWhileChecking(c) PROVE TypeOK'
  BY <1>5 DEF DropWhileChecking, hostVars
<1>6. ASSUME NEW c \in Conns, Frame(c) PROVE TypeOK'
  <2>1. PICK parses \in BOOLEAN, marks \in Marks(age[c]) :
          /\ quiet' = IF parses THEN [quiet EXCEPT ![claim[c]] = 0] ELSE quiet
          /\ IF parses /\ marks
               THEN /\ status' = [status EXCEPT ![claim[c]] = MarkSeen(@)]
                    /\ lag' = SeenAt(claim[c])
                    /\ age' = [age EXCEPT ![c] = 0]
               ELSE UNCHANGED <<status, lag, age>>
    BY <1>6 DEF Frame
  <2>2. status' \in [Hosts -> Statuses \cup {"absent", "deleted"}]
    BY <2>1 DEF MarkSeen
  <2>3. lag' \in [Hosts -> -1..Long]
    BY <2>1 DEF SeenAt
  <2>4. age' \in [Conns -> 0..2] /\ quiet' \in [Hosts -> 0..Long]
    BY <2>1
  <2>5. window' \in [Conns -> 0..RateLimit]
    <3>1. window' = [window EXCEPT ![c] = @ + 1] /\ window[c] # RateLimit
      BY <1>6 DEF Frame, OverLimit
    <3>2. window[c] \in 0..RateLimit /\ RateLimit \in Nat
      OBVIOUS
    <3>3. window[c] + 1 \in 0..RateLimit
      <4> HIDE IngestConstantsOK DEF IngestConstantsOK, TypeOK, Statuses, Long, NULL
      <4> QED BY <3>1, <3>2
    <3> QED BY <3>1, <3>3
  <2> QED BY <1>6, <2>2, <2>3, <2>4, <2>5 DEF Frame
<1>7. ASSUME NEW c \in Conns, RateLimited(c) PROVE TypeOK'
  BY <1>7 DEF RateLimited, hostVars
<1>8. ASSUME NEW c \in Conns, Closed(c) PROVE TypeOK'
  BY <1>8 DEF Closed, Unregistered, hostVars
<1>9. ASSUME NEW h \in Hosts, HostNext(h) PROVE TypeOK'
  BY <1>9 DEF HostNext, Enroll, Delete, Patch, Cut, sockVars
<1>10. ASSUME Watchdog PROVE TypeOK'
  BY <1>10 DEF Watchdog, sockVars
<1>11. ASSUME HubRestart PROVE TypeOK'
  BY <1>11 DEF HubRestart
<1>12. ASSUME Tick PROVE TypeOK'
  BY <1>12 DEF Tick
<1>13. ASSUME UNCHANGED vars PROVE TypeOK'
  BY <1>13 DEF vars, hostVars, sockVars
<1> QED
  BY <1>1, <1>3, <1>4, <1>5, <1>6, <1>7, <1>8, <1>9, <1>10, <1>11, <1>12, <1>13
  DEF Next, SocketNext

(* Type correctness: the rate-limit window never exceeds its bound and no   *)
(* handler leaves a value its column or map does not take.                  *)
THEOREM TypeCorrect == Spec => []TypeOK
<1>1. Init => TypeOK
  BY IngestConstantsOK DEF IngestConstantsOK, Init, TypeOK, Statuses, Long, NULL
<1> QED BY <1>1, TypeStep, PTL DEF Spec

------------------------------------------------------------------------------
(* The registry: an open socket is registered, and what is registered under *)
(* a host authenticates as it.  The second conjunct is what lets the close  *)
(* handler look in one slot only.                                           *)
RegistryInv ==
  /\ OpenIsRegistered
  /\ \A h \in Hosts : live[h] \in Conns => claim[live[h]] = h

(* Admitting c for h evicts the only other socket of h that may be open.    *)
LEMMA AdmitRegistry ==
  ASSUME TypeOK, RegistryInv, NEW c \in Conns, NEW h \in Hosts, NEW s, NEW to \in {"open", "gone"},
         \A g \in Hosts \ {h} : live[g] # c, phase[c] # "open",
         claim' = [claim EXCEPT ![c] = h], Admit(h, c, s, to)
  PROVE  RegistryInv'
<1>1. /\ phase' = [p \in Conns |-> IF p = c THEN to ELSE IF p \in Evict(h, c) THEN "closing" ELSE phase[p]]
      /\ live' = [live EXCEPT ![h] = c]
  BY DEF Admit
<1>2. ASSUME NEW p \in Conns, phase'[p] = "open" PROVE live'[claim'[p]] = p
  <2>1. CASE p = c
    BY <2>1, <1>1 DEF TypeOK
  <2>2. CASE p # c
    <3>1. phase[p] = "open" /\ p \notin Evict(h, c)
      BY <1>1, <1>2, <2>2
    <3>2. claim[p] \in Hosts /\ live[claim[p]] = p /\ claim'[p] = claim[p]
      BY <3>1, <2>2 DEF RegistryInv, OpenIsRegistered, TypeOK
    <3>3. claim[p] # h
      BY <3>1, <3>2, <2>2 DEF Evict
    <3> QED BY <3>2, <3>3, <1>1 DEF TypeOK
  <2> QED BY <2>1, <2>2
<1>3. ASSUME NEW g \in Hosts, live'[g] \in Conns PROVE claim'[live'[g]] = g
  <2>1. CASE g = h
    BY <2>1, <1>1 DEF TypeOK
  <2>2. CASE g # h
    BY <2>2, <1>1, <1>3 DEF RegistryInv, TypeOK
  <2> QED BY <2>1, <2>2
<1> QED BY <1>2, <1>3 DEF RegistryInv, OpenIsRegistered

LEMMA RegistryStep == TypeOK /\ RegistryInv /\ [Next]_vars => RegistryInv'
<1> SUFFICES ASSUME TypeOK, RegistryInv, [Next]_vars PROVE RegistryInv'
  OBVIOUS
<1>1. ASSUME NEW c \in Conns, NEW h \in Hosts, Connect(c, h) PROVE RegistryInv'
  BY <1>1 DEF Connect, Unused, RegistryInv, OpenIsRegistered, TypeOK
<1>2. ASSUME NEW c \in Conns, NEW h \in Hosts, ConnectLocal(c, h) PROVE RegistryInv'
  <2>1. PICK s : Admit(h, c, s, "open")
    BY <1>2 DEF ConnectLocal
  <2>2. /\ \A g \in Hosts : live[g] # c
        /\ phase[c] # "open"
        /\ claim' = [claim EXCEPT ![c] = h]
    BY <1>2 DEF ConnectLocal, Unused
  <2> QED BY <2>1, <2>2, AdmitRegistry
<1>3. ASSUME NEW c \in Conns, CheckDone(c) PROVE RegistryInv'
  <2>1. /\ phase[c] \in {"checking", "dropped"} /\ claim[c] \in Hosts
        /\ UNCHANGED claim /\ claim' = [claim EXCEPT ![c] = claim[c]]
    BY <1>3 DEF CheckDone, TypeOK
  <2>2. CASE good[c]
    <3> DEFINE to == IF phase[c] = "checking" THEN "open" ELSE "gone"
    <3>1. Admit(claim[c], c, status[claim[c]], to) /\ to \in {"open", "gone"}
      BY <1>3, <2>2 DEF CheckDone
    <3> HIDE DEF to
    <3>2. \A g \in Hosts \ {claim[c]} : live[g] # c
      BY DEF RegistryInv
    <3> QED BY <2>1, <3>1, <3>2, AdmitRegistry
  <2>3. CASE ~good[c]
    BY <1>3, <2>1, <2>3 DEF CheckDone, hostVars, RegistryInv, OpenIsRegistered, TypeOK
  <2> QED BY <2>2, <2>3
<1>4. ASSUME NEW c \in Conns, DropWhileChecking(c) PROVE RegistryInv'
  BY <1>4 DEF DropWhileChecking, RegistryInv, OpenIsRegistered, TypeOK
<1>5. ASSUME NEW c \in Conns, Frame(c) PROVE RegistryInv'
  BY <1>5 DEF Frame, RegistryInv, OpenIsRegistered
<1>6. ASSUME NEW c \in Conns, RateLimited(c) PROVE RegistryInv'
  BY <1>6 DEF RateLimited, RegistryInv, OpenIsRegistered, TypeOK
<1>7. ASSUME NEW c \in Conns, Closed(c) PROVE RegistryInv'
  <2>1. /\ phase' = [phase EXCEPT ![c] = "gone"]
        /\ live' = [live EXCEPT ![claim[c]] = IF @ = c THEN None ELSE @]
        /\ UNCHANGED claim
    BY <1>7 DEF Closed, Unregistered
  <2> QED BY <2>1, IngestConstantsOK DEF IngestConstantsOK, RegistryInv, OpenIsRegistered, TypeOK
<1>8. ASSUME NEW h \in Hosts, HostNext(h) PROVE RegistryInv'
  <2>1. UNCHANGED <<live, claim>> /\ \A c \in Conns : phase'[c] = "open" => phase[c] = "open"
    BY <1>8 DEF HostNext, Enroll, Delete, Patch, sockVars, TypeOK
  <2> QED BY <2>1 DEF RegistryInv, OpenIsRegistered
<1>9. ASSUME HubRestart PROVE RegistryInv'
  BY <1>9, IngestConstantsOK DEF IngestConstantsOK, HubRestart, RegistryInv, OpenIsRegistered
<1>10. ASSUME Watchdog \/ Tick \/ UNCHANGED vars PROVE RegistryInv'
  BY <1>10 DEF Watchdog, Tick, vars, sockVars, RegistryInv, OpenIsRegistered
<1> QED
  BY <1>1, <1>2, <1>3, <1>4, <1>5, <1>6, <1>7, <1>8, <1>9, <1>10 DEF Next, SocketNext

LEMMA RegistryInvariant == Spec => [](TypeOK /\ RegistryInv)
<1>1. Init => RegistryInv
  BY IngestConstantsOK DEF IngestConstantsOK, Init, RegistryInv, OpenIsRegistered
<1> QED BY <1>1, TypeCorrect, RegistryStep, PTL DEF Spec

(* At most one open session per host, and it is the registered one.         *)
THEOREM OpenIsRegisteredHolds == Spec => []OpenIsRegistered
<1>1. RegistryInv => OpenIsRegistered
  BY DEF RegistryInv
<1> QED BY <1>1, RegistryInvariant, PTL

------------------------------------------------------------------------------
(* Only an admin's PATCH, a handshake and a frame touch a row's status, and *)
(* only the first can make it "disabled".                                   *)
LEMMA AdmitStatus ==
  ASSUME TypeOK, NEW c, NEW h \in Hosts, NEW s, NEW to, Admit(h, c, s, to), NEW g \in Hosts
  PROVE  status'[g] = IF g = h THEN MarkSeen(s) ELSE status[g]
  BY DEF Admit, TypeOK

LEMMA OtherStatus ==
  ASSUME TypeOK, [Next]_vars, NEW g \in Hosts, status'[g] # status[g]
  PROVE  \/ status[g] # "disabled" /\ status'[g] # "disabled"
         \/ Delete(g)
         \/ \E s \in PatchStatuses : Patch(g, s)
<1>1. ASSUME NEW c \in Conns, NEW h \in Hosts, ConnectLocal(c, h)
      PROVE  status[g] # "disabled" /\ status'[g] # "disabled"
  <2>1. Admit(h, c, IF Exists(h) THEN status[h] ELSE "online", "open")
    BY <1>1 DEF ConnectLocal
  <2>2. status'[g] = IF g = h THEN MarkSeen(IF Exists(h) THEN status[h] ELSE "online") ELSE status[g]
    BY <2>1, AdmitStatus
  <2> QED BY <2>2 DEF MarkSeen, Exists, Statuses
<1>2. ASSUME NEW c \in Conns, CheckDone(c)
      PROVE  status[g] # "disabled" /\ status'[g] # "disabled"
  <2>1. good[c]
    BY <1>2 DEF CheckDone, hostVars
  <2>2. PICK to : Admit(claim[c], c, status[claim[c]], to)
    BY <1>2, <2>1 DEF CheckDone
  <2>3. status'[g] = IF g = claim[c] THEN MarkSeen(status[claim[c]]) ELSE status[g]
    BY <2>2, AdmitStatus DEF TypeOK
  <2> QED BY <2>3 DEF MarkSeen
<1>3. ASSUME NEW c \in Conns, Frame(c)
      PROVE  status[g] # "disabled" /\ status'[g] # "disabled"
  <2>1. \/ status' = [status EXCEPT ![claim[c]] = MarkSeen(@)]
        \/ status' = status
    BY <1>3 DEF Frame
  <2> QED BY <2>1 DEF MarkSeen, TypeOK
<1>4. ASSUME NEW h \in Hosts, HostNext(h)
      PROVE  \/ status[g] # "disabled" /\ status'[g] # "disabled"
             \/ Delete(g)
             \/ \E s \in PatchStatuses : Patch(g, s)
  <2>1. CASE Enroll(h)
    BY <2>1 DEF Enroll, TypeOK
  <2>2. CASE Delete(h)
    BY <2>2 DEF Delete, TypeOK
  <2>3. ASSUME NEW s \in PatchStatuses, Patch(h, s) PROVE g = h
    BY <2>3 DEF Patch, TypeOK
  <2> QED BY <1>4, <2>1, <2>2, <2>3 DEF HostNext
<1>5. ASSUME Watchdog PROVE status[g] # "disabled" /\ status'[g] # "disabled"
  BY <1>5 DEF Watchdog, Stale, TypeOK
<1> QED
  BY <1>1, <1>2, <1>3, <1>4, <1>5
  DEF Next, SocketNext, Connect, DropWhileChecking, RateLimited, Closed, HubRestart, Tick, vars, hostVars

(* A disablement is lifted by an admin only.                                *)
THEOREM DisabledIsStickyHolds == Spec => DisabledIsSticky
<1>1. TypeOK /\ [Next]_vars =>
        [\A h \in Hosts : status[h] = "disabled" /\ status'[h] # "disabled"
           => Delete(h) \/ \E s \in PatchStatuses : Patch(h, s)]_vars
  BY OtherStatus
<1> QED BY <1>1, TypeCorrect, PTL DEF Spec, DisabledIsSticky

(* A disablement leaves no open session behind: the registered socket is    *)
(* the only one that can be open, and disconnectAgent closes it.            *)
LEMMA PatchCuts ==
  ASSUME TypeOK, RegistryInv, NEW h \in Hosts, Patch(h, "disabled")
  PROVE  ~\E c \in Conns : phase'[c] = "open" /\ claim'[c] = h
<1> SUFFICES ASSUME NEW c \in Conns, phase'[c] = "open", claim'[c] = h PROVE FALSE
  OBVIOUS
<1>1. phase'[c] = (IF c \in Cut(h) THEN "closing" ELSE phase[c]) /\ claim'[c] = claim[c]
  BY DEF Patch
<1>2. phase[c] = "open" /\ c \notin Cut(h) /\ claim[c] = h
  BY <1>1
<1> QED BY <1>2 DEF Cut, RegistryInv, OpenIsRegistered

(* Disabling a host cuts its session in the same step.                      *)
THEOREM DisableCutsHolds == Spec => DisableCuts
<1>1. TypeOK /\ RegistryInv /\ [Next]_vars =>
        [\A h \in Hosts : status[h] # "disabled" /\ status'[h] = "disabled"
           => ~\E c \in Conns : phase'[c] = "open" /\ claim'[c] = h]_vars
  <2> SUFFICES ASSUME TypeOK, RegistryInv, [Next]_vars, NEW h \in Hosts,
                      status[h] # "disabled", status'[h] = "disabled"
               PROVE  ~\E c \in Conns : phase'[c] = "open" /\ claim'[c] = h
    OBVIOUS
  <2>1. Delete(h) \/ \E s \in PatchStatuses : Patch(h, s)
    BY OtherStatus
  <2>2. ~Delete(h)
    BY DEF Delete, TypeOK
  <2>3. Patch(h, "disabled")
    <3>1. PICK s \in PatchStatuses : Patch(h, s)
      BY <2>1, <2>2
    <3>2. status'[h] = s
      BY <3>1 DEF Patch, TypeOK
    <3> QED BY <3>1, <3>2
  <2> QED BY <2>3, PatchCuts
<1> QED BY <1>1, RegistryInvariant, PTL DEF Spec, DisableCuts

------------------------------------------------------------------------------
(* last_seen trails the frames by one tick at most, for the rows that exist *)
(* (a deleted row is no longer written, and its session may go on).         *)
QuietInv ==
  /\ \A h \in Hosts : status[h] = "absent" => lag[h] = NULL
  /\ \A h \in Hosts : Exists(h) => lag[h] <= quiet[h] + 1
  /\ \A c \in Conns : Attached(c) /\ Exists(claim[c]) => age[c] = 2 \/ lag[claim[c]] <= age[c]

(* Admitting a socket restarts the age and the lag together.                *)
LEMMA AdmitQuiet ==
  ASSUME TypeOK, QuietInv, NEW c \in Conns, NEW h \in Hosts, NEW s, NEW to, Admit(h, c, s, to),
         s = status[h] \/ s = "online", ~Attached(c),
         claim' = [claim EXCEPT ![c] = h], UNCHANGED <<quiet, age>>, age[c] \in 0..2
  PROVE  QuietInv'
<1>1. /\ status' = [status EXCEPT ![h] = MarkSeen(s)]
      /\ lag' = [lag EXCEPT ![h] = IF s \in Statuses THEN 0 ELSE @]
  BY DEF Admit
<1>2. \A p \in Conns : p # c /\ Attached(p)' => Attached(p) /\ claim'[p] = claim[p]
  BY DEF Admit, Attached, Evict, TypeOK
<1>3. s \in Statuses => lag'[h] = 0
  BY <1>1 DEF TypeOK
<1>4. status'[h] \in Statuses <=> s \in Statuses
  BY <1>1 DEF TypeOK, MarkSeen, Statuses
<1>5. status'[h] = "absent" => status[h] = "absent" /\ lag'[h] = lag[h]
  BY <1>1 DEF TypeOK, MarkSeen, Statuses
<1>6. \A g \in Hosts \ {h} : status'[g] = status[g] /\ lag'[g] = lag[g]
  BY <1>1 DEF TypeOK
<1>7. ASSUME NEW g \in Hosts
      PROVE  /\ status'[g] = "absent" => lag'[g] = NULL
             /\ status'[g] \in Statuses => lag'[g] <= quiet'[g] + 1
  <2>1. quiet'[g] = quiet[g] /\ quiet[g] \in Nat
    BY IngestConstantsOK DEF IngestConstantsOK, TypeOK, Long
  <2>2. CASE g = h
    BY <2>1, <2>2, <1>3, <1>4, <1>5 DEF QuietInv
  <2>3. CASE g # h
    BY <2>1, <2>3, <1>6 DEF QuietInv, Exists
  <2> QED BY <2>2, <2>3
<1>8. ASSUME NEW p \in Conns, Attached(p)', status'[claim'[p]] \in Statuses
      PROVE  age'[p] = 2 \/ lag'[claim'[p]] <= age'[p]
  <2>1. age'[p] = age[p] /\ age[p] \in 0..2 /\ claim'[p] \in Hosts
    BY DEF TypeOK
  <2>2. CASE claim'[p] = h
    BY <2>1, <2>2, <1>3, <1>4, <1>8
  <2>3. CASE claim'[p] # h
    <3>1. p # c
      BY <2>3 DEF TypeOK
    <3> QED BY <2>1, <2>3, <3>1, <1>2, <1>6, <1>8 DEF QuietInv, Exists
  <2> QED BY <2>2, <2>3
<1> QED BY <1>7, <1>8 DEF QuietInv, Exists

(* A step on rows only, which makes none and revives none, keeps it.        *)
LEMMA RowsOnly ==
  ASSUME TypeOK, QuietInv, lag' = lag, quiet' = quiet, age' = age, claim' = claim,
         \A p \in Conns : phase'[p] \in {"open", "closing"} => phase[p] \in {"open", "closing"},
         \A g \in Hosts : /\ status'[g] = "absent" => status[g] = "absent"
                          /\ status'[g] \in Statuses => status[g] \in Statuses \cup {"absent"}
  PROVE  QuietInv'
<1>1. \A g \in Hosts : status'[g] = "absent" => lag'[g] = NULL
  BY DEF QuietInv
<1>2. ASSUME NEW g \in Hosts, status'[g] \in Statuses PROVE lag[g] <= quiet[g] + 1
  <2>1. quiet[g] \in Nat
    BY IngestConstantsOK DEF IngestConstantsOK, TypeOK, Long
  <2>2. CASE Exists(g)
    BY <2>2 DEF QuietInv
  <2>3. CASE status[g] = "absent"
    BY <2>1, <2>3 DEF QuietInv, NULL
  <2> QED BY <1>2, <2>2, <2>3 DEF Exists
<1>3. ASSUME NEW p \in Conns, Attached(p)', status'[claim[p]] \in Statuses PROVE age[p] = 2 \/ lag[claim[p]] <= age[p]
  <2>1. Attached(p) /\ claim[p] \in Hosts /\ age[p] \in 0..2
    BY <1>3 DEF TypeOK, Attached
  <2>2. Exists(claim[p]) \/ status[claim[p]] = "absent"
    BY <2>1, <1>3 DEF Exists
  <2>3. CASE Exists(claim[p])
    BY <2>1, <2>3 DEF QuietInv
  <2>4. CASE status[claim[p]] = "absent"
    BY <2>1, <2>4 DEF QuietInv, NULL
  <2> QED BY <2>2, <2>3, <2>4
<1> QED BY <1>1, <1>2, <1>3 DEF QuietInv, Exists

LEMMA QuietStep == TypeOK /\ QuietInv /\ [Next]_vars => QuietInv'
<1> SUFFICES ASSUME TypeOK, QuietInv, [Next]_vars PROVE QuietInv'
  OBVIOUS
<1>1. ASSUME NEW c \in Conns, NEW h \in Hosts, Connect(c, h) PROVE QuietInv'
  BY <1>1 DEF Connect, hostVars, QuietInv, Exists, Attached, TypeOK
<1>2. ASSUME NEW c \in Conns, NEW h \in Hosts, ConnectLocal(c, h) PROVE QuietInv'
  <2> DEFINE s == IF Exists(h) THEN status[h] ELSE "online"
  <2>1. Admit(h, c, s, "open") /\ (s = status[h] \/ s = "online")
    BY <1>2 DEF ConnectLocal
  <2>2. /\ ~Attached(c) /\ claim' = [claim EXCEPT ![c] = h]
        /\ UNCHANGED <<quiet, age>> /\ age[c] \in 0..2
    BY <1>2 DEF ConnectLocal, Unused, Attached, TypeOK
  <2> HIDE DEF s
  <2> QED BY <2>1, <2>2, AdmitQuiet
<1>3. ASSUME NEW c \in Conns, CheckDone(c) PROVE QuietInv'
  <2>1. /\ ~Attached(c) /\ claim' = [claim EXCEPT ![c] = claim[c]] /\ UNCHANGED claim
        /\ UNCHANGED <<quiet, age>> /\ age[c] \in 0..2 /\ claim[c] \in Hosts
    BY <1>3 DEF CheckDone, Attached, TypeOK
  <2>2. CASE good[c]
    <3>1. PICK to : Admit(claim[c], c, status[claim[c]], to)
      BY <1>3, <2>2 DEF CheckDone
    <3> QED BY <2>1, <3>1, AdmitQuiet
  <2>3. CASE ~good[c]
    BY <1>3, <2>1, <2>3 DEF CheckDone, hostVars, QuietInv, Exists, Attached, TypeOK
  <2> QED BY <2>2, <2>3
<1>4. ASSUME NEW c \in Conns, Frame(c) PROVE QuietInv'
  <2> DEFINE h == claim[c]
  <2>1. PICK parses \in BOOLEAN, marks \in Marks(age[c]) :
          /\ quiet' = IF parses THEN [quiet EXCEPT ![h] = 0] ELSE quiet
          /\ IF parses /\ marks
               THEN /\ status' = [status EXCEPT ![h] = MarkSeen(@)]
                    /\ lag' = SeenAt(h)
                    /\ age' = [age EXCEPT ![c] = 0]
               ELSE UNCHANGED <<status, lag, age>>
    BY <1>4 DEF Frame
  <2>2. h \in Hosts /\ UNCHANGED <<phase, claim>> /\ Attached(c)
    BY <1>4 DEF Frame, TypeOK
  <2>3. quiet \in [Hosts -> Nat]
    BY IngestConstantsOK DEF IngestConstantsOK, TypeOK, Long
  <2> HIDE DEF h
  <2>4. CASE ~parses
    BY <2>1, <2>2, <2>4 DEF QuietInv, Exists, Attached
  <2>5. CASE parses /\ ~marks
    <3>1. age[c] \in {0, 1}
      BY <2>5, <2>1 DEF Marks, TypeOK
    <3>2. Exists(h) => lag[h] <= 1
      BY <3>1, <2>2 DEF QuietInv, h, TypeOK
    <3>3. quiet' = [quiet EXCEPT ![h] = 0] /\ UNCHANGED <<status, lag, age>>
      BY <2>1, <2>5
    <3> QED BY <3>2, <3>3, <2>2, <2>3 DEF QuietInv, Exists, Attached
  <2>6. CASE parses /\ marks
    <3>1. /\ status' = [status EXCEPT ![h] = MarkSeen(@)]
          /\ lag' = [lag EXCEPT ![h] = IF Exists(h) THEN 0 ELSE @]
          /\ age' = [age EXCEPT ![c] = 0]
          /\ quiet' = [quiet EXCEPT ![h] = 0]
      BY <2>1, <2>6 DEF SeenAt
    <3>2. ASSUME NEW g \in Hosts
          PROVE  /\ status'[g] \in Statuses <=> status[g] \in Statuses
                 /\ status'[g] = "absent" => status[g] = "absent"
                 /\ status[g] \in Statuses /\ g = h => lag'[g] = 0
                 /\ status[g] \notin Statuses \/ g # h => lag'[g] = lag[g]
                 /\ g # h => quiet'[g] = quiet[g]
                 /\ quiet'[g] \in Nat
      BY <3>1, <2>2, <2>3 DEF MarkSeen, Statuses, TypeOK, Exists
    <3>3. \A p \in Conns : claim[p] \in Hosts /\ age'[p] \in 0..2 /\ (p # c => age'[p] = age[p])
      BY <3>1 DEF TypeOK
    <3>4. ASSUME NEW p \in Conns, Attached(p), status'[claim[p]] \in Statuses
          PROVE  age'[p] = 2 \/ lag'[claim[p]] <= age'[p]
      <4>1. CASE claim[p] = h
        BY <4>1, <3>2, <3>3, <3>4
      <4>2. CASE claim[p] # h
        <5>1. p # c
          BY <4>2 DEF h
        <5> QED BY <4>2, <5>1, <3>2, <3>3, <3>4 DEF QuietInv, Exists
      <4> QED BY <4>1, <4>2
    <3>5. ASSUME NEW g \in Hosts
          PROVE  /\ status'[g] = "absent" => lag'[g] = NULL
                 /\ status'[g] \in Statuses => lag'[g] <= quiet'[g] + 1
      BY <3>2 DEF QuietInv, Exists, Statuses
    <3> QED BY <3>4, <3>5, <2>2 DEF QuietInv, Exists, Attached
  <2> QED BY <2>1, <2>4, <2>5, <2>6 DEF Marks
<1>5. ASSUME NEW c \in Conns, Closed(c) PROVE QuietInv'
  <2>1. \A p \in Conns : Attached(p)' => Attached(p) /\ age'[p] = age[p]
    BY <1>5 DEF Closed, Attached, TypeOK
  <2> QED BY <1>5, <2>1 DEF Closed, hostVars, QuietInv, Exists
<1>6. ASSUME NEW c \in Conns, DropWhileChecking(c) \/ RateLimited(c) PROVE QuietInv'
  <2>1. \A p \in Conns : Attached(p)' => Attached(p)
    BY <1>6 DEF DropWhileChecking, RateLimited, Attached, TypeOK
  <2>2. UNCHANGED <<status, lag, quiet, age, claim>>
    BY <1>6 DEF DropWhileChecking, RateLimited, hostVars
  <2> QED BY <2>1, <2>2 DEF QuietInv, Exists
<1>7. ASSUME NEW h \in Hosts, HostNext(h) PROVE QuietInv'
  <2>1. /\ lag' = lag /\ quiet' = quiet /\ age' = age /\ claim' = claim
        /\ \A p \in Conns : phase'[p] \in {"open", "closing"} => phase[p] \in {"open", "closing"}
        /\ \A g \in Hosts : /\ status'[g] = "absent" => status[g] = "absent"
                            /\ status'[g] \in Statuses => status[g] \in Statuses \cup {"absent"}
    <3>1. CASE Enroll(h)
      BY <3>1 DEF Enroll, Exists, sockVars, Attached, TypeOK
    <3>2. CASE Delete(h)
      BY <3>2 DEF Delete, Exists, sockVars, Attached, Statuses, TypeOK
    <3>3. ASSUME NEW s \in PatchStatuses, Patch(h, s)
          PROVE  /\ lag' = lag /\ quiet' = quiet /\ age' = age /\ claim' = claim
                 /\ \A p \in Conns : phase'[p] \in {"open", "closing"} => phase[p] \in {"open", "closing"}
                 /\ \A g \in Hosts : /\ status'[g] = "absent" => status[g] = "absent"
                                     /\ status'[g] \in Statuses => status[g] \in Statuses \cup {"absent"}
      <4>1. s \in Statuses /\ s # "absent"
        BY IngestConstantsOK DEF IngestConstantsOK, Statuses
      <4>2. lag' = lag /\ quiet' = quiet /\ age' = age /\ claim' = claim
        BY <3>3 DEF Patch
      <4>3. \A p \in Conns : phase'[p] \in {"open", "closing"} => phase[p] \in {"open", "closing"}
        BY <3>3 DEF Patch, Cut, Attached
      <4>4. Exists(h) /\ status' = [status EXCEPT ![h] = s]
        BY <3>3 DEF Patch
      <4>5. \A g \in Hosts : /\ status'[g] = "absent" => status[g] = "absent"
                             /\ status'[g] \in Statuses => status[g] \in Statuses \cup {"absent"}
        BY <4>1, <4>4 DEF Exists, TypeOK
      <4> QED BY <4>2, <4>3, <4>5
    <3> QED BY <1>7, <3>1, <3>2, <3>3 DEF HostNext
  <2> QED BY <2>1, RowsOnly
<1>8. ASSUME Watchdog PROVE QuietInv'
  <2>1. /\ lag' = lag /\ quiet' = quiet /\ age' = age /\ claim' = claim /\ phase' = phase
    BY <1>8 DEF Watchdog, sockVars
  <2>2. \A g \in Hosts : /\ status'[g] = "absent" => status[g] = "absent"
                         /\ status'[g] \in Statuses => status[g] \in Statuses \cup {"absent"}
    BY <1>8 DEF Watchdog, Stale, Exists, Statuses
  <2>3. \A p \in Conns : phase'[p] \in {"open", "closing"} => phase[p] \in {"open", "closing"}
    BY <2>1 DEF Attached
  <2> QED BY <2>1, <2>2, <2>3, RowsOnly
<1>9. ASSUME HubRestart PROVE QuietInv'
  BY <1>9 DEF HubRestart, QuietInv, Exists, Attached
<1>10. ASSUME Tick PROVE QuietInv'
  <2>1. UNCHANGED <<status, phase, claim>>
    BY <1>10 DEF Tick
  <2>2. ASSUME NEW g \in Hosts
        PROVE  /\ lag[g] = NULL => lag'[g] = NULL
               /\ lag[g] <= quiet[g] + 1 => lag'[g] <= quiet'[g] + 1
               /\ lag[g] \in Int /\ lag'[g] \in Int /\ lag'[g] <= lag[g] + 1
               /\ lag[g] < 0 => lag'[g] < 0
    <3>1. /\ OfflineAfter \in Nat /\ lag[g] \in -1..(OfflineAfter + 1)
          /\ quiet[g] \in 0..(OfflineAfter + 1)
      BY IngestConstantsOK DEF IngestConstantsOK, TypeOK, Long
    <3>2. /\ lag'[g] = IF lag[g] \in 0..OfflineAfter THEN lag[g] + 1 ELSE lag[g]
          /\ quiet'[g] = IF quiet[g] \in 0..OfflineAfter THEN quiet[g] + 1 ELSE quiet[g]
      BY <1>10 DEF Tick
    <3> QED BY <3>1, <3>2 DEF NULL
  <2>3. ASSUME NEW p \in Conns, Attached(p)', Exists(claim[p])
        PROVE  age'[p] = 2 \/ lag'[claim[p]] <= age'[p]
    <3>1. Attached(p) /\ claim[p] \in Hosts /\ age[p] \in 0..2
      BY <2>1, <2>3 DEF Attached, TypeOK
    <3>2. age'[p] = IF age[p] < 2 THEN age[p] + 1 ELSE age[p]
      BY <3>1, <1>10 DEF Tick
    <3>3. age[p] = 2 \/ lag[claim[p]] <= age[p]
      BY <3>1, <2>3 DEF QuietInv
    <3> QED BY <3>1, <3>2, <3>3, <2>2
  <2> QED BY <2>1, <2>2, <2>3 DEF QuietInv, Exists
<1>11. ASSUME UNCHANGED vars PROVE QuietInv'
  BY <1>11 DEF vars, hostVars, sockVars, QuietInv, Exists, Attached
<1> QED
  BY <1>1, <1>2, <1>3, <1>4, <1>5, <1>6, <1>7, <1>8, <1>9, <1>10, <1>11 DEF Next, SocketNext

(* The watchdog never flips a host it has taken a frame of within the       *)
(* threshold, whatever the throttle skipped.                                *)
THEOREM OfflineOnlyWhenQuietHolds == Spec => OfflineOnlyWhenQuiet
<1>1. Init => QuietInv
  BY IngestConstantsOK DEF IngestConstantsOK, Init, QuietInv, Exists, Attached, Statuses, NULL, Long
<1>2. TypeOK /\ QuietInv /\ [Next]_vars =>
        [\A h \in Hosts : Watchdog /\ status'[h] # status[h] => quiet[h] >= OfflineAfter]_vars
  <2> SUFFICES ASSUME TypeOK, QuietInv, Watchdog, NEW h \in Hosts, status'[h] # status[h]
               PROVE  quiet[h] >= OfflineAfter
    OBVIOUS
  <2>1. status[h] = "online" /\ lag[h] > OfflineAfter
    BY DEF Watchdog, Stale
  <2>2. /\ lag[h] <= quiet[h] + 1 /\ lag[h] \in Int /\ quiet[h] \in Nat
        /\ OfflineAfter \in Nat
    BY <2>1, IngestConstantsOK DEF IngestConstantsOK, QuietInv, Exists, Statuses, TypeOK, Long
  <2> QED BY <2>1, <2>2
<1> QED BY <1>1, <1>2, TypeCorrect, QuietStep, PTL DEF Spec, OfflineOnlyWhenQuiet

------------------------------------------------------------------------------
(* The open sessions of one host change.                                    *)
LEMMA SessionsChange ==
  ASSUME NEW h \in Hosts, NEW X,
         \A g \in Hosts \ {h} :
           {p \in Conns : phase'[p] = "open" /\ claim'[p] = g} = {p \in Conns : phase[p] = "open" /\ claim[p] = g},
         {p \in Conns : phase'[p] = "open" /\ claim'[p] = h} = X
  PROVE  OpenSessions' = [OpenSessions EXCEPT ![h] = X]
<1> DEFINE Was(g) == {p \in Conns : phase[p] = "open" /\ claim[p] = g}
           Is(g) == {p \in Conns : phase'[p] = "open" /\ claim'[p] = g}
<1>1. OpenSessions = [g \in Hosts |-> Was(g)] /\ OpenSessions' = [g \in Hosts |-> Is(g)]
  BY DEF OpenSessions
<1>2. Is(h) = X /\ \A g \in Hosts \ {h} : Is(g) = Was(g)
  OBVIOUS
<1> HIDE DEF Was, Is
<1> QED BY <1>1, <1>2

(* How each kind of step reads at the level of HostSessions.                *)
LEMMA AdmitPromise ==
  ASSUME TypeOK, RegistryInv, NEW c \in Conns, NEW h \in Hosts, NEW s, NEW to \in {"open", "gone"},
         Unused(c) \/ phase[c] \in {"checking", "dropped"},
         claim' = [claim EXCEPT ![c] = h], Admit(h, c, s, to),
         s = "disabled" <=> status[h] = "disabled"
  PROVE  Promise!Admit(h, c) \/ Promise!End(h)
<1>1. /\ phase' = [p \in Conns |-> IF p = c THEN to ELSE IF p \in Evict(h, c) THEN "closing" ELSE phase[p]]
      /\ status' = [status EXCEPT ![h] = MarkSeen(s)]
      /\ phase[c] # "open"
  BY DEF Admit, Unused
<1>2. Barred' = Barred
  BY <1>1 DEF Barred, MarkSeen, TypeOK
<1>3. \A g \in Hosts : c \notin OpenSessions[g]
  BY <1>1 DEF OpenSessions
<1>4. ASSUME NEW g \in Hosts \ {h}
      PROVE  {p \in Conns : phase'[p] = "open" /\ claim'[p] = g} = {p \in Conns : phase[p] = "open" /\ claim[p] = g}
  <2>1. ASSUME NEW p \in Conns PROVE phase'[p] = "open" /\ claim'[p] = g <=> phase[p] = "open" /\ claim[p] = g
    <3>1. CASE p = c
      BY <3>1, <1>1 DEF TypeOK
    <3>2. CASE p # c
      <4>1. claim'[p] = claim[p]
        BY <3>2
      <4>2. claim[p] = g /\ phase[p] = "open" => p \notin Evict(h, c)
        BY DEF Evict, RegistryInv
      <4> QED BY <3>2, <4>1, <4>2, <1>1
    <3> QED BY <3>1, <3>2
  <2> QED BY <2>1
<1>5. {p \in Conns : phase'[p] = "open" /\ claim'[p] = h} = IF to = "open" THEN {c} ELSE {}
  <2>1. ASSUME NEW p \in Conns, p # c PROVE ~(phase'[p] = "open" /\ claim'[p] = h)
    <3>1. claim'[p] = claim[p] /\ (phase'[p] = "open" => phase[p] = "open" /\ p \notin Evict(h, c))
      BY <2>1, <1>1
    <3>2. claim[p] = h /\ phase[p] = "open" => p \in Evict(h, c)
      BY <2>1 DEF Evict, RegistryInv, OpenIsRegistered
    <3> QED BY <3>1, <3>2
  <2>2. phase'[c] = to /\ claim'[c] = h
    BY <1>1 DEF TypeOK
  <2> QED BY <2>1, <2>2
<1>6. OpenSessions' = [OpenSessions EXCEPT ![h] = IF to = "open" THEN {c} ELSE {}]
  BY <1>4, <1>5, SessionsChange
<1> QED BY <1>2, <1>3, <1>6 DEF Promise!Admit, Promise!End

(* A socket leaves the open ones: its host's session ends, or it had none.  *)
LEMMA LeavePromise ==
  ASSUME TypeOK, RegistryInv, NEW c \in Conns, NEW to \in {"gone", "closing", "dropped"},
         phase' = [phase EXCEPT ![c] = to], claim' = claim, status' = status
  PROVE  Promise!End(claim[c]) \/ UNCHANGED <<Barred, OpenSessions>>
<1>1. Barred' = Barred /\ claim[c] \in Hosts
  BY DEF Barred, TypeOK
<1>2. CASE phase[c] = "open"
  <2>1. \A p \in Conns : phase'[p] = "open" <=> phase[p] = "open" /\ p # c
    BY DEF TypeOK
  <2>2. ASSUME NEW g \in Hosts \ {claim[c]}
        PROVE  {p \in Conns : phase'[p] = "open" /\ claim'[p] = g} = {p \in Conns : phase[p] = "open" /\ claim[p] = g}
    BY <2>1
  <2>3. \A p \in Conns : ~(phase'[p] = "open" /\ claim'[p] = claim[c])
    BY <2>1, <1>2 DEF RegistryInv, OpenIsRegistered
  <2>4. {p \in Conns : phase'[p] = "open" /\ claim'[p] = claim[c]} = {}
    BY <2>3
  <2>5. OpenSessions' = [OpenSessions EXCEPT ![claim[c]] = {}]
    BY <1>1, <2>2, <2>4, SessionsChange
  <2> QED BY <1>1, <2>5 DEF Promise!End
<1>3. CASE phase[c] # "open"
  <2>1. \A p \in Conns : phase'[p] = "open" <=> phase[p] = "open"
    BY <1>3 DEF TypeOK
  <2> QED BY <1>1, <2>1 DEF OpenSessions
<1> QED BY <1>2, <1>3

(* A step on the row of h alone, which does not bar it.                     *)
LEMMA RowPromise ==
  ASSUME TypeOK, NEW h \in Hosts, NEW s, s # "disabled", status' = [status EXCEPT ![h] = s],
         \A c \in Conns : phase'[c] = "open" <=> phase[c] = "open", claim' = claim
  PROVE  Promise!Unbar(h)
<1>1. Barred' = [Barred EXCEPT ![h] = FALSE]
  BY DEF Barred, TypeOK
<1>2. OpenSessions' = OpenSessions
  BY DEF OpenSessions
<1> QED BY <1>1, <1>2 DEF Promise!Unbar

(* An admin disables h.                                                     *)
LEMMA BarPromise ==
  ASSUME TypeOK, RegistryInv, NEW h \in Hosts, Patch(h, "disabled")
  PROVE  Promise!Bar(h)
<1>1. status' = [status EXCEPT ![h] = "disabled"] /\ claim' = claim
  BY DEF Patch
<1>2. Barred' = [Barred EXCEPT ![h] = TRUE]
  BY <1>1 DEF Barred, TypeOK
<1>3. ~\E c \in Conns : phase'[c] = "open" /\ claim'[c] = h
  BY PatchCuts
<1>4. ASSUME NEW g \in Hosts \ {h}, NEW c \in Conns, claim[c] = g PROVE phase'[c] = phase[c]
  BY <1>4 DEF Patch, Cut, RegistryInv
<1>5. OpenSessions' = [OpenSessions EXCEPT ![h] = {}]
  <2>1. {c \in Conns : phase'[c] = "open" /\ claim'[c] = h} = {}
    BY <1>3
  <2>2. ASSUME NEW g \in Hosts \ {h}
        PROVE  {c \in Conns : phase'[c] = "open" /\ claim'[c] = g} = {c \in Conns : phase[c] = "open" /\ claim[c] = g}
    BY <1>1, <1>4
  <2> QED BY <2>1, <2>2, SessionsChange
<1> QED BY <1>2, <1>5 DEF Promise!Bar

LEMMA PromiseStep ==
  TypeOK /\ RegistryInv /\ [Next]_vars => [Promise!Next]_<<Barred, OpenSessions>>
<1> SUFFICES ASSUME TypeOK, RegistryInv, [Next]_vars
             PROVE  Promise!Next \/ UNCHANGED <<Barred, OpenSessions>>
  OBVIOUS
<1> USE DEF Promise!Next
<1>1. ASSUME NEW c \in Conns, NEW h \in Hosts, Connect(c, h) PROVE UNCHANGED <<Barred, OpenSessions>>
  <2>1. \A p \in Conns : phase'[p] = "open" <=> phase[p] = "open"
    BY <1>1 DEF Connect, Unused, TypeOK
  <2>2. \A p \in Conns : phase[p] = "open" => claim'[p] = claim[p]
    BY <1>1 DEF Connect, Unused, TypeOK
  <2>3. status' = status
    BY <1>1 DEF Connect, hostVars
  <2> QED BY <2>1, <2>2, <2>3 DEF Barred, OpenSessions
<1>2. ASSUME NEW c \in Conns, NEW h \in Hosts, ConnectLocal(c, h) PROVE Promise!Next
  <2> DEFINE s == IF Exists(h) THEN status[h] ELSE "online"
  <2>1. Admit(h, c, s, "open") /\ (s = "disabled" <=> status[h] = "disabled")
    BY <1>2 DEF ConnectLocal, Exists, Statuses
  <2>2. Unused(c) /\ claim' = [claim EXCEPT ![c] = h]
    BY <1>2 DEF ConnectLocal
  <2> HIDE DEF s
  <2> QED BY <2>1, <2>2, AdmitPromise
<1>3. ASSUME NEW c \in Conns, CheckDone(c) PROVE Promise!Next \/ UNCHANGED <<Barred, OpenSessions>>
  <2>1. /\ phase[c] \in {"checking", "dropped"} /\ claim[c] \in Hosts
        /\ claim' = [claim EXCEPT ![c] = claim[c]] /\ claim' = claim
    BY <1>3 DEF CheckDone, TypeOK
  <2>2. CASE good[c]
    <3> DEFINE to == IF phase[c] = "checking" THEN "open" ELSE "gone"
    <3>1. Admit(claim[c], c, status[claim[c]], to) /\ to \in {"open", "gone"}
      BY <1>3, <2>2 DEF CheckDone
    <3> HIDE DEF to
    <3> QED BY <2>1, <3>1, AdmitPromise
  <2>3. CASE ~good[c]
    <3>1. phase' = [phase EXCEPT ![c] = "gone"] /\ status' = status
      BY <1>3, <2>3 DEF CheckDone, hostVars
    <3> QED BY <2>1, <3>1, LeavePromise
  <2> QED BY <2>2, <2>3
<1>4. ASSUME NEW c \in Conns, NEW to \in {"gone", "closing", "dropped"},
             phase' = [phase EXCEPT ![c] = to], claim' = claim, status' = status
      PROVE  Promise!Next \/ UNCHANGED <<Barred, OpenSessions>>
  <2>1. claim[c] \in Hosts
    BY DEF TypeOK
  <2> QED BY <1>4, <2>1, LeavePromise
<1>5. ASSUME NEW c \in Conns, DropWhileChecking(c) \/ RateLimited(c) \/ Closed(c)
      PROVE  Promise!Next \/ UNCHANGED <<Barred, OpenSessions>>
  BY <1>4, <1>5 DEF DropWhileChecking, RateLimited, Closed, hostVars
<1>6. ASSUME NEW c \in Conns, Frame(c) PROVE Promise!Next \/ UNCHANGED <<Barred, OpenSessions>>
  <2>1. /\ phase' = phase /\ claim' = claim
        /\ status' = [status EXCEPT ![claim[c]] = MarkSeen(@)] \/ status' = status
    BY <1>6 DEF Frame
  <2> QED BY <2>1 DEF MarkSeen, Barred, OpenSessions, TypeOK
<1>7. ASSUME NEW h \in Hosts, HostNext(h) PROVE Promise!Next
  <2>1. CASE Enroll(h)
    BY <2>1, RowPromise DEF Enroll, sockVars
  <2>2. CASE Delete(h)
    BY <2>2, RowPromise DEF Delete, sockVars
  <2>3. ASSUME NEW s \in PatchStatuses, Patch(h, s) PROVE Promise!Next
    <3>1. CASE s = "disabled"
      BY <2>3, <3>1, BarPromise
    <3>2. CASE s # "disabled"
      <4>1. /\ status' = [status EXCEPT ![h] = s] /\ claim' = claim
            /\ \A c \in Conns : phase'[c] = phase[c]
        BY <2>3, <3>2 DEF Patch
      <4> QED BY <3>2, <4>1, RowPromise
    <3> QED BY <3>1, <3>2
  <2> QED BY <1>7, <2>1, <2>2, <2>3 DEF HostNext
<1>8. ASSUME Watchdog PROVE UNCHANGED <<Barred, OpenSessions>>
  BY <1>8 DEF Watchdog, Stale, sockVars, Barred, OpenSessions
<1>9. ASSUME HubRestart PROVE Promise!Next
  <2>1. Barred' = Barred
    BY <1>9 DEF HubRestart, Barred
  <2>2. OpenSessions' = [h \in Hosts |-> {}]
    BY <1>9 DEF HubRestart, OpenSessions
  <2> QED BY <2>1, <2>2 DEF Promise!Restart
<1>10. ASSUME Tick \/ UNCHANGED vars PROVE UNCHANGED <<Barred, OpenSessions>>
  BY <1>10 DEF Tick, vars, hostVars, sockVars, Barred, OpenSessions
<1> QED
  BY <1>1, <1>2, <1>3, <1>5, <1>6, <1>7, <1>8, <1>9, <1>10 DEF Next, SocketNext

(* The hub implements one session per host, none the moment it is barred.   *)
THEOREM Implements == Spec => OneSessionUnlessBarred
<1>1. Init => Promise!Init
  BY DEF Init, Promise!Init, Barred, OpenSessions
<1> QED
  BY <1>1, RegistryInvariant, PromiseStep, PTL
  DEF Spec, OneSessionUnlessBarred, Promise!Spec, Promise!vars

(* Only an admin lifts a disablement, only silence takes a host offline.    *)
THEOREM StatusHasReasonsHolds == Spec => StatusHasReasons
BY DisabledIsStickyHolds, OfflineOnlyWhenQuietHolds DEF StatusHasReasons

(* The refinement and the registry, as the run checks them.                 *)
THEOREM OneRegisteredSessionHolds == Spec => OneRegisteredSession
BY Implements, OpenIsRegisteredHolds, PTL DEF OneRegisteredSession

==============================================================================
