---------------------------- MODULE Agent_proofs -----------------------------
(***************************************************************************)
(* Proofs about the agent: about AgentTransport, for every set of hubs,    *)
(* ring size, chunk size, give-up limit and number of frames; about        *)
(* AgentRuntime with its sources and collectors, for any machines,         *)
(* environments, cards, processes and faults; and about ReplayPacing, for  *)
(* every chunk, limit, delay and set of collectors that leave the window   *)
(* room.                                                                   *)
(*                                                                         *)
(* What carries the second is AgentInv: a child runs only for a source at  *)
(* work and a respawn is pending only while there is none (ChildInv); what *)
(* is kept of a pid is about the process that runs there, until the scan   *)
(* or list made after its end (ScanInv, CountInv); the boot joins a collector of   *)
(* processes to a source of the same cards (JoinInv), and between two      *)
(* lists a collector keeps only pids and cards of the machine (KeptInv).   *)
(***************************************************************************)
EXTENDS ReplayPacing, AgentRuntime, FiniteSetTheorems, SequenceTheorems, TLAPS

(* A push keeps the ring within its bound. *)
LEMMA PushType ==
  ASSUME NEW buf \in Seq(Nat \ {0}), Len(buf) <= BufferMax, NEW f \in Nat \ {0}
  PROVE  Push(buf, f) \in Seq(Nat \ {0}) /\ Len(Push(buf, f)) <= BufferMax
  BY ConstantsOK, AppendProperties, HeadTailProperties DEF ConstantsOK, Push

(* The chunk taken off the buffer and what stays are sequences of frames. *)
LEMMA ChunkType ==
  ASSUME NEW h \in Hubs, buffer[h] \in Seq(Nat \ {0}), Len(buffer[h]) <= BufferMax
  PROVE  /\ ChunkSize(h) \in 0..Len(buffer[h])
         /\ ChunkSize(h) <= ReplayChunk
         /\ buffer[h] # <<>> => ChunkSize(h) > 0
         /\ SubSeq(buffer[h], 1, ChunkSize(h)) \in Seq(Nat \ {0})
         /\ Kept(h, ChunkSize(h)) \in Seq(Nat \ {0})
         /\ Len(SubSeq(buffer[h], 1, ChunkSize(h))) = ChunkSize(h)
         /\ Len(Kept(h, ChunkSize(h))) = Len(buffer[h]) - ChunkSize(h)
         /\ \A i \in 1..ChunkSize(h) : SubSeq(buffer[h], 1, ChunkSize(h))[i] = buffer[h][i]
         /\ \A i \in 1..(Len(buffer[h]) - ChunkSize(h)) :
              Kept(h, ChunkSize(h))[i] = buffer[h][i + ChunkSize(h)]
<1> DEFINE b == buffer[h]
           n == ChunkSize(h)
<1>1. /\ n \in 0..Len(b)
      /\ n <= ReplayChunk
      /\ b # <<>> => n > 0
  BY ConstantsOK, EmptySeq DEF ConstantsOK, ChunkSize, Smaller
<1>2. Len(b) \in Nat /\ \A i \in 1..Len(b) : b[i] \in Nat \ {0}
  BY LenProperties, ElementOfSeq
<1> HIDE DEF b, n
<1>3. /\ SubSeq(b, 1, n) \in Seq(Nat \ {0})
      /\ Len(SubSeq(b, 1, n)) = n
      /\ \A i \in 1..n : SubSeq(b, 1, n)[i] = b[i]
  <2>1. \A i \in 1..n : b[i] \in Nat \ {0}
    BY <1>1, <1>2
  <2> QED BY <2>1, <1>1, <1>2, SubSeqProperties
<1>4. /\ SubSeq(b, n + 1, Len(b)) \in Seq(Nat \ {0})
      /\ Len(SubSeq(b, n + 1, Len(b))) = Len(b) - n
      /\ \A i \in 1..(Len(b) - n) : SubSeq(b, n + 1, Len(b))[i] = b[i + n]
  <2>1. \A i \in (n + 1)..Len(b) : b[i] \in Nat \ {0}
    BY <1>1, <1>2
  <2> QED BY <2>1, <1>1, <1>2, SubSeqProperties
<1> QED BY <1>1, <1>3, <1>4 DEF b, n, Kept

(* drainChunk keeps the types. *)
LEMMA DrainChunkType ==
  ASSUME TypeOK, NEW h \in Hubs, NEW others \in Nat, NEW was \in BOOLEAN, NEW heard \in BOOLEAN,
         DrainChunk(h, others, was, heard)
  PROVE  /\ drains' \in [Hubs -> Nat]
         /\ replayTimer' \in [Hubs -> BOOLEAN]
         /\ replaying' \in [Hubs -> BOOLEAN]
         /\ buffer' \in [Hubs -> Seq(Nat \ {0})]
         /\ \A g \in Hubs : Len(buffer'[g]) <= BufferMax
         /\ sent' \in [Hubs -> SUBSET Nat]
         /\ wire' \in [Hubs -> Seq(Nat)]
<1> DEFINE chunk == SubSeq(buffer[h], 1, ChunkSize(h))
<1>1. /\ ChunkSize(h) \in 0..Len(buffer[h])
      /\ chunk \in Seq(Nat \ {0})
      /\ Kept(h, ChunkSize(h)) \in Seq(Nat \ {0})
      /\ Len(Kept(h, ChunkSize(h))) = Len(buffer[h]) - ChunkSize(h)
  BY ChunkType DEF TypeOK
<1>2. Frames(chunk) \subseteq Nat
  BY <1>1 DEF Frames
<1>3. chunk \in Seq(Nat)
  BY <1>1, SeqMonotonic
<1>4. buffer' = [buffer EXCEPT ![h] = Kept(h, ChunkSize(h))]
  BY DEF DrainChunk
<1>5. sent' = [sent EXCEPT ![h] = @ \cup Frames(chunk)]
  BY DEF DrainChunk
<1>6. wire' = IF heard THEN [wire EXCEPT ![h] = @ \o chunk] ELSE wire
  BY DEF DrainChunk
<1>7. wire' \in [Hubs -> Seq(Nat)]
  <2>1. wire[h] \o chunk \in Seq(Nat)
    BY <1>3, ConcatProperties DEF TypeOK
  <2> QED BY <2>1, <1>6 DEF TypeOK
<1>8. sent' \in [Hubs -> SUBSET Nat]
  <2>1. sent[h] \cup Frames(chunk) \in SUBSET Nat
    BY <1>2 DEF TypeOK
  <2> HIDE DEF chunk
  <2> QED BY <2>1, <1>5 DEF TypeOK
<1>9. buffer' \in [Hubs -> Seq(Nat \ {0})] /\ \A g \in Hubs : Len(buffer'[g]) <= BufferMax
  <2> DEFINE k == Kept(h, ChunkSize(h))
  <2>1. k \in Seq(Nat \ {0}) /\ Len(k) <= BufferMax
    BY <1>1, ConstantsOK DEF ConstantsOK, TypeOK
  <2>2. buffer' = [buffer EXCEPT ![h] = k]
    BY <1>4
  <2> HIDE DEF k
  <2>3. buffer \in [Hubs -> Seq(Nat \ {0})] /\ \A g \in Hubs : Len(buffer[g]) <= BufferMax
    BY DEF TypeOK
  <2> QED BY <2>1, <2>2, <2>3
<1>10. /\ drains' \in [Hubs -> Nat]
       /\ replayTimer' \in [Hubs -> BOOLEAN]
       /\ replaying' \in [Hubs -> BOOLEAN]
  BY DEF DrainChunk, DrainOutcome, TypeOK
<1> QED BY <1>7, <1>8, <1>9, <1>10

LEMMA InitType == Init => TypeOK
<1> SUFFICES ASSUME Init PROVE TypeOK
  OBVIOUS
<1>1. buffer \in [Hubs -> Seq(Nat \ {0})] /\ \A h \in Hubs : Len(buffer[h]) <= BufferMax
  BY ConstantsOK, EmptySeq DEF ConstantsOK, Init
<1>2. wire \in [Hubs -> Seq(Nat)] /\ sent \in [Hubs -> SUBSET Nat]
  BY EmptySeq DEF Init
<1>3. reconnectDelay \in [Hubs -> Nat \ {0}]
  BY ConstantsOK DEF ConstantsOK, Init
<1>4. nextFrame \in Nat \ {0} /\ born \in 1..nextFrame
  BY DEF Init
<1>5. drains \in [Hubs -> Nat] /\ authFailures \in [Hubs -> Nat]
  BY DEF Init
<1> QED BY <1>1, <1>2, <1>3, <1>4, <1>5 DEF Init, TypeOK, SocketStates

LEMMA BroadcastType == TypeOK /\ Broadcast => TypeOK'
<1> SUFFICES ASSUME TypeOK, Broadcast PROVE TypeOK'
  OBVIOUS
<1> USE DEF TypeOK
<1>1. buffer' \in [Hubs -> Seq(Nat \ {0})] /\ \A h \in Hubs : Len(buffer'[h]) <= BufferMax
  BY PushType DEF Broadcast
<1>2. wire' \in [Hubs -> Seq(Nat)]
  <2>1. \A h \in Hubs : Append(wire[h], nextFrame) \in Seq(Nat)
    BY AppendProperties
  <2> QED BY <2>1 DEF Broadcast
<1>3. sent' \in [Hubs -> SUBSET Nat]
  <2>1. \A h \in Hubs : sent[h] \cup {nextFrame} \in SUBSET Nat
    OBVIOUS
  <2> QED BY <2>1 DEF Broadcast
<1>4. nextFrame' \in Nat \ {0} /\ born' \in 1..nextFrame'
  BY DEF Broadcast
<1> QED BY <1>1, <1>2, <1>3, <1>4 DEF Broadcast, conf, replay

LEMMA DrainFiresType == ASSUME NEW h \in Hubs PROVE TypeOK /\ DrainFires(h) => TypeOK'
<1> SUFFICES ASSUME TypeOK, DrainFires(h) PROVE TypeOK'
  OBVIOUS
<1>1. CASE IsOpen(h)
  <2>1. DrainChunk(h, drains[h] - 1, replaying[h], welcomed[h])
    BY <1>1 DEF DrainFires
  <2>2. drains[h] - 1 \in Nat /\ replaying[h] \in BOOLEAN /\ welcomed[h] \in BOOLEAN
    BY DEF TypeOK, DrainFires
  <2>3. UNCHANGED <<stopped, ws, conf, authFailures, nextFrame, born, welcomed>>
    BY DEF DrainFires
  <2>4. /\ drains' \in [Hubs -> Nat]
        /\ replayTimer' \in [Hubs -> BOOLEAN]
        /\ replaying' \in [Hubs -> BOOLEAN]
        /\ buffer' \in [Hubs -> Seq(Nat \ {0})]
        /\ \A g \in Hubs : Len(buffer'[g]) <= BufferMax
        /\ sent' \in [Hubs -> SUBSET Nat]
        /\ wire' \in [Hubs -> Seq(Nat)]
    BY <2>1, <2>2, DrainChunkType
  <2> QED BY <2>3, <2>4 DEF TypeOK, conf
<1>2. CASE ~IsOpen(h)
  <2>1. /\ drains[h] > 0
        /\ drains'      = [drains EXCEPT ![h] = @ - 1]
        /\ replayTimer' = [replayTimer EXCEPT ![h] = FALSE]
        /\ replaying'   = [replaying EXCEPT ![h] = FALSE]
        /\ UNCHANGED <<buffer, sent, wire, stopped, ws, conf, authFailures, nextFrame, born, welcomed>>
    BY <1>2 DEF DrainFires
  <2>2. drains' \in [Hubs -> Nat]
    BY <2>1 DEF TypeOK
  <2> QED BY <2>1, <2>2 DEF TypeOK, conf
<1> QED BY <1>1, <1>2

LEMMA WelcomeType == ASSUME NEW h \in Hubs PROVE TypeOK /\ Welcome(h) => TypeOK'
<1> SUFFICES ASSUME TypeOK, Welcome(h) PROVE TypeOK'
  OBVIOUS
<1>1. /\ authFailures' \in [Hubs -> Nat] /\ welcomed' \in [Hubs -> BOOLEAN]
      /\ UNCHANGED <<stopped, ws, conf, nextFrame, born>>
  BY DEF TypeOK, Welcome, FailuresOnWelcome
<1>2. CASE replaying[h]
  BY <1>1, <1>2 DEF TypeOK, Welcome, conf, replay
<1>3. CASE ~replaying[h]
  <2>1. DrainChunk(h, drains[h], TRUE, TRUE)
    BY <1>3 DEF Welcome
  <2>2. drains[h] \in Nat
    BY DEF TypeOK
  <2> QED BY <2>1, <2>2, <1>1, DrainChunkType DEF TypeOK, conf
<1> QED BY <1>2, <1>3

LEMMA ScheduleReconnectType ==
  ASSUME NEW h \in Hubs, TypeOK,
         ScheduleReconnect(h) \/ UNCHANGED <<reconnectTimer, reconnectDelay>>
  PROVE  reconnectTimer' \in [Hubs -> BOOLEAN] /\ reconnectDelay' \in [Hubs -> Nat \ {0}]
<1>1. \A d \in Nat \ {0} : Smaller(2 * d, ReconnectMax) \in Nat \ {0}
  BY ConstantsOK DEF ConstantsOK, Smaller
<1>2. reconnectTimer \in [Hubs -> BOOLEAN] /\ reconnectDelay \in [Hubs -> Nat \ {0}]
  BY DEF TypeOK
<1> QED BY <1>1, <1>2 DEF ScheduleReconnect

LEMMA ClosedType ==
  ASSUME NEW h \in Hubs, NEW code \in CloseCodes PROVE TypeOK /\ Closed(h, code) => TypeOK'
<1> SUFFICES ASSUME TypeOK, Closed(h, code) PROVE TypeOK'
  OBVIOUS
<1>1. reconnectTimer' \in [Hubs -> BOOLEAN] /\ reconnectDelay' \in [Hubs -> Nat \ {0}]
  BY ScheduleReconnectType DEF Closed
<1>2. authFailures' \in [Hubs -> Nat]
  <2>1. FailuresAfter(h, code) \in Nat
    BY DEF TypeOK, FailuresAfter, CloseCodes
  <2> QED BY <2>1 DEF TypeOK, Closed
<1>3. wire' \in [Hubs -> Seq(Nat)]
  BY EmptySeq DEF TypeOK, Closed
<1> QED BY <1>1, <1>2, <1>3 DEF TypeOK, Closed, SocketStates

(* The tracked timeout is one of the pending ones: what stop relies on when  *)
(* it clears conn.replayTimer.                                               *)
TrackedPending == \A h \in Hubs : replayTimer[h] => drains[h] > 0

TypeInv == TypeOK /\ TrackedPending

LEMMA StopType == TypeInv /\ Stop => TypeOK'
  BY EmptySeq DEF TypeInv, TypeOK, TrackedPending, Stop, SocketStates

LEMMA RestartType == TypeOK /\ Restart => TypeOK'
<1> SUFFICES ASSUME TypeOK, Restart PROVE TypeOK'
  OBVIOUS
<1>1. buffer' \in [Hubs -> Seq(Nat \ {0})] /\ \A h \in Hubs : Len(buffer'[h]) <= BufferMax
  BY ConstantsOK, EmptySeq DEF ConstantsOK, Restart
<1>2. wire' \in [Hubs -> Seq(Nat)] /\ sent' \in [Hubs -> SUBSET Nat]
  BY EmptySeq DEF TypeOK, Restart
<1>3. reconnectDelay' \in [Hubs -> Nat \ {0}]
  BY ConstantsOK DEF ConstantsOK, Restart
<1>4. nextFrame' \in Nat \ {0} /\ born' \in 1..nextFrame'
  BY DEF TypeOK, Restart
<1> QED BY <1>1, <1>2, <1>3, <1>4 DEF Restart, TypeOK, SocketStates

(* The remaining steps move timers and the socket state. *)
LEMMA OtherType ==
  ASSUME NEW h \in Hubs
  PROVE  TypeOK /\ (Open(h) \/ StableFires(h) \/ CloseBegins(h) \/ ReconnectFires(h)) => TypeOK'
<1>1. TypeOK /\ Open(h) => TypeOK'
  BY DEF TypeOK, Open, SocketStates, replay, history
<1>2. TypeOK /\ StableFires(h) => TypeOK'
  BY ConstantsOK DEF ConstantsOK, TypeOK, StableFires, replay, history
<1>3. TypeOK /\ CloseBegins(h) => TypeOK'
  BY DEF TypeOK, CloseBegins, SocketStates, conf, replay, history
<1>4. TypeOK /\ ReconnectFires(h) => TypeOK'
  BY DEF TypeOK, ReconnectFires, SocketStates, replay, history
<1> QED BY <1>1, <1>2, <1>3, <1>4

LEMMA TrackedPendingStep == TypeInv /\ [Next]_vars => TrackedPending'
<1> SUFFICES ASSUME TypeInv, [Next]_vars PROVE TrackedPending'
  OBVIOUS
<1> USE DEF TypeInv, TypeOK, TrackedPending
<1>1. CASE Broadcast
  BY <1>1 DEF Broadcast, replay
<1>2. ASSUME NEW h \in Hubs, Open(h) \/ StableFires(h) \/ CloseBegins(h) \/ ReconnectFires(h)
      PROVE  TrackedPending'
  BY <1>2 DEF Open, StableFires, CloseBegins, ReconnectFires, replay
<1>3. ASSUME NEW h \in Hubs, DrainFires(h) PROVE TrackedPending'
  <2>1. \E more \in BOOLEAN :
          /\ drains'      = [drains EXCEPT ![h] = IF more THEN drains[h] ELSE drains[h] - 1]
          /\ replayTimer' = [replayTimer EXCEPT ![h] = more]
    <3>1. CASE IsOpen(h)
      <4> DEFINE more == ChunkSize(h) < Len(buffer[h])
      <4>1. drains[h] - 1 + 1 = drains[h]
        OBVIOUS
      <4>2. /\ drains'      = [drains EXCEPT ![h] = IF more THEN drains[h] - 1 + 1 ELSE drains[h] - 1]
            /\ replayTimer' = [replayTimer EXCEPT ![h] = more]
        BY <1>3, <3>1 DEF DrainFires, DrainChunk, DrainOutcome
      <4>3. more \in BOOLEAN
        OBVIOUS
      <4> HIDE DEF more
      <4> QED BY <4>1, <4>2, <4>3
    <3>2. CASE ~IsOpen(h)
      BY <1>3, <3>2 DEF DrainFires
    <3> QED BY <3>1, <3>2
  <2>2. drains[h] > 0
    BY <1>3 DEF DrainFires
  <2> QED BY <2>1, <2>2
<1>4. ASSUME NEW h \in Hubs, Welcome(h) PROVE TrackedPending'
  <2>1. CASE replaying[h]
    BY <1>4, <2>1 DEF Welcome, replay
  <2>2. CASE ~replaying[h]
    <3>1. \E more \in BOOLEAN :
            /\ drains'      = [drains EXCEPT ![h] = IF more THEN drains[h] + 1 ELSE drains[h]]
            /\ replayTimer' = [replayTimer EXCEPT ![h] = more]
      <4> DEFINE more == ChunkSize(h) < Len(buffer[h])
      <4>1. /\ drains'      = [drains EXCEPT ![h] = IF more THEN drains[h] + 1 ELSE drains[h]]
            /\ replayTimer' = [replayTimer EXCEPT ![h] = more]
        BY <1>4, <2>2 DEF Welcome, DrainChunk, DrainOutcome
      <4>2. more \in BOOLEAN
        OBVIOUS
      <4> HIDE DEF more
      <4> QED BY <4>1, <4>2
    <3> QED BY <3>1
  <2> QED BY <2>1, <2>2
<1>5. ASSUME NEW h \in Hubs, NEW code \in CloseCodes, Closed(h, code) PROVE TrackedPending'
  BY <1>5 DEF Closed
<1>6. CASE Stop \/ Restart
  BY <1>6 DEF Stop, Restart
<1>7. CASE UNCHANGED vars
  BY <1>7 DEF vars, replay
<1> QED BY <1>1, <1>2, <1>3, <1>4, <1>5, <1>6, <1>7 DEF Next

LEMMA TypeStep == TypeInv /\ [Next]_vars => TypeOK'
<1> SUFFICES ASSUME TypeInv, [Next]_vars PROVE TypeOK'
  OBVIOUS
<1>1. CASE UNCHANGED vars
  BY <1>1 DEF TypeInv, TypeOK, vars, conf, replay, history
<1>2. CASE Next
  BY <1>2, BroadcastType, DrainFiresType, WelcomeType, ClosedType, StopType, RestartType, OtherType
  DEF TypeInv, Next
<1> QED BY <1>1, <1>2

(* Every variable keeps its type and no ring exceeds BUFFER_MAX. *)
THEOREM TypeCorrect == Spec => [](TypeOK /\ TrackedPending)
<1>1. Init => TypeInv
  BY InitType DEF Init, TypeInv, TrackedPending
<1>2. TypeInv /\ [Next]_vars => TypeInv'
  BY TypeStep, TrackedPendingStep DEF TypeInv
<1>3. TypeInv => TypeOK /\ TrackedPending
  BY DEF TypeInv
<1> QED BY <1>1, <1>2, <1>3, PTL DEF Spec

-----------------------------------------------------------------------------

(***************************************************************************)
(* The control of one connection.  OneWayForward is not inductive by       *)
(* itself: a stopped agent must hold no socket and no timer, a given-up    *)
(* hub no socket.  NoSilentBacklog needs that only a welcome starts a      *)
(* replay, that every session's end resets it, and that a replay in        *)
(* progress has a timeout pending.                                         *)
(***************************************************************************)
ConnOK(h) ==
  /\ reconnectTimer[h] => ws[h] = "null" /\ ~stopped /\ ~GaveUp(h)
  /\ ~stopped /\ ws[h] = "null" => reconnectTimer[h] \/ GaveUp(h)
  /\ stopped \/ GaveUp(h) => ws[h] = "null"
  /\ welcomed[h] => ws[h] \in {"open", "closing"} /\ authFailures[h] = 0
  /\ replaying[h] => welcomed[h] /\ drains[h] > 0
  /\ ws[h] = "open" /\ welcomed[h] /\ buffer[h] # <<>> => replaying[h]

ConnInv == \A h \in Hubs : ConnOK(h)

(* What drainChunk leaves of its own connection's replay, and that it does *)
(* not touch the others.                                                   *)
LEMMA DrainChunkControl ==
  ASSUME TypeOK, NEW h \in Hubs, NEW others \in Nat, NEW was \in BOOLEAN, NEW heard \in BOOLEAN,
         DrainChunk(h, others, was, heard)
  PROVE  /\ replaying'[h] => was /\ drains'[h] > 0
         /\ was /\ buffer'[h] # <<>> => replaying'[h]
         /\ \A g \in Hubs \ {h} : /\ replaying'[g] = replaying[g]
                                  /\ drains'[g] = drains[g]
                                  /\ buffer'[g] = buffer[g]
<1> DEFINE n == ChunkSize(h)
           more == n < Len(buffer[h])
<1>1. /\ n \in 0..Len(buffer[h])
      /\ Kept(h, n) \in Seq(Nat \ {0})
      /\ Len(Kept(h, n)) = Len(buffer[h]) - n
      /\ Len(buffer[h]) \in Nat
  BY ChunkType, LenProperties DEF TypeOK
<1>2. /\ buffer' = [buffer EXCEPT ![h] = Kept(h, n)]
      /\ drains' = [drains EXCEPT ![h] = IF more THEN others + 1 ELSE others]
      /\ replaying' = [replaying EXCEPT ![h] = was /\ more]
  BY DEF DrainChunk, DrainOutcome
<1>3. Kept(h, n) # <<>> => more
  BY <1>1, EmptySeq
<1>4. /\ drains'[h] = IF more THEN others + 1 ELSE others
      /\ replaying'[h] = (was /\ more)
      /\ buffer'[h] = Kept(h, n)
  BY <1>2 DEF TypeOK
<1>5. \A g \in Hubs \ {h} : /\ replaying'[g] = replaying[g]
                            /\ drains'[g] = drains[g]
                            /\ buffer'[g] = buffer[g]
  BY <1>2 DEF TypeOK
<1>6. more \in BOOLEAN
  OBVIOUS
<1> HIDE DEF n, more
<1>7. replaying'[h] => was /\ drains'[h] > 0
  BY <1>4, <1>6
<1>8. was /\ buffer'[h] # <<>> => replaying'[h]
  BY <1>3, <1>4
<1> QED BY <1>5, <1>7, <1>8

LEMMA ConnBroadcast == TypeOK /\ ConnInv /\ Broadcast => ConnInv'
<1> SUFFICES ASSUME TypeOK, ConnInv, Broadcast, NEW h \in Hubs PROVE ConnOK(h)'
  BY DEF ConnInv
<1>1. UNCHANGED <<stopped, ws, reconnectTimer, drains, replaying, authFailures, welcomed>>
  BY DEF Broadcast, conf, replay
<1>2. SendsInline(h) => buffer'[h] = buffer[h]
  BY DEF Broadcast
<1> QED BY <1>1, <1>2 DEF ConnInv, ConnOK, SendsInline, IsOpen, GaveUp

LEMMA ConnDrainFires ==
  ASSUME NEW h \in Hubs PROVE TypeOK /\ ConnInv /\ DrainFires(h) => ConnInv'
<1> SUFFICES ASSUME TypeOK, ConnInv, DrainFires(h), NEW g \in Hubs PROVE ConnOK(g)'
  BY DEF ConnInv
<1>1. UNCHANGED <<stopped, ws, reconnectTimer, authFailures, welcomed>>
  BY DEF DrainFires, conf
<1>2. ConnOK(g) /\ ConnOK(h)
  BY DEF ConnInv
<1>3. CASE IsOpen(h)
  <2>1. DrainChunk(h, drains[h] - 1, replaying[h], welcomed[h])
    BY <1>3 DEF DrainFires
  <2>2. drains[h] - 1 \in Nat /\ replaying[h] \in BOOLEAN /\ welcomed[h] \in BOOLEAN
    BY DEF DrainFires, TypeOK
  <2>3. /\ replaying'[h] => replaying[h] /\ drains'[h] > 0
        /\ replaying[h] /\ buffer'[h] # <<>> => replaying'[h]
        /\ g # h => /\ replaying'[g] = replaying[g]
                    /\ drains'[g] = drains[g]
                    /\ buffer'[g] = buffer[g]
    BY <2>1, <2>2, DrainChunkControl
  <2>4. buffer[h] = <<>> => buffer'[h] = <<>>
    <3>1. buffer'[h] = Kept(h, ChunkSize(h))
      BY <2>1 DEF DrainChunk, TypeOK
    <3>2. Len(buffer[h]) = 0 => Len(Kept(h, ChunkSize(h))) = 0
      BY ChunkType DEF TypeOK
    <3>3. Kept(h, ChunkSize(h)) \in Seq(Nat \ {0})
      BY ChunkType DEF TypeOK
    <3> QED BY <3>1, <3>2, <3>3, EmptySeq
  <2> QED BY <1>1, <1>2, <2>3, <2>4 DEF ConnOK, GaveUp
<1>4. CASE ~IsOpen(h)
  <2>1. /\ drains'    = [drains EXCEPT ![h] = @ - 1]
        /\ replaying' = [replaying EXCEPT ![h] = FALSE]
        /\ UNCHANGED buffer
    BY <1>4 DEF DrainFires
  <2> QED BY <1>1, <1>2, <1>4, <2>1 DEF ConnOK, GaveUp, IsOpen, TypeOK
<1> QED BY <1>3, <1>4

LEMMA ConnWelcome ==
  ASSUME NEW h \in Hubs PROVE TypeOK /\ ConnInv /\ Welcome(h) => ConnInv'
<1> SUFFICES ASSUME TypeOK, ConnInv, Welcome(h), NEW g \in Hubs PROVE ConnOK(g)'
  BY DEF ConnInv
<1>1. /\ UNCHANGED <<stopped, ws, reconnectTimer>>
      /\ authFailures' = [authFailures EXCEPT ![h] = 0]
      /\ welcomed' = [welcomed EXCEPT ![h] = TRUE]
      /\ ws[h] = "open" /\ ~welcomed[h]
  BY DEF Welcome, FailuresOnWelcome, conf, IsOpen
<1>2. ConnOK(g) /\ ConnOK(h)
  BY DEF ConnInv
<1>3. ~replaying[h]
  BY <1>1, <1>2 DEF ConnOK
<1>4. DrainChunk(h, drains[h], TRUE, TRUE)
  BY <1>3 DEF Welcome
<1>5. drains[h] \in Nat
  BY DEF TypeOK
<1>6. /\ replaying'[h] => drains'[h] > 0
      /\ buffer'[h] # <<>> => replaying'[h]
      /\ g # h => /\ replaying'[g] = replaying[g]
                  /\ drains'[g] = drains[g]
                  /\ buffer'[g] = buffer[g]
  BY <1>4, <1>5, DrainChunkControl
<1>7. 0 < AuthFailureLimit
  BY ConstantsOK DEF ConstantsOK
<1>8. authFailures'[h] = 0 /\ welcomed'[h] /\ (g # h => authFailures'[g] = authFailures[g] /\ welcomed'[g] = welcomed[g])
  BY <1>1 DEF TypeOK
<1>9. ~GaveUp(h)'
  BY <1>7, <1>8, ConstantsOK DEF GaveUp, ConstantsOK
<1>10. CASE g = h
  BY <1>1, <1>2, <1>6, <1>8, <1>9, <1>10 DEF ConnOK
<1>11. CASE g # h
  BY <1>1, <1>2, <1>6, <1>8, <1>11 DEF ConnOK, GaveUp
<1> QED BY <1>10, <1>11

LEMMA ConnClosed ==
  ASSUME NEW h \in Hubs, NEW code \in CloseCodes
  PROVE  TypeOK /\ ConnInv /\ Closed(h, code) => ConnInv' /\ (welcomed[h] => ~GaveUp(h)')
<1> SUFFICES ASSUME TypeOK, ConnInv, Closed(h, code)
             PROVE  ConnInv' /\ (welcomed[h] => ~GaveUp(h)')
  OBVIOUS
<1>1. /\ UNCHANGED <<stopped, drains, buffer>>
      /\ ws[h] # "null"
      /\ ws'        = [ws EXCEPT ![h] = "null"]
      /\ replaying' = [replaying EXCEPT ![h] = FALSE]
      /\ welcomed'  = [welcomed EXCEPT ![h] = FALSE]
      /\ authFailures' = [authFailures EXCEPT ![h] = FailuresAfter(h, code)]
  BY DEF Closed
<1>2. ConnOK(h) /\ ~stopped /\ ~GaveUp(h) /\ ~reconnectTimer[h]
  BY <1>1 DEF ConnInv, ConnOK
<1>3. authFailures'[h] = FailuresAfter(h, code)
  BY <1>1 DEF TypeOK
<1>4. /\ Retries(h, code) <=> ~GaveUp(h)'
      /\ welcomed[h] => ~GaveUp(h)'
  <2> DEFINE n == authFailures[h]
  <2>1. /\ n \in Nat /\ AuthFailureLimit \in Nat /\ AuthFailureLimit >= 2
        /\ ~(n >= AuthFailureLimit)
        /\ welcomed[h] => n = 0
    BY <1>2, ConstantsOK DEF ConstantsOK, GaveUp, ConnOK, TypeOK
  <2>2. /\ GaveUp(h)' <=> FailuresAfter(h, code) >= AuthFailureLimit
        /\ Retries(h, code) <=>
             ~(code \in {4001, 1008} /\ FailuresAfter(h, code) >= AuthFailureLimit)
    BY <1>3 DEF GaveUp, Retries
  <2>3. /\ code \in {4001, 1008} => FailuresAfter(h, code) = n + 1
        /\ code \notin {4001, 1008} => FailuresAfter(h, code) \in {0, n}
    BY DEF FailuresAfter, CloseCodes
  <2> HIDE DEF n
  <2>4. CASE code \in {4001, 1008}
    BY <2>1, <2>2, <2>3, <2>4
  <2>5. CASE code \notin {4001, 1008}
    BY <2>1, <2>2, <2>3, <2>5
  <2> QED BY <2>4, <2>5
<1>5. /\ reconnectTimer'[h] <=> Retries(h, code)
      /\ \A g \in Hubs \ {h} : reconnectTimer'[g] = reconnectTimer[g]
  <2>1. CASE Retries(h, code)
    <3>1. reconnectTimer' = [reconnectTimer EXCEPT ![h] = TRUE]
      BY <1>2, <2>1 DEF Closed, ScheduleReconnect
    <3> QED BY <2>1, <3>1 DEF TypeOK
  <2>2. CASE ~Retries(h, code)
    BY <1>2, <2>2 DEF Closed, TypeOK
  <2> QED BY <2>1, <2>2
<1>6. ConnOK(h)'
  BY <1>1, <1>2, <1>4, <1>5 DEF ConnOK, TypeOK
<1>7. ASSUME NEW g \in Hubs \ {h} PROVE ConnOK(g)'
  BY <1>1, <1>5 DEF ConnInv, ConnOK, TypeOK, GaveUp
<1> QED BY <1>4, <1>6, <1>7 DEF ConnInv

LEMMA ConnTimers ==
  ASSUME NEW h \in Hubs
  PROVE  TypeOK /\ ConnInv /\ (Open(h) \/ StableFires(h) \/ CloseBegins(h) \/ ReconnectFires(h))
           => ConnInv'
<1> SUFFICES ASSUME TypeOK, ConnInv, NEW g \in Hubs,
                    Open(h) \/ StableFires(h) \/ CloseBegins(h) \/ ReconnectFires(h)
             PROVE  ConnOK(g)'
  BY DEF ConnInv
<1>1. ConnOK(g) /\ ConnOK(h)
  BY DEF ConnInv
<1>2. CASE Open(h)
  BY <1>1, <1>2 DEF Open, ConnOK, TypeOK, GaveUp, replay, history
<1>3. CASE StableFires(h)
  BY <1>1, <1>3 DEF StableFires, ConnOK, TypeOK, GaveUp, replay, history
<1>4. CASE CloseBegins(h)
  BY <1>1, <1>4 DEF CloseBegins, ConnOK, TypeOK, GaveUp, IsOpen, conf, replay, history
<1>5. CASE ReconnectFires(h)
  BY <1>1, <1>5 DEF ReconnectFires, ConnOK, TypeOK, GaveUp, replay, history
<1> QED BY <1>2, <1>3, <1>4, <1>5

LEMMA ConnStop == TypeOK /\ ConnInv /\ Stop => ConnInv'
  BY DEF Stop, ConnInv, ConnOK, TypeOK, GaveUp

LEMMA ConnRestart == TypeOK /\ Restart => ConnInv'
  BY ConstantsOK DEF ConstantsOK, Restart, ConnInv, ConnOK, GaveUp

LEMMA ConnStep == TypeOK /\ ConnInv /\ [Next]_vars => ConnInv'
<1> SUFFICES ASSUME TypeOK, ConnInv, [Next]_vars PROVE ConnInv'
  OBVIOUS
<1>1. CASE UNCHANGED vars
  BY <1>1 DEF ConnInv, ConnOK, GaveUp, vars, conf, replay, history
<1>2. CASE Next
  BY <1>2, ConnBroadcast, ConnDrainFires, ConnWelcome, ConnClosed, ConnTimers, ConnStop, ConnRestart
  DEF Next
<1> QED BY <1>1, <1>2

LEMMA ConnInit == Init => ConnInv
  BY ConstantsOK DEF ConstantsOK, Init, ConnInv, ConnOK, GaveUp

LEMMA ConnInvariant == Spec => [](TypeOK /\ ConnInv)
<1>1. TypeOK /\ ConnInv /\ TypeInv /\ [Next]_vars => (TypeOK /\ ConnInv)'
  BY TypeStep, ConnStep
<1>2. Spec => []TypeInv
  BY TypeCorrect DEF TypeInv
<1>3. Init => TypeOK /\ ConnInv
  BY ConnInit, InitType
<1> QED BY <1>1, <1>2, <1>3, PTL DEF Spec

(* While the agent runs, each hub has a socket, a pending reconnect or was   *)
(* given up, and never two of these (connect, close, scheduleReconnect).     *)
THEOREM OneWayForwardHolds == Spec => []OneWayForward
<1>1. ConnInv => OneWayForward
  BY DEF ConnInv, ConnOK, OneWayForward
<1> QED BY <1>1, ConnInvariant, PTL

(* A welcomed session with a backlog has a replay in progress that continues *)
(* (flushBuffer, drainChunk, close).                                         *)
THEOREM NoSilentBacklogHolds == Spec => []NoSilentBacklog
<1>1. ConnInv => NoSilentBacklog
  BY DEF ConnInv, ConnOK, NoSilentBacklog, IsOpen
<1> QED BY <1>1, ConnInvariant, PTL

(* The close of a session the hub had welcomed never ends in a give-up.      *)
THEOREM WelcomedNeverGivesUpHolds == Spec => WelcomedNeverGivesUp
<1>1. ASSUME TypeOK, ConnInv, [Next]_vars, NEW h \in Hubs, welcomed[h]
      PROVE  ~GaveUp(h)'
  <2>1. ~GaveUp(h)
    BY <1>1, ConstantsOK DEF ConnInv, ConnOK, GaveUp, ConstantsOK
  <2>2. CASE authFailures' = authFailures
    BY <2>1, <2>2 DEF GaveUp
  <2>3. ASSUME NEW g \in Hubs, Welcome(g) PROVE ~GaveUp(h)'
    BY <1>1, <2>1, <2>3, ConstantsOK DEF Welcome, FailuresOnWelcome, GaveUp, ConstantsOK, TypeOK
  <2>4. ASSUME NEW g \in Hubs, NEW code \in CloseCodes, Closed(g, code) PROVE ~GaveUp(h)'
    <3>1. CASE g = h
      BY <1>1, <2>4, <3>1, ConnClosed
    <3>2. CASE g # h
      BY <1>1, <2>1, <2>4, <3>2 DEF Closed, GaveUp, TypeOK
    <3> QED BY <3>1, <3>2
  <2>5. CASE Restart
    BY <2>5, ConstantsOK DEF Restart, GaveUp, ConstantsOK
  <2> QED BY <1>1, <2>2, <2>3, <2>4, <2>5
      DEF Next, Broadcast, Open, StableFires, DrainFires, CloseBegins, ReconnectFires, Stop, vars
<1>2. TypeOK /\ ConnInv /\ [Next]_vars => [\A h \in Hubs : welcomed[h] => ~GaveUp(h)']_vars
  BY <1>1
<1> QED BY <1>2, ConnInvariant, PTL DEF Spec, WelcomedNeverGivesUp

-----------------------------------------------------------------------------

(***************************************************************************)
(* The frames of one connection.  "Increasing" is too weak to count what   *)
(* an overflow drops: the invariant keeps buffered frames at least as far  *)
(* apart as their positions, so that the head of a full ring is BufferMax  *)
(* older than the frame that pushes it out.                                *)
(***************************************************************************)
Spaced(seq) == \A i, j \in 1..Len(seq) : i <= j => seq[j] - seq[i] >= j - i

FrameOK(h) ==
  /\ Spaced(buffer[h])
  /\ \A i \in 1..Len(buffer[h]) : buffer[h][i] < nextFrame /\ buffer[h][i] \notin sent[h]
  /\ \A f \in sent[h] : f < nextFrame
  /\ Increasing(wire[h])
  /\ \A k \in 1..Len(wire[h]) : wire[h][k] \in sent[h]
  /\ \A k \in 1..Len(wire[h]), i \in 1..Len(buffer[h]) : wire[h][k] < buffer[h][i]
  /\ ~welcomed[h] => wire[h] = <<>>
  /\ \A f \in born..(nextFrame - 1) :
       f \in sent[h] \/ (\E i \in 1..Len(buffer[h]) : f = buffer[h][i]) \/ f + BufferMax < nextFrame

FrameInv == \A h \in Hubs : FrameOK(h)

(* A push keeps the spacing, keeps or adds the new frame, and drops a frame  *)
(* only when BufferMax newer ones are in the ring.                           *)
LEMMA PushSpaced ==
  ASSUME NEW buf \in Seq(Nat \ {0}), Len(buf) <= BufferMax, NEW f \in Nat \ {0},
         Spaced(buf), \A i \in 1..Len(buf) : buf[i] < f
  PROVE  /\ Spaced(Push(buf, f))
         /\ \A i \in 1..Len(Push(buf, f)) :
              Push(buf, f)[i] = f \/ \E j \in 1..Len(buf) : Push(buf, f)[i] = buf[j]
         /\ \E i \in 1..Len(Push(buf, f)) : Push(buf, f)[i] = f
         /\ \A j \in 1..Len(buf) :
              \/ \E i \in 1..Len(Push(buf, f)) : Push(buf, f)[i] = buf[j]
              \/ buf[j] + BufferMax <= f
<1>1. Len(buf) \in Nat /\ \A i \in 1..Len(buf) : buf[i] \in Nat
  BY LenProperties, ElementOfSeq
<1>2. CASE Len(buf) < BufferMax
  <2> DEFINE p == Append(buf, f)
  <2>1. /\ Push(buf, f) = p
        /\ Len(p) = Len(buf) + 1
        /\ \A i \in 1..Len(buf) : p[i] = buf[i]
        /\ p[Len(buf) + 1] = f
    BY <1>2, AppendProperties DEF Push
  <2> HIDE DEF p
  <2>2. ASSUME NEW i \in 1..Len(p), NEW j \in 1..Len(p), i <= j PROVE p[j] - p[i] >= j - i
    <3>1. CASE j <= Len(buf)
      <4>1. i \in 1..Len(buf) /\ j \in 1..Len(buf)
        BY <1>1, <2>1, <2>2, <3>1
      <4>2. p[i] = buf[i] /\ p[j] = buf[j]
        BY <2>1, <4>1
      <4> QED BY <2>2, <4>1, <4>2 DEF Spaced
    <3>2. CASE j = Len(buf) + 1 /\ i <= Len(buf)
      <4>1. i \in 1..Len(buf) /\ Len(buf) \in 1..Len(buf)
        BY <1>1, <2>1, <3>2
      <4>2. buf[Len(buf)] - buf[i] >= Len(buf) - i
        BY <4>1 DEF Spaced
      <4>3. p[i] = buf[i] /\ p[j] = f /\ buf[Len(buf)] < f
        BY <2>1, <3>2, <4>1
      <4> QED BY <1>1, <3>2, <4>1, <4>2, <4>3
    <3>3. CASE j = Len(buf) + 1 /\ i = j
      BY <2>1, <3>3
    <3> QED BY <1>1, <2>1, <2>2, <3>1, <3>2, <3>3
  <2>3. Spaced(p)
    BY <2>2 DEF Spaced
  <2> QED BY <1>1, <2>1, <2>3
<1>3. CASE Len(buf) = BufferMax
  <2> DEFINE t == Tail(buf)
             p == Append(t, f)
  <2>1. BufferMax \in Nat \ {0} /\ buf # <<>>
    BY <1>3, ConstantsOK, EmptySeq DEF ConstantsOK
  <2>2. /\ t \in Seq(Nat \ {0})
        /\ Len(t) = Len(buf) - 1
        /\ \A i \in 1..Len(t) : t[i] = buf[i + 1]
    BY <2>1, HeadTailProperties
  <2>3. /\ Push(buf, f) = p
        /\ Len(p) = Len(buf)
        /\ \A i \in 1..(Len(buf) - 1) : p[i] = buf[i + 1]
        /\ p[Len(buf)] = f
    BY <1>1, <1>3, <2>2, AppendProperties DEF Push
  <2> HIDE DEF p, t
  <2>4. ASSUME NEW i \in 1..Len(p), NEW j \in 1..Len(p), i <= j PROVE p[j] - p[i] >= j - i
    <3>1. CASE j < Len(buf)
      <4>1. /\ i \in 1..(Len(buf) - 1) /\ j \in 1..(Len(buf) - 1)
            /\ i + 1 \in 1..Len(buf) /\ j + 1 \in 1..Len(buf) /\ i + 1 <= j + 1
        BY <1>1, <2>3, <2>4, <3>1
      <4>2. buf[j + 1] - buf[i + 1] >= (j + 1) - (i + 1)
        BY <4>1 DEF Spaced
      <4>3. p[i] = buf[i + 1] /\ p[j] = buf[j + 1]
        BY <2>3, <4>1
      <4> QED BY <4>1, <4>2, <4>3
    <3>2. CASE j = Len(buf) /\ i < Len(buf)
      <4>1. /\ i \in 1..(Len(buf) - 1) /\ i + 1 \in 1..Len(buf)
            /\ Len(buf) \in 1..Len(buf) /\ i + 1 <= Len(buf)
        BY <1>1, <2>3, <3>2
      <4>2. buf[Len(buf)] - buf[i + 1] >= Len(buf) - (i + 1)
        BY <4>1 DEF Spaced
      <4>3. p[i] = buf[i + 1] /\ p[j] = f /\ buf[Len(buf)] < f
        BY <2>3, <3>2, <4>1
      <4> QED BY <1>1, <3>2, <4>1, <4>2, <4>3
    <3>3. CASE j = Len(buf) /\ i = j
      BY <2>3, <3>3
    <3> QED BY <1>1, <2>3, <2>4, <3>1, <3>2, <3>3
  <2>5. Spaced(p)
    BY <2>4 DEF Spaced
  <2>6. buf[1] + BufferMax <= f
    <3>1. buf[Len(buf)] - buf[1] >= Len(buf) - 1
      BY <1>1, <1>3, <2>1 DEF Spaced
    <3> QED BY <1>1, <1>3, <2>1, <3>1
  <2>7. ASSUME NEW j \in 1..Len(buf), j # 1 PROVE \E i \in 1..Len(p) : p[i] = buf[j]
    <3>1. j - 1 \in 1..(Len(buf) - 1)
      BY <1>1, <2>7
    <3>2. p[j - 1] = buf[j - 1 + 1] /\ j - 1 + 1 = j
      BY <2>3, <3>1
    <3> QED BY <1>1, <2>3, <3>1, <3>2
  <2>8. \A i \in 1..Len(p) : p[i] = f \/ \E j \in 1..Len(buf) : p[i] = buf[j]
    BY <1>1, <2>3
  <2>9. \E i \in 1..Len(p) : p[i] = f
    BY <1>1, <1>3, <2>1, <2>3
  <2> QED BY <2>3, <2>5, <2>6, <2>7, <2>8, <2>9
<1> QED BY <1>1, <1>2, <1>3, ConstantsOK DEF ConstantsOK

(* drainChunk moves the head of the buffer to the socket and keeps the       *)
(* frames of its connection in order.                                        *)
LEMMA DrainChunkFrames ==
  ASSUME TypeOK, NEW h \in Hubs, NEW others \in Nat, NEW was \in BOOLEAN, NEW heard \in BOOLEAN,
         DrainChunk(h, others, was, heard), FrameOK(h), UNCHANGED <<nextFrame, born>>,
         (heard /\ welcomed'[h]) \/ (~heard /\ welcomed'[h] = welcomed[h])
  PROVE  /\ FrameOK(h)'
         /\ \A g \in Hubs \ {h} : /\ buffer'[g] = buffer[g]
                                  /\ sent'[g] = sent[g]
                                  /\ wire'[g] = wire[g]
<1> DEFINE b == buffer[h]
           n == ChunkSize(h)
           c == SubSeq(b, 1, n)
           k == Kept(h, n)
           w == wire[h]
<1>1. /\ n \in 0..Len(b) /\ Len(b) \in Nat
      /\ c \in Seq(Nat \ {0}) /\ Len(c) = n /\ \A i \in 1..n : c[i] = b[i]
      /\ Len(k) = Len(b) - n /\ \A i \in 1..(Len(b) - n) : k[i] = b[i + n]
  BY ChunkType, LenProperties DEF TypeOK
<1>2. /\ buffer'[h] = k
      /\ sent'[h] = sent[h] \cup Frames(c)
      /\ wire'[h] = IF heard THEN w \o c ELSE w
  BY DEF DrainChunk, TypeOK
<1>3. \A g \in Hubs \ {h} : buffer'[g] = buffer[g] /\ sent'[g] = sent[g] /\ wire'[g] = wire[g]
  BY DEF DrainChunk, TypeOK
<1>4. /\ \A i \in 1..Len(b) : b[i] \in Nat
      /\ \A i \in 1..Len(w) : w[i] \in Nat
      /\ w \in Seq(Nat) /\ Len(w) \in Nat /\ c \in Seq(Nat)
  <2>1. b \in Seq(Nat \ {0}) /\ w \in Seq(Nat)
    BY DEF TypeOK
  <2>2. Len(w) \in Nat /\ c \in Seq(Nat)
    BY <1>1, <2>1, LenProperties, SeqMonotonic
  <2>3. \A i \in 1..Len(b) : b[i] \in Nat
    BY <2>1, ElementOfSeq
  <2>4. \A i \in 1..Len(w) : w[i] \in Nat
    BY <2>1, ElementOfSeq
  <2> QED BY <2>1, <2>2, <2>3, <2>4
<1>5. /\ w \o c \in Seq(Nat)
      /\ Len(w \o c) = Len(w) + n
      /\ \A i \in 1..(Len(w) + n) : (w \o c)[i] = IF i <= Len(w) THEN w[i] ELSE c[i - Len(w)]
  BY <1>1, <1>4, ConcatProperties
<1>6. /\ Spaced(b)
      /\ \A i \in 1..Len(b) : b[i] < nextFrame /\ b[i] \notin sent[h]
      /\ \A f \in sent[h] : f < nextFrame
      /\ Increasing(w)
      /\ \A i \in 1..Len(w) : w[i] \in sent[h]
      /\ \A j \in 1..Len(w), i \in 1..Len(b) : w[j] < b[i]
      /\ ~welcomed[h] => w = <<>>
      /\ \A f \in born..(nextFrame - 1) :
           f \in sent[h] \/ (\E i \in 1..Len(b) : f = b[i]) \/ f + BufferMax < nextFrame
  BY DEF FrameOK
<1>7. Frames(c) = {b[i] : i \in 1..n}
  BY <1>1 DEF Frames
<1> HIDE DEF b, n, c, k, w
<1>8. \A i, j \in 1..Len(b) : i < j => b[i] < b[j]
  BY <1>1, <1>4, <1>6 DEF Spaced
<1>9. ASSUME NEW i \in 1..Len(k)
      PROVE  /\ i + n \in 1..Len(b) /\ i + n > n /\ k[i] = b[i + n]
             /\ k[i] < nextFrame /\ k[i] \notin sent[h]
             /\ \A j \in 1..n : b[j] < k[i]
  <2>1. i + n \in 1..Len(b) /\ i + n > n /\ k[i] = b[i + n]
    BY <1>1, <1>9
  <2>2. \A j \in 1..n : j \in 1..Len(b) /\ j < i + n
    BY <1>1, <2>1
  <2> QED BY <1>6, <1>8, <2>1, <2>2
<1>10. Spaced(k)
  <2> SUFFICES ASSUME NEW i \in 1..Len(k), NEW j \in 1..Len(k), i <= j PROVE k[j] - k[i] >= j - i
    BY DEF Spaced
  <2>1. b[j + n] - b[i + n] >= (j + n) - (i + n)
    BY <1>1, <1>6, <1>9 DEF Spaced
  <2> QED BY <1>1, <1>9, <2>1
<1>11. \A i \in 1..Len(k) : k[i] < nextFrame /\ k[i] \notin sent'[h]
  <2> SUFFICES ASSUME NEW i \in 1..Len(k) PROVE k[i] < nextFrame /\ k[i] \notin sent'[h]
    OBVIOUS
  <2>1. k[i] < nextFrame /\ k[i] \notin sent[h] /\ \A j \in 1..n : b[j] < k[i]
    BY <1>9
  <2>2. \A j \in 1..n : j \in 1..Len(b) /\ b[j] \in Nat
    BY <1>1, <1>4
  <2>3. k[i] \in Nat
    BY <1>4, <1>9
  <2>4. k[i] \notin Frames(c)
    BY <1>7, <2>1, <2>2, <2>3
  <2> QED BY <1>2, <2>1, <2>4
<1>12. \A f \in sent'[h] : f < nextFrame
  BY <1>1, <1>2, <1>6, <1>7
<1>13. Increasing(wire'[h])
  <2>1. CASE heard
    <3> SUFFICES ASSUME NEW i \in 1..Len(w \o c), NEW j \in 1..Len(w \o c), i < j
                 PROVE  (w \o c)[i] < (w \o c)[j]
      BY <1>2, <2>1 DEF Increasing
    <3>1. CASE j <= Len(w)
      BY <1>1, <1>4, <1>5, <1>6, <3>1 DEF Increasing
    <3>2. CASE i <= Len(w) /\ j > Len(w)
      <4>1. j - Len(w) \in 1..n /\ j - Len(w) \in 1..Len(b)
        BY <1>1, <1>4, <1>5, <3>2
      <4>2. i \in 1..Len(w) /\ i \in 1..(Len(w) + n) /\ j \in 1..(Len(w) + n) /\ ~(j <= Len(w))
        BY <1>1, <1>4, <1>5, <3>2
      <4>3. (w \o c)[j] = c[j - Len(w)] /\ (w \o c)[i] = w[i]
        BY <1>5, <3>2, <4>2
      <4>4. c[j - Len(w)] = b[j - Len(w)]
        BY <1>1, <4>1
      <4>5. w[i] < b[j - Len(w)]
        BY <1>6, <4>1, <4>2
      <4> QED BY <4>3, <4>4, <4>5
    <3>3. CASE i > Len(w)
      <4>1. /\ i - Len(w) \in 1..n /\ j - Len(w) \in 1..n
            /\ i - Len(w) \in 1..Len(b) /\ j - Len(w) \in 1..Len(b)
            /\ i - Len(w) < j - Len(w)
        BY <1>1, <1>4, <1>5, <3>3
      <4>2. (w \o c)[i] = b[i - Len(w)] /\ (w \o c)[j] = b[j - Len(w)]
        BY <1>1, <1>4, <1>5, <3>3, <4>1
      <4> QED BY <1>8, <4>1, <4>2
    <3>4. i \in Nat /\ j \in Nat /\ Len(w) \in Nat
      BY <1>1, <1>4, <1>5
    <3>5. j <= Len(w) \/ (i <= Len(w) /\ j > Len(w)) \/ i > Len(w)
      BY <3>4
    <3> QED BY <3>1, <3>2, <3>3, <3>5
  <2>2. CASE ~heard
    BY <1>2, <1>6, <2>2
  <2> QED BY <2>1, <2>2
<1>14. ASSUME NEW j \in 1..Len(wire'[h])
       PROVE  wire'[h][j] \in sent'[h] /\ \A i \in 1..Len(k) : wire'[h][j] < k[i]
  <2>1. ASSUME NEW x \in 1..Len(w) PROVE w[x] \in sent'[h] /\ \A i \in 1..Len(k) : w[x] < k[i]
    BY <1>2, <1>6, <1>9, <2>1
  <2>2. CASE ~heard
    BY <1>2, <2>1, <2>2
  <2>3. CASE heard /\ j <= Len(w)
    BY <1>1, <1>2, <1>4, <1>5, <2>1, <2>3
  <2>4. CASE heard /\ j > Len(w)
    <3>1. j - Len(w) \in 1..n /\ wire'[h][j] = b[j - Len(w)]
      BY <1>1, <1>2, <1>4, <1>5, <2>4
    <3> QED BY <1>2, <1>7, <1>9, <3>1
  <2> QED BY <1>1, <1>2, <1>4, <1>5, <2>2, <2>3, <2>4
<1>15. ~welcomed'[h] => wire'[h] = <<>>
  BY <1>2, <1>6
<1>16. ASSUME NEW f \in born..(nextFrame - 1)
       PROVE  f \in sent'[h] \/ (\E i \in 1..Len(k) : f = k[i]) \/ f + BufferMax < nextFrame
  <2>1. CASE \E i \in 1..Len(b) : f = b[i]
    <3>1. PICK i \in 1..Len(b) : f = b[i]
      BY <2>1
    <3>2. CASE i <= n
      <4>1. i \in 1..n
        BY <1>1, <3>2
      <4> QED BY <1>2, <1>7, <3>1, <4>1
    <3>3. CASE i > n
      <4>1. i - n \in 1..(Len(b) - n) /\ (i - n) + n = i
        BY <1>1, <3>3
      <4>2. k[i - n] = b[(i - n) + n] /\ i - n \in 1..Len(k)
        BY <1>1, <4>1
      <4> QED BY <3>1, <4>1, <4>2
    <3> QED BY <1>1, <3>2, <3>3
  <2> QED BY <1>2, <1>6, <2>1
<1> QED
  BY <1>2, <1>3, <1>10, <1>11, <1>12, <1>13, <1>14, <1>15, <1>16 DEF FrameOK

LEMMA FrameBroadcast == TypeOK /\ ConnInv /\ FrameInv /\ Broadcast => FrameInv'
<1> SUFFICES ASSUME TypeOK, ConnInv, FrameInv, Broadcast, NEW h \in Hubs PROVE FrameOK(h)'
  BY DEF FrameInv
<1> DEFINE b == buffer[h]
           f == nextFrame
<1>1. /\ nextFrame' = f + 1 /\ f \in Nat \ {0}
      /\ UNCHANGED <<born, welcomed>> /\ born \in 1..f
  BY DEF Broadcast, TypeOK
<1>2. FrameOK(h) /\ ConnOK(h)
  BY DEF FrameInv, ConnInv
<1>3. /\ b \in Seq(Nat \ {0}) /\ Len(b) <= BufferMax
      /\ sent[h] \subseteq Nat /\ wire[h] \in Seq(Nat) /\ Len(wire[h]) \in Nat
      /\ \A i \in 1..Len(wire[h]) : wire[h][i] \in Nat
      /\ Len(b) \in Nat /\ \A i \in 1..Len(b) : b[i] \in Nat
  BY LenProperties, ElementOfSeq DEF TypeOK
<1>4. BufferMax \in Nat \ {0}
  BY ConstantsOK DEF ConstantsOK
<1>5. CASE SendsInline(h)
  <2>1. /\ buffer'[h] = b
        /\ sent'[h] = sent[h] \cup {f}
        /\ wire'[h] = IF welcomed[h] THEN Append(wire[h], f) ELSE wire[h]
    BY <1>5 DEF Broadcast
  <2>2. CASE welcomed[h]
    <3>1. b = <<>>
      BY <1>2, <1>5, <2>2 DEF ConnOK, SendsInline, IsOpen
    <3>2. /\ Len(wire'[h]) = Len(wire[h]) + 1
          /\ \A i \in 1..Len(wire[h]) : wire'[h][i] = wire[h][i]
          /\ wire'[h][Len(wire[h]) + 1] = f
      BY <1>1, <1>3, <2>1, <2>2, AppendProperties
    <3>3. \A i \in 1..Len(wire[h]) : wire[h][i] < f
      BY <1>2, <1>3 DEF FrameOK
    <3>4. Increasing(wire'[h])
      <4> SUFFICES ASSUME NEW i \in 1..Len(wire'[h]), NEW j \in 1..Len(wire'[h]), i < j
                   PROVE  wire'[h][i] < wire'[h][j]
        BY DEF Increasing
      <4>1. i \in 1..Len(wire[h])
        BY <1>3, <3>2
      <4>2. CASE j \in 1..Len(wire[h])
        BY <1>2, <3>2, <4>1, <4>2 DEF FrameOK, Increasing
      <4>3. CASE j = Len(wire[h]) + 1
        BY <3>2, <3>3, <4>1, <4>3
      <4> QED BY <1>3, <3>2, <4>2, <4>3
    <3>5. \A i \in 1..Len(wire'[h]) : wire'[h][i] \in sent'[h]
      BY <1>2, <1>3, <2>1, <3>2 DEF FrameOK
    <3>6. Len(buffer'[h]) = 0
      BY <2>1, <3>1, EmptySeq
    <3>7. \A x \in sent'[h] : x < nextFrame'
      BY <1>1, <1>2, <1>3, <2>1 DEF FrameOK
    <3>8. Len(b) = 0
      BY <3>1, EmptySeq
    <3>9. \A x \in born'..(nextFrame' - 1) : x \in sent'[h] \/ x + BufferMax < nextFrame'
      BY <1>1, <1>2, <1>4, <2>1, <3>8 DEF FrameOK
    <3> QED BY <1>1, <2>2, <3>4, <3>5, <3>6, <3>7, <3>9 DEF FrameOK, Spaced
  <2>3. CASE ~welcomed[h]
    <3>1. wire'[h] = <<>> /\ wire[h] = <<>> /\ ~welcomed'[h]
      BY <1>1, <1>2, <2>1, <2>3 DEF FrameOK
    <3>2. Len(wire'[h]) = 0
      BY <3>1, EmptySeq
    <3>3. \A i \in 1..Len(b) : b[i] < nextFrame' /\ b[i] \notin sent'[h]
      BY <1>1, <1>2, <1>3, <2>1 DEF FrameOK
    <3>4. \A x \in born'..(nextFrame' - 1) :
            x \in sent'[h] \/ (\E i \in 1..Len(b) : x = b[i]) \/ x + BufferMax < nextFrame'
      BY <1>1, <1>2, <1>4, <2>1 DEF FrameOK
    <3>5. \A x \in sent'[h] : x < nextFrame'
      BY <1>1, <1>2, <1>3, <2>1 DEF FrameOK
    <3> QED BY <1>2, <2>1, <3>1, <3>2, <3>3, <3>4, <3>5 DEF FrameOK, Increasing
  <2> QED BY <2>2, <2>3
<1>6. CASE ~SendsInline(h)
  <2> DEFINE p == Push(b, f)
  <2>1. buffer'[h] = p /\ sent'[h] = sent[h] /\ wire'[h] = wire[h]
    BY <1>6 DEF Broadcast
  <2>2. Spaced(b) /\ \A i \in 1..Len(b) : b[i] < f
    BY <1>2 DEF FrameOK
  <2>3. /\ Spaced(p)
        /\ \A i \in 1..Len(p) : p[i] = f \/ \E j \in 1..Len(b) : p[i] = b[j]
        /\ \E i \in 1..Len(p) : p[i] = f
        /\ \A j \in 1..Len(b) : (\E i \in 1..Len(p) : p[i] = b[j]) \/ b[j] + BufferMax <= f
    BY <1>1, <1>3, <2>2, PushSpaced
  <2> HIDE DEF p, b, f
  <2>4. \A i \in 1..Len(p) : p[i] < nextFrame' /\ p[i] \notin sent'[h]
    <3>1. /\ f < nextFrame' /\ f \notin sent[h]
          /\ \A j \in 1..Len(b) : b[j] < nextFrame' /\ b[j] \notin sent[h]
      BY <1>1, <1>2, <1>3 DEF FrameOK, b, f
    <3> QED BY <2>1, <2>3, <3>1
  <2>5. \A x \in sent'[h] : x < nextFrame'
    BY <1>1, <1>2, <1>3, <2>1 DEF FrameOK, f
  <2>6. \A j \in 1..Len(wire'[h]), i \in 1..Len(p) : wire'[h][j] < p[i]
    BY <1>2, <1>3, <2>1, <2>3 DEF FrameOK, b, f
  <2>7. ASSUME NEW x \in born'..(nextFrame' - 1)
        PROVE  x \in sent'[h] \/ (\E i \in 1..Len(p) : x = p[i]) \/ x + BufferMax < nextFrame'
    <3>1. CASE x = f
      BY <2>3, <3>1
    <3>2. CASE x \in born..(f - 1)
      <4>1. x \in sent[h] \/ (\E i \in 1..Len(b) : x = b[i]) \/ x + BufferMax < f
        BY <1>2, <3>2 DEF FrameOK, b, f
      <4>2. CASE x \in sent[h] \/ x + BufferMax < f
        <5>1. f \in Nat /\ nextFrame' = f + 1 /\ BufferMax \in Nat /\ x \in Int
          BY <1>1, <1>4, <3>2, ConstantsOK DEF ConstantsOK, f
        <5>2. sent'[h] = sent[h]
          BY <2>1
        <5> QED BY <4>2, <5>1, <5>2
      <4>3. CASE \E i \in 1..Len(b) : x = b[i]
        <5>1. PICK j \in 1..Len(b) : x = b[j]
          BY <4>3
        <5>2. CASE \E i \in 1..Len(p) : p[i] = b[j]
          BY <5>1, <5>2
        <5>3. CASE b[j] + BufferMax <= f
          <6>1. f \in Nat /\ nextFrame' = f + 1 /\ BufferMax \in Nat /\ x \in Int
            BY <1>1, <1>4, <3>2, ConstantsOK DEF ConstantsOK, f
          <6> QED BY <5>1, <5>3, <6>1
        <5> QED BY <2>3, <5>2, <5>3
      <4> QED BY <4>1, <4>2, <4>3
    <3> QED BY <1>1, <2>7, <3>1, <3>2
  <2> QED BY <1>1, <1>2, <2>1, <2>3, <2>4, <2>5, <2>6, <2>7 DEF FrameOK
<1> QED BY <1>5, <1>6

LEMMA FrameDrainFires ==
  ASSUME NEW h \in Hubs PROVE TypeOK /\ FrameInv /\ DrainFires(h) => FrameInv'
<1> SUFFICES ASSUME TypeOK, FrameInv, DrainFires(h), NEW g \in Hubs PROVE FrameOK(g)'
  BY DEF FrameInv
<1>1. UNCHANGED <<nextFrame, born, welcomed>>
  BY DEF DrainFires
<1>2. FrameOK(g) /\ FrameOK(h)
  BY DEF FrameInv
<1>3. CASE IsOpen(h)
  <2>1. DrainChunk(h, drains[h] - 1, replaying[h], welcomed[h])
    BY <1>3 DEF DrainFires
  <2>2. drains[h] - 1 \in Nat /\ replaying[h] \in BOOLEAN /\ welcomed[h] \in BOOLEAN
    BY DEF DrainFires, TypeOK
  <2>3. /\ FrameOK(h)'
        /\ g # h => buffer'[g] = buffer[g] /\ sent'[g] = sent[g] /\ wire'[g] = wire[g]
    BY <1>1, <1>2, <2>1, <2>2, DrainChunkFrames
  <2>4. g # h => FrameOK(g)'
    BY <1>1, <1>2, <2>3 DEF FrameOK
  <2> QED BY <2>3, <2>4
<1>4. CASE ~IsOpen(h)
  BY <1>1, <1>2, <1>4 DEF DrainFires, FrameOK
<1> QED BY <1>3, <1>4

LEMMA FrameWelcome ==
  ASSUME NEW h \in Hubs PROVE TypeOK /\ ConnInv /\ FrameInv /\ Welcome(h) => FrameInv'
<1> SUFFICES ASSUME TypeOK, ConnInv, FrameInv, Welcome(h), NEW g \in Hubs PROVE FrameOK(g)'
  BY DEF FrameInv
<1>1. /\ UNCHANGED <<nextFrame, born>>
      /\ welcomed' = [welcomed EXCEPT ![h] = TRUE] /\ ~welcomed[h]
  BY DEF Welcome
<1>2. FrameOK(g) /\ FrameOK(h) /\ ConnOK(h)
  BY DEF FrameInv, ConnInv
<1>3. ~replaying[h]
  BY <1>1, <1>2 DEF ConnOK
<1>4. DrainChunk(h, drains[h], TRUE, TRUE)
  BY <1>3 DEF Welcome
<1>5. welcomed'[h] /\ (g # h => welcomed'[g] = welcomed[g]) /\ drains[h] \in Nat
  BY <1>1 DEF TypeOK
<1>6. /\ FrameOK(h)'
      /\ g # h => buffer'[g] = buffer[g] /\ sent'[g] = sent[g] /\ wire'[g] = wire[g]
  BY <1>1, <1>2, <1>4, <1>5, DrainChunkFrames
<1>7. g # h => FrameOK(g)'
  BY <1>1, <1>2, <1>5, <1>6 DEF FrameOK
<1> QED BY <1>6, <1>7

(* A session's end empties the wire and leaves the buffer alone. *)
LEMMA FrameSessionEnd ==
  ASSUME TypeOK, FrameInv, NEW h \in Hubs, wire'[h] = <<>> \/ (wire'[h] = wire[h] /\ welcomed'[h] = welcomed[h]),
         buffer'[h] = buffer[h], sent'[h] = sent[h], UNCHANGED <<nextFrame, born>>
  PROVE  FrameOK(h)'
<1>1. FrameOK(h)
  BY DEF FrameInv
<1>2. CASE wire'[h] = <<>>
  <2>1. Len(wire'[h]) = 0
    BY <1>2, EmptySeq
  <2> QED BY <1>1, <1>2, <2>1 DEF FrameOK, Increasing
<1>3. CASE wire'[h] = wire[h] /\ welcomed'[h] = welcomed[h]
  BY <1>1, <1>3 DEF FrameOK
<1> QED BY <1>2, <1>3

LEMMA FrameClosedOrStop ==
  TypeOK /\ FrameInv /\ (Stop \/ \E h \in Hubs, code \in CloseCodes : Closed(h, code)) => FrameInv'
<1> SUFFICES ASSUME TypeOK, FrameInv, Stop \/ \E h \in Hubs, code \in CloseCodes : Closed(h, code),
                    NEW g \in Hubs
             PROVE  FrameOK(g)'
  BY DEF FrameInv
<1>1. CASE Stop
  BY <1>1, FrameSessionEnd DEF Stop
<1>2. ASSUME NEW h \in Hubs, NEW code \in CloseCodes, Closed(h, code) PROVE FrameOK(g)'
  <2>1. wire'[g] = <<>> \/ (wire'[g] = wire[g] /\ welcomed'[g] = welcomed[g])
    BY <1>2 DEF Closed, TypeOK
  <2> QED BY <1>2, <2>1, FrameSessionEnd DEF Closed
<1> QED BY <1>1, <1>2

LEMMA FrameRestart == TypeOK /\ FrameInv /\ Restart => FrameInv'
<1> SUFFICES ASSUME TypeOK, FrameInv, Restart, NEW h \in Hubs PROVE FrameOK(h)'
  BY DEF FrameInv
<1>1. /\ Len(buffer'[h]) = 0 /\ Len(wire'[h]) = 0 /\ wire'[h] = <<>>
      /\ sent' = sent /\ nextFrame' = nextFrame /\ born' = nextFrame /\ nextFrame \in Nat
  BY EmptySeq DEF Restart, TypeOK
<1>2. \A f \in sent[h] : f < nextFrame
  BY DEF FrameInv, FrameOK
<1>3. born'..(nextFrame' - 1) = {}
  BY <1>1
<1> QED BY <1>1, <1>2, <1>3 DEF FrameOK, Spaced, Increasing

LEMMA FrameStep == TypeOK /\ ConnInv /\ FrameInv /\ [Next]_vars => FrameInv'
<1> SUFFICES ASSUME TypeOK, ConnInv, FrameInv, [Next]_vars PROVE FrameInv'
  OBVIOUS
<1>1. CASE UNCHANGED <<buffer, nextFrame, history>>
  BY <1>1 DEF FrameInv, FrameOK, history
<1>2. ASSUME NEW h \in Hubs, Open(h) \/ StableFires(h) \/ CloseBegins(h) \/ ReconnectFires(h)
      PROVE  FrameInv'
  BY <1>1, <1>2 DEF Open, StableFires, CloseBegins, ReconnectFires
<1> QED BY <1>1, <1>2, FrameBroadcast, FrameDrainFires, FrameWelcome, FrameClosedOrStop, FrameRestart
        DEF Next, vars

LEMMA FrameInit == Init => FrameInv
<1> SUFFICES ASSUME Init, NEW h \in Hubs PROVE FrameOK(h)
  BY DEF FrameInv
<1>1. Len(buffer[h]) = 0 /\ Len(wire[h]) = 0 /\ wire[h] = <<>> /\ sent[h] = {}
  BY EmptySeq DEF Init
<1>2. born = 1 /\ nextFrame = 1
  BY DEF Init
<1> QED BY <1>1, <1>2 DEF FrameOK, Spaced, Increasing

LEMMA FrameInvariant == Spec => [](TypeOK /\ FrameInv)
<1>1. TypeOK /\ ConnInv /\ FrameInv /\ [Next]_vars => FrameInv'
  BY FrameStep
<1> QED BY <1>1, FrameInit, ConnInvariant, PTL DEF Spec

(* A frame is never handed twice to the sockets of a hub, whatever number of *)
(* drain loops and sessions shared the buffer (broadcast, drainChunk).       *)
THEOREM NoFrameTwiceHolds == Spec => []NoFrameTwice
<1>1. TypeOK /\ FrameInv => NoFrameTwice
  <2> SUFFICES ASSUME TypeOK, FrameInv, NEW h \in Hubs
               PROVE  Increasing(buffer[h]) /\ Frames(buffer[h]) \cap sent[h] = {}
    BY DEF NoFrameTwice
  <2>1. FrameOK(h) /\ \A i \in 1..Len(buffer[h]) : buffer[h][i] \in Nat
    BY ElementOfSeq DEF FrameInv, TypeOK
  <2>2. Len(buffer[h]) \in Nat
    BY LenProperties DEF TypeOK
  <2>3. Spaced(buffer[h])
    BY <2>1 DEF FrameOK
  <2>4. Increasing(buffer[h])
    BY <2>1, <2>2, <2>3, SMTT(60) DEF Spaced, Increasing
  <2> QED BY <2>1, <2>4 DEF FrameOK, Frames
<1> QED BY <1>1, FrameInvariant, PTL

(* From a session's welcome on its hub gets the frames in production order   *)
(* (broadcast's test of conn.replaying).                                     *)
THEOREM FifoAfterWelcomeHolds == Spec => []FifoAfterWelcome
<1>1. FrameInv => FifoAfterWelcome
  BY DEF FrameInv, FrameOK, FifoAfterWelcome
<1> QED BY <1>1, FrameInvariant, PTL

(* The running agent loses a frame only to BUFFER_MAX newer ones             *)
(* (pushToBuffer).                                                           *)
THEOREM LossOnlyByOverflowHolds == Spec => []LossOnlyByOverflow
<1>1. FrameInv => LossOnlyByOverflow
  BY DEF FrameInv, FrameOK, LossOnlyByOverflow, Frames
<1> QED BY <1>1, FrameInvariant, PTL

(* Every frame of the running process reaches its hub at most once and in    *)
(* order, or was pushed out of a full ring (broadcast, pushToBuffer,         *)
(* drainChunk, close).                                                       *)
THEOREM DeliveryHolds == Spec => []Delivery
<1>1. NoFrameTwice /\ FifoAfterWelcome /\ LossOnlyByOverflow => Delivery
  BY DEF Delivery
<1> QED
  BY <1>1, NoFrameTwiceHolds, FifoAfterWelcomeHolds, LossOnlyByOverflowHolds, PTL

(* No backlog waits without a replay, no hub without a socket or a timer     *)
(* (flushBuffer, drainChunk, scheduleReconnect, close).                      *)
THEOREM NeverStuckHolds == Spec => []NeverStuck
<1>1. NoSilentBacklog /\ OneWayForward => NeverStuck
  BY DEF NeverStuck
<1> QED BY <1>1, NoSilentBacklogHolds, OneWayForwardHolds, PTL

(* Both, as the run checks them.                                             *)
THEOREM LinkSoundHolds == Spec => []LinkSound
<1>1. Delivery /\ NeverStuck => LinkSound
  BY DEF LinkSound
<1> QED BY <1>1, DeliveryHolds, NeverStuckHolds, PTL

-----------------------------------------------------------------------------
Booting == phase \in {"down", "boot"}

\* A child runs only for a source at work, and a respawn is pending only while
\* there is none.
ChildInv ==
    /\ spare = 0 /\ respawn \in {0, 1} /\ stream \in {"none", "up", "hung"}
    /\ ~running => stream = "none"
    /\ respawn = 1 => stream = "none"
    /\ Booting => ~running /\ respawn = 0

LEMMA ChildStep == ChildInv /\ [RuntimeNext]_runtimeVars => ChildInv'
<1> SUFFICES ASSUME ChildInv, [RuntimeNext]_runtimeVars PROVE ChildInv'
    OBVIOUS
<1> USE DEF ChildInv, Booting
<1>1. CASE Boots
    BY <1>1 DEF Boots, streamVars
<1>2. CASE Discovers
    BY <1>2 DEF Discovers, streamVars
<1>3. CASE Starts
    <2>1. CASE Exits
        BY <2>1, <1>3 DEF Exits, streamVars, Starts
    <2>2. ASSUME NEW s, NEW c, StartsWith(s, c) PROVE ChildInv'
        <3>1. CASE s = "none"
            BY <3>1, <2>2, <1>3 DEF StartsWith, streamVars, Starts
        <3>2. CASE s # "none"
            BY <3>2, <2>2, <1>3 DEF StartsWith, StartSource, Spawned, Starts
        <3> QED BY <3>1, <3>2
    <2> QED BY <1>3, <2>1, <2>2 DEF Starts
<1>4. CASE Stops
    BY <1>4 DEF Stops, StopSource, sourceVars, streamVars
<1>5. CASE Ends
    BY <1>5 DEF Ends, sourceVars, streamVars
<1>6. CASE Binds
    BY <1>6 DEF Binds, sourceVars, streamVars, bootVars
<1>7. CASE Working /\ SourceNext /\ UNCHANGED <<bootVars, processVars>>
    <2> USE <1>7 DEF Working, bootVars
    <2>1. ASSUME NEW c, Line(c) PROVE ChildInv'
        BY <2>1 DEF Line
    <2>2. CASE FlushFires \/ LoopLine
        BY <2>2 DEF FlushFires, LoopLine
    <2>3. CASE ChildExits
        <3>1. ChildClosed /\ stream = "up" /\ UNCHANGED <<running, spare>>
            BY <2>3 DEF ChildExits
        <3>2. stream' = "none" /\ respawn' \in {respawn, IF running THEN respawn + 1 ELSE respawn}
            BY <3>1 DEF ChildClosed, LoopClosed, StreamClosed, StartForking
        <3> QED BY <3>1, <3>2
    <2>4. CASE ChildHangs \/ StaleCloses
        BY <2>4 DEF ChildHangs, StaleCloses
    <2>5. CASE RespawnFires
        BY <2>5 DEF RespawnFires, Spawned
    <2>6. CASE SourceTick
        <3>1. running /\ running' = running
            BY <2>6 DEF SourceTick
        <3>2. CASE ChildTick
            BY <3>1, <3>2 DEF ChildTick, Watched, Replaced
        <3>3. CASE ForkTick \/ ReadTick
            BY <3>1, <3>3 DEF ForkTick, ReadTick, streamVars
        <3> QED BY <2>6, <3>2, <3>3 DEF SourceTick
    <2>7. CASE MockTick \/ ForkEnds \/ PcieRefreshed
        BY <2>7 DEF MockTick, ForkEnds, PcieRefreshed, streamVars
    <2>8. CASE RocmReads \/ AmdgpuReads \/ ToolHangs
        BY <2>8 DEF RocmReads, AmdgpuReads, ToolHangs, streamVars
    <2> QED BY <2>1, <2>2, <2>3, <2>4, <2>5, <2>6, <2>7, <2>8 DEF SourceNext
<1>8. CASE Working /\ (ProcessTick \/ ProcessTickEnds \/ ListToolHangs) /\ UNCHANGED bootVars
    BY <1>8 DEF ProcessTick, ProcessTickEnds, ListToolHangs, hostAndSource, streamVars, bootVars
<1>9. CASE Working /\ (ProcessStarts \/ ProcessExits) /\ UNCHANGED <<bootVars, hostVars, sourceVars>>
    BY <1>9 DEF sourceVars, streamVars, bootVars
<1>10. CASE UNCHANGED runtimeVars
    BY <1>10 DEF runtimeVars, sourceVars, streamVars, bootVars
<1>11. CASE Working /\ IntelReads /\ UNCHANGED <<bootVars, started, listVars>>
    BY <1>11 DEF IntelReads, streamVars, bootVars
<1> QED
    BY <1>1, <1>2, <1>3, <1>4, <1>5, <1>6, <1>7, <1>8, <1>9, <1>10, <1>11 DEF RuntimeNext

-----------------------------------------------------------------------------
\* The processes of the host: a card or a KFD context is held only while its
\* driver is bound.
ProcInv ==
    /\ started \in Nat /\ DOMAIN proc = Pids
    /\ \A p \in Pids : /\ proc[p].number \in Nat
                       /\ proc[p].cards \subseteq Usable
                       /\ proc[p].kfd => AmdgpuCards # {}

Scans == collector \in {"amd", "intel"}

\* The scan by k has made nothing of pid p: p would be looked at afresh.
Fresh(k, p) == firstSeen[k][p] = Unseen /\ p \notin denied[k] \cup kernels[k]

\* No scan by k has been made since the agent started: k is not at work, or lists
\* the processes without a scan.
Idle(k) ==
    \/ Booting
    \/ AtWork # {} /\ k \notin AtWork
    \/ k = "processes" /\ collector \in {"nvidia", "pdh"}

\* What a scan keeps of a pid is about the process that runs there, until the scan
\* made after its end.
PidOK(k, p) ==
    /\ firstSeen[k][p] \in 0..Unseen /\ refusals[k][p] \in {0, 1}
    /\ p \in Alive /\ proc[p].kernel => firstSeen[k][p] = Unseen
    /\ p \in Alive /\ p \notin denied[k] => refusals[k][p] = 0
    /\ AtWork # {} /\ p \notin Alive /\ p \notin recent[k] => Fresh(k, p)
    /\ Idle(k) => Fresh(k, p)
ScannerOK(k) ==
    /\ DOMAIN firstSeen[k] = Pids /\ DOMAIN refusals[k] = Pids
    /\ \A p \in Pids : PidOK(k, p)
ScanDomains ==
    /\ DOMAIN firstSeen = Scanners /\ DOMAIN refusals = Scanners /\ DOMAIN recent = Scanners
    /\ DOMAIN denied = Scanners /\ DOMAIN kernels = Scanners
ScanInv == ScanDomains /\ (\A k \in Scanners : ScannerOK(k)) /\ ~early

\* A pid is counted only while it is listed, and for the process that runs there.
CountInv ==
    /\ DOMAIN counted = Pids
    /\ \A p \in Pids : counted[p] # 0 => p \in PidsOf(listed)
    /\ \A p \in Alive : counted[p] # 0 => proc[p].number = counted[p]
    /\ ~mixed

\* A collector of processes works only after the boot, and no longer than the
\* source of the samples.
ListInv ==
    /\ collector \in {"none", "nvidia", "amd", "intel", "pdh"}
    /\ Booting => collector = "none"
    /\ source # "none" /\ ~running => collector = "none"

\* A process starts under a pid nothing is known of.
LEMMA StartedProcess ==
    ASSUME ProcInv, ScanDomains, ProcessStarts
    PROVE  \E p \in Pids \ Alive :
              /\ ~Known(p)
              /\ started' = started + 1
              /\ DOMAIN proc' = Pids
              /\ proc'[p].number = started' /\ proc'[p].cards \subseteq Usable
              /\ proc'[p].kfd => AmdgpuCards # {}
              /\ \A q \in Pids \ {p} : proc'[q] = proc[q]
              /\ Alive' = Alive \cup {p}
              /\ DOMAIN refusals' = Scanners
              /\ \A k \in Scanners : refusals'[k] = [refusals[k] EXCEPT ![p] = 0]
<1>1. PICK p \in Pids \ Alive, k \in ProcessKinds :
        /\ ~Known(p)
        /\ k.cards \subseteq Usable /\ (k.kfd => AmdgpuCards # {})
        /\ started' = started + 1
        /\ proc' = [proc EXCEPT ![p] = [number |-> started', cards |-> k.cards, kfd |-> k.kfd,
                                        readable |-> k.readable, kernel |-> k.kernel]]
        /\ refusals' = [s \in Scanners |-> [refusals[s] EXCEPT ![p] = 0]]
    BY DEF ProcessStarts
<1>2. DOMAIN proc' = Pids
    BY <1>1 DEF ProcInv
<1>3. /\ proc'[p].number = started' /\ proc'[p].cards \subseteq Usable
      /\ proc'[p].kfd => AmdgpuCards # {}
    BY <1>1 DEF ProcInv
<1>4. \A q \in Pids \ {p} : proc'[q] = proc[q]
    BY <1>1 DEF ProcInv
<1>5. Alive' = Alive \cup {p}
    BY <1>1, <1>3, <1>4 DEF Alive, ProcInv
<1>6. DOMAIN refusals' = Scanners /\ \A s \in Scanners : refusals'[s] = [refusals[s] EXCEPT ![p] = 0]
    BY <1>1
<1> QED BY <1>1, <1>2, <1>3, <1>4, <1>5, <1>6

\* A process ends.
LEMMA EndedProcess ==
    ASSUME ProcInv, ProcessExits
    PROVE  \E p \in Alive :
              /\ recent' = [k \in Scanners |-> IF k \in AtWork THEN recent[k] \cup {p} ELSE recent[k]]
              /\ DOMAIN proc' = Pids
              /\ proc'[p] = Gone /\ Alive' = Alive \ {p}
              /\ \A q \in Pids \ {p} : proc'[q] = proc[q]
<1>1. PICK p \in Alive : 
          /\ proc' = [proc EXCEPT ![p] = Gone]
          /\ recent' = [k \in Scanners |-> IF k \in AtWork THEN recent[k] \cup {p} ELSE recent[k]]
    BY DEF ProcessExits
<1>2. p \in Pids
    BY DEF Alive
<1>3. DOMAIN proc' = Pids /\ proc'[p] = Gone /\ \A q \in Pids \ {p} : proc'[q] = proc[q]
    BY <1>1, <1>2 DEF ProcInv
<1>4. Gone.number = 0
    BY DEF Gone
<1>5. Alive' = Alive \ {p}
    BY <1>2, <1>3, <1>4 DEF Alive
<1> QED BY <1>1, <1>3, <1>5

\* The steps that leave the machine, and the processes of the host, alone.
Quiet == UNCHANGED <<bootVars, hostVars, hostProcs, scanVars, listVars>>

LEMMA SourceIsQuiet ==
    ASSUME Working /\ SourceNext /\ UNCHANGED <<bootVars, processVars>>
    PROVE  Quiet
<1>1. UNCHANGED hostVars
    <2>1. ASSUME NEW c, Line(c) PROVE UNCHANGED hostVars
        BY <2>1 DEF Line
    <2>2. ASSUME FlushFires \/ LoopLine \/ ChildExits \/ ChildHangs \/ StaleCloses \/ RespawnFires
          PROVE  UNCHANGED hostVars
        BY <2>2 DEF FlushFires, LoopLine, ChildExits, ChildHangs, StaleCloses, RespawnFires
    <2>3. ASSUME SourceTick \/ MockTick \/ ForkEnds \/ PcieRefreshed PROVE UNCHANGED hostVars
        BY <2>3 DEF SourceTick, MockTick, ForkEnds, PcieRefreshed
    <2>4. ASSUME RocmReads \/ AmdgpuReads \/ ToolHangs PROVE UNCHANGED hostVars
        BY <2>4 DEF RocmReads, AmdgpuReads, ToolHangs
    <2> QED BY <2>1, <2>2, <2>3, <2>4 DEF SourceNext
<1> QED BY <1>1 DEF processVars, Quiet

\* What a scanner keeps of a pid stays right while it is left alone.
LEMMA PidKept ==
    ASSUME NEW k \in Scanners, NEW p \in Pids, PidOK(k, p),
           UNCHANGED <<firstSeen[k], refusals[k], denied[k], kernels[k], recent[k], proc>>,
           AtWork' # {} => AtWork # {} \/ Booting,
           Idle(k)' => Idle(k)
    PROVE  PidOK(k, p)'
<1>1. Alive' = Alive
    BY DEF Alive
<1>2. Fresh(k, p)' <=> Fresh(k, p)
    BY DEF Fresh
<1>3. Booting => Idle(k)
    BY DEF Idle
<1> QED BY <1>1, <1>2, <1>3 DEF PidOK

\* One scan by k, what it makes of each pid.
LEMMA ScanStep ==
    ASSUME ProcInv, ScanInv, NEW k \in Scanners, Scanned(k),
           UNCHANGED <<proc, hostVars, source, running, collector, phase>>, ~Booting,
           AtWork = {} \/ k \in AtWork, k = "processes" => Scans
    PROVE  ScanInv'
<1> USE ScanConstantsOK DEF Unseen
<1>0. Alive' = Alive /\ AtWork' = AtWork /\ (Booting' <=> Booting) /\ \A j \in Scanners : Idle(j)' <=> Idle(j)
    BY DEF Alive, AtWork, Booting, Idle
<1>k. ScannerOK(k)
    BY DEF ScanInv
<1>1. /\ ScanDomains'
      /\ denied'[k] = StillThere(denied[k] \cup Refused(k))
      /\ kernels'[k] = StillThere(kernels[k] \cup NewKernels(k))
      /\ firstSeen'[k] = [p \in Pids |-> IF p \notin Alive THEN Unseen
                                        ELSE IF p \in Skipped(k) THEN firstSeen[k][p] ELSE Aged(k, p)]
      /\ refusals'[k] = [p \in Pids |-> IF p \in Refused(k) THEN refusals[k][p] + 1 ELSE refusals[k][p]]
    BY DEF Scanned, ScanInv, ScanDomains
<1>2. ASSUME NEW p \in Opened(k)
      PROVE  p \in Alive /\ ~proc[p].kernel /\ firstSeen[k][p] # Unseen /\ p \notin denied[k]
    <2>1. p \in Alive /\ p \notin Skipped(k) /\ Aged(k, p) >= MinAge /\ p \in Pids
        BY DEF Opened, Alive
    <2>2. firstSeen[k][p] # Unseen
        BY <2>1 DEF Aged
    <2>3. ~proc[p].kernel
        BY <1>k, <2>1, <2>2 DEF ScannerOK, PidOK
    <2> QED BY <2>1, <2>2, <2>3 DEF Skipped
<1>3. ~early'
    BY <1>2 DEF Scanned, ScanInv
<1>4. ASSUME NEW p \in Pids PROVE Aged(k, p) \in 0..Unseen /\ firstSeen'[k][p] \in 0..Unseen
    <2>1. firstSeen[k][p] \in 0..Unseen
        BY <1>k DEF ScannerOK, PidOK
    <2>2. Aged(k, p) \in 0..Unseen
        BY <2>1 DEF Aged
    <2> QED BY <1>1, <2>1, <2>2
<1>5. ASSUME NEW p \in Pids
      PROVE refusals'[k][p] \in {0, 1} /\ (p \in Alive' /\ p \notin denied'[k] => refusals'[k][p] = 0)
    <2>1. CASE p \in Refused(k)
        <3>1. p \in denied'[k] /\ refusals[k][p] = 0
            BY <1>k, <1>1, <1>2, <2>1 DEF Refused, StillThere, ScannerOK, PidOK
        <3> QED BY <1>1, <2>1, <3>1
    <2>2. CASE p \notin Refused(k)
        <3>1. refusals'[k][p] = refusals[k][p]
            BY <1>1, <2>2
        <3>2. p \in Alive' /\ p \notin denied'[k] => p \notin denied[k]
            BY <1>0, <1>1 DEF StillThere
        <3> QED BY <1>0, <1>k, <3>1, <3>2 DEF ScannerOK, PidOK
    <2> QED BY <2>1, <2>2
<1>6. ASSUME NEW p \in Pids, p \notin Alive' PROVE Fresh(k, p)'
    BY <1>0, <1>1, <1>6 DEF StillThere, Fresh
<1>7. ASSUME NEW p \in Pids, p \in Alive', proc'[p].kernel PROVE firstSeen'[k][p] = Unseen
    <2>1. firstSeen[k][p] = Unseen /\ p \in Alive
        BY <1>0, <1>k, <1>7 DEF ScannerOK, PidOK
    <2>2. p \in Skipped(k)
        BY <1>7, <2>1 DEF NewKernels, Skipped
    <2> QED BY <1>1, <2>1, <2>2
<1>8. ~Idle(k)'
    BY <1>0 DEF Idle, Scans
<1>9. ScannerOK(k)'
    <2>1. \A p \in Pids : PidOK(k, p)'
        BY <1>4, <1>5, <1>6, <1>7, <1>8 DEF PidOK
    <2> QED BY <1>1, <2>1 DEF ScannerOK
<1>10. ASSUME NEW j \in Scanners, j # k PROVE ScannerOK(j)'
    <2>1. ScannerOK(j)
        BY DEF ScanInv
    <2>2. UNCHANGED <<firstSeen[j], refusals[j], denied[j], kernels[j], recent[j]>>
        BY <1>10 DEF Scanned, ScanInv, ScanDomains
    <2>3. \A p \in Pids : PidOK(j, p)'
        BY <1>0, <2>1, <2>2, PidKept DEF ScannerOK
    <2> QED BY <2>1, <2>2, <2>3 DEF ScannerOK
<1> QED BY <1>1, <1>3, <1>9, <1>10 DEF ScanInv

\* A list made without a scan: nothing is kept of any pid.
LEMMA NoScanStep ==
    ASSUME ScanInv, ListedWithoutScan, UNCHANGED <<proc, source, running, collector, phase>>,
           collector \in {"nvidia", "pdh"}
    PROVE  ScanInv'
<1>0. Alive' = Alive /\ AtWork' = AtWork /\ (Booting' <=> Booting) /\ \A j \in Scanners : Idle(j)' <=> Idle(j)
    BY DEF Alive, AtWork, Booting, Idle
<1>1. ScanDomains' /\ ~early'
    BY DEF ScanInv, ScanDomains, ListedWithoutScan
<1>2. ASSUME NEW k \in Scanners PROVE ScannerOK(k)'
    <2>1. ScannerOK(k) /\ UNCHANGED <<firstSeen[k], refusals[k], denied[k], kernels[k]>>
        BY DEF ScanInv, ListedWithoutScan
    <2>2. k # "processes" => recent'[k] = recent[k]
        BY DEF ListedWithoutScan, ScanInv, ScanDomains
    <2>3. k = "processes" => Idle(k)
        BY DEF Idle
    <2>4. \A p \in Pids : Fresh(k, p)' <=> Fresh(k, p)
        BY <2>1 DEF Fresh
    <2>5. \A p \in Pids : PidOK(k, p)'
        BY <1>0, <2>1, <2>2, <2>3, <2>4 DEF ScannerOK, PidOK
    <2> QED BY <2>1, <2>5 DEF ScannerOK
<1> QED BY <1>1, <1>2 DEF ScanInv

\* Steps of the host and of the boot: nothing is listed, nothing is scanned.
LEMMA ListStarted ==
    ASSUME NEW c, NEW counters, ListStarts(ListChosen, counters)
    PROVE  /\ collector' \in {"none", "nvidia", "amd", "intel", "pdh"}
           /\ UNCHANGED <<hostProcs, inflight, taken, scanVars, mapVars, rowVars>>
<1>1. collector' \in {ListChosen, "none"} /\ UNCHANGED <<hostProcs, inflight, taken, scanVars, mapVars, rowVars>>
    BY DEF ListStarts
<1>2. ListChosen \in {"none", "nvidia", "amd", "intel", "pdh"}
    BY DEF ListChosen
<1> QED BY <1>1, <1>2

Still == UNCHANGED <<proc, started, scanVars, rowVars>>

LEMMA StillKeeps ==
    ASSUME ProcInv, ScanInv, CountInv, Still, UNCHANGED machine, bound => bound', Booting' => Booting,
           \/ Booting
           \/ AtWork' = {} /\ collector' = "none"
           \/ AtWork' = AtWork /\ collector' = collector
    PROVE  ProcInv' /\ ScanInv' /\ CountInv'
<1>1. Alive' = Alive
    BY DEF Alive, Still
<1>2. Usable \subseteq Usable' /\ (AmdgpuCards # {} => AmdgpuCards' # {})
    BY DEF Usable, AmdgpuCards, Sysfs
<1>3. ProcInv'
    BY <1>2 DEF ProcInv, Still
<1>4. /\ AtWork' # {} => AtWork # {} \/ Booting
      /\ \A k \in Scanners : Idle(k)' => Idle(k)
    BY DEF Idle
<1>5. ASSUME NEW k \in Scanners PROVE ScannerOK(k)'
    <2>1. ScannerOK(k) /\ UNCHANGED <<firstSeen[k], refusals[k], denied[k], kernels[k], recent[k], proc>>
        BY DEF ScanInv, Still, scanVars
    <2>2. \A p \in Pids : PidOK(k, p)'
        BY <1>4, <2>1, PidKept DEF ScannerOK
    <2> QED BY <2>1, <2>2 DEF ScannerOK
<1>6. ScanDomains' /\ ~early'
    BY DEF ScanInv, ScanDomains, Still, scanVars
<1>7. CountInv'
    BY <1>1 DEF CountInv, Still, rowVars, PidsOf
<1> QED BY <1>3, <1>5, <1>6, <1>7 DEF ScanInv

LEMMA CountStep ==
    ASSUME CountInv, ProcInv, NEW rows, {r[1] : r \in rows} \subseteq Pids, Snapshot(rows), UNCHANGED proc
    PROVE  CountInv'
<1>1. Alive' = Alive
    BY DEF Alive
<1>2. listed' = rows /\ Counted({r[1] : r \in rows})
    BY DEF Snapshot
<1>3. DOMAIN counted' = Pids
    BY <1>2 DEF Counted
<1>4. \A p \in Pids : counted'[p] # 0 => p \in PidsOf(listed')
    BY <1>2 DEF Counted, PidsOf
<1>5. \A p \in Alive : counted'[p] # 0 => proc[p].number = counted'[p]
    BY <1>2 DEF Counted, Recount, Alive
<1>6. ASSUME NEW p \in {r[1] : r \in rows}, counted[p] # 0 PROVE proc[p].number \in {0, counted[p]}
    <2>1. p \in Pids
        OBVIOUS
    <2> QED BY <2>1, <1>6 DEF Alive, CountInv, ProcInv
<1>7. ~mixed'
    BY <1>2, <1>6 DEF Counted, CountInv
<1> QED
    BY <1>1, <1>3, <1>4, <1>5, <1>7 DEF CountInv

\* What the tools listed is of pids and cards of the host.
TakenInv == \A x \in taken : x[1] \in Pids /\ x[2] \in Usable

LEMMA PairsOfPids ==
    ASSUME NEW pids, pids \subseteq Pids, ProcInv
    PROVE  \A x \in Pairs(pids) : x[1] \in Pids /\ x[2] \in Usable
<1> SUFFICES ASSUME NEW x \in Pairs(pids) PROVE x[1] \in Pids /\ x[2] \in Usable
    OBVIOUS
<1>1. x[1] \in pids /\ x[2] \in proc[x[1]].cards
    BY DEF Pairs
<1> QED BY <1>1 DEF ProcInv

LEMMA TickBegins ==
    ASSUME ProcInv, TakenInv, ProcessTick
    PROVE  /\ TakenInv'
           /\ UNCHANGED <<hostProcs, hostVars, collector, useKfd, windowsPdhGpu, source, running, uuidOf, buses, rowVars, scanVars>>
           /\ collector \in {"nvidia", "pdh"} => UNCHANGED <<smiAge, smiCards>>
<1>1. UNCHANGED <<hostProcs, hostVars, collector, useKfd, windowsPdhGpu, source, running, uuidOf, buses, rowVars, scanVars>>
    BY DEF ProcessTick, AmdTickBegins, NvidiaTickBegins, PdhTickBegins, hostAndSource
<1>2. Usable' = Usable
    BY <1>1 DEF Usable, hostVars
<1>3. Alive \subseteq Pids /\ KfdPids \subseteq Pids
    BY DEF Alive, KfdPids
<1>4. \A x \in taken' : x \in taken \/ x \in Pairs(KfdPids) \/ x \in Pairs(Alive)
    BY DEF ProcessTick, AmdTickBegins, SmiListed, NvidiaTickBegins, PdhTickBegins
<1>5. TakenInv'
    BY <1>2, <1>3, <1>4, PairsOfPids DEF TakenInv
<1>6. collector \in {"nvidia", "pdh"} => UNCHANGED <<smiAge, smiCards>>
    BY DEF ProcessTick, AmdTickBegins, NvidiaTickBegins, PdhTickBegins
<1> QED BY <1>1, <1>5, <1>6

-----------------------------------------------------------------------------
FamilyCards == IF collector = "intel" THEN machine.intel ELSE machine.amd
Named(scheme, family) == {Uuid(scheme, c) : c \in family}

\* The samples' uuids by the source and the cards of the machine alone.
Identities(s, m) ==
    IF s = "nvidia-smi" THEN Named("GPU", m.nvidia)
    ELSE IF s = "pdh" THEN Named("PDH", m.amd \cup m.intel \cup m.nvidia)
    ELSE IF s \in {"rocm-smi", "amdgpu"} THEN Named("ROCm", m.amd)
    ELSE IF s = "intel" THEN Named("Intel", m.intel)
    ELSE {}

LEMMA UuidsOfSamples == SampledUuids = Identities(source, machine)
<1>1. /\ \A c \in machine.nvidia : NvidiaSample(c).uuid = Uuid("GPU", c)
      /\ \A c \in machine.amd : RocmSample(c).uuid = Uuid("ROCm", c) /\ SysfsSample(c).uuid = Uuid("ROCm", c)
      /\ \A c \in machine.intel : IntelSample(c, TRUE).uuid = Uuid("Intel", c)
      /\ \A c \in PdhAdapters(TRUE) : PdhSample(c).uuid = Uuid("PDH", c)
    BY DEF NvidiaSample, RocmSample, SysfsSample, IntelSample, PdhSample, Sample
<1>2. PdhAdapters(TRUE) = machine.amd \cup machine.intel \cup machine.nvidia
    BY DEF PdhAdapters
<1>3. {NvidiaSample(c).uuid : c \in machine.nvidia} = Named("GPU", machine.nvidia)
    BY <1>1 DEF Named
<1>4. {PdhSample(c).uuid : c \in PdhAdapters(TRUE)} = Named("PDH", machine.amd \cup machine.intel \cup machine.nvidia)
    BY <1>1, <1>2 DEF Named
<1>5. {RocmSample(c).uuid : c \in machine.amd} = Named("ROCm", machine.amd)
    BY <1>1 DEF Named
<1>6. {SysfsSample(c).uuid : c \in machine.amd} = Named("ROCm", machine.amd)
    BY <1>1 DEF Named
<1>7. {IntelSample(c, TRUE).uuid : c \in machine.intel} = Named("Intel", machine.intel)
    BY <1>1 DEF Named
<1> QED BY <1>3, <1>4, <1>5, <1>6, <1>7 DEF SampledUuids, Identities

\* The rows name cards of the source: RowsOnCards, row by row.
RowsNamed == source # "none" => \A r \in listed : r[2] \in Identities(source, machine)

\* The boot joins a collector of processes to a source of the same cards.
JoinInv ==
    /\ phase # "down" => vendor \in {"nvidia", "amd", "intel", "apple"}
    /\ Booting => source = "none"
    /\ collector = "nvidia" => source \in {"none", "nvidia-smi"}
    /\ collector = "amd" => source \in {"none", "rocm-smi", "amdgpu"}
    /\ collector = "intel" => source \in {"none", "intel"}
    /\ collector = "pdh" => source \in {"none", IF windowsPdhGpu THEN "pdh" ELSE "nvidia-smi"}
    /\ useKfd => AmdgpuCards # {} /\ collector # "intel"

\* What a collector keeps between two lists is of the cards it serves.
KeptInv ==
    /\ Booting => listed = {} /\ taken = {} /\ buses = {"unread"} /\ DOMAIN uuidOf = {} /\ smiCards = {}
    /\ \A a \in DOMAIN uuidOf : uuidOf[a] \in Named("GPU", machine.nvidia)
    /\ TakenInv
    /\ Scans => /\ taken # {} => UsesSmi /\ smiCards # {}
                /\ smiCards \subseteq machine.amd
                /\ \/ buses = {"unread"}
                   \/ buses \subseteq FamilyCards /\ (useKfd => buses # {})

\* A row of the AMD and Intel collectors is of a card of the family.
LEMMA AmdRowsOnCards ==
    ASSUME NEW kfd \in SUBSET Pids, NEW known \in SUBSET FamilyCards, kfd # {} => known # {}
    PROVE  \A r \in AmdRows(kfd, known) : r[1] \in Pids /\ r[2] \in Named(Scheme, FamilyCards)
<1>1. PICK readable : /\ readable = {p \in Opened("processes") : proc[p].readable /\ Held(p) # {}}
                      /\ AmdRows(kfd, known) = UNION {RowsOf(p, readable, FirstOf(known)) : p \in kfd \cup readable}
    BY DEF AmdRows
<1>2. readable \subseteq Pids /\ \A p \in readable : Held(p) # {}
    BY <1>1 DEF Opened, Alive
<1>3. ASSUME NEW p \in kfd \cup readable, NEW r \in RowsOf(p, readable, FirstOf(known))
      PROVE  r[1] \in Pids /\ r[2] \in Named(Scheme, FamilyCards)
    <2>1. PICK own, c : /\ own = IF useKfd \/ p \in readable THEN Held(p) ELSE {}
                        /\ c \in (IF own = {} THEN {FirstOf(known)} ELSE own)
                        /\ r = <<p, Uuid(Scheme, c)>>
        BY DEF RowsOf
    <2>2. c \in FamilyCards
        <3>1. CASE own # {}
            BY <2>1, <3>1 DEF Held, FamilyCards
        <3>2. CASE own = {}
            <4>1. p \in kfd
                BY <1>2, <2>1, <3>2
            <4>2. FirstOf(known) \in known
                BY <4>1 DEF FirstOf
            <4> QED BY <2>1, <3>2, <4>2
        <3> QED BY <3>1, <3>2
    <2> QED BY <1>2, <2>1, <2>2 DEF Named
<1> QED BY <1>1, <1>3

\* The rows of the maps from adapters to uuids.
LEMMA MergedOnCards ==
    ASSUME NEW map, \A a \in DOMAIN map : map[a] \in Named("GPU", machine.nvidia), TakenInv
    PROVE  \A r \in MergedRows(map) : r[1] \in Pids /\ r[2] \in Named("GPU", machine.nvidia)
BY DEF MergedRows, TakenInv

\* A lookup keeps or replaces the map.
LEMMA LookupOnCards ==
    ASSUME KeptInv, NEW map, \A a \in DOMAIN map : map[a] \in Named("GPU", machine.nvidia), LookedUp(map)
    PROVE  \A a \in DOMAIN uuidOf' : uuidOf'[a] \in Named("GPU", machine.nvidia)
<1>1. uuidOf' \in {uuidOf, map}
    BY DEF LookedUp
<1> QED BY <1>1 DEF KeptInv

AgentInv == ChildInv /\ ListInv /\ ProcInv /\ ScanInv /\ CountInv /\ JoinInv /\ KeptInv /\ RowsNamed

LEMMA VendorResolved ==
    ASSUME NEW tools PROVE ResolveVendor(tools) \in {"nvidia", "amd", "intel", "apple"}
<1>1. ParseGpuVendor \in {"nvidia", "amd", "intel", "apple", "auto"}
    BY DEF ParseGpuVendor
<1> QED BY <1>1 DEF ResolveVendor

\* What the collectors keep, but for what is under way.
lastVars == <<collector, useKfd, windowsPdhGpu, taken, scanVars, mapVars, rowVars>>

\* Steps that leave the lists, the collectors and the processes alone.
LEMMA FrameKeeps ==
    ASSUME AgentInv, UNCHANGED <<source, running, hostProcs, machine>>, UNCHANGED lastVars, bound => bound',
           Booting' => Booting,
           phase' # "down" => vendor' \in {"nvidia", "amd", "intel", "apple"}
    PROVE  ListInv' /\ ProcInv' /\ ScanInv' /\ CountInv' /\ JoinInv' /\ KeptInv' /\ RowsNamed'
<1> USE DEF AgentInv
<1>1. ProcInv' /\ ScanInv' /\ CountInv'
    <2>1. AtWork' = AtWork /\ collector' = collector
        BY DEF AtWork, lastVars
    <2> QED BY <2>1, StillKeeps DEF Still, hostProcs, lastVars
<1>2. ListInv'
    BY DEF ListInv, lastVars
<1>3. JoinInv'
    BY DEF JoinInv, lastVars, AmdgpuCards, Sysfs
<1>4. TakenInv'
    BY DEF TakenInv, KeptInv, lastVars, Usable
<1>5. UsesSmi' = UsesSmi /\ FamilyCards' = FamilyCards /\ (Scans' <=> Scans)
    BY DEF UsesSmi, FamilyCards, Scans, lastVars
<1>6. KeptInv'
    BY <1>4, <1>5 DEF KeptInv, lastVars, mapVars, rowVars
<1>7. RowsNamed'
    BY DEF RowsNamed, lastVars, rowVars
<1> QED BY <1>1, <1>2, <1>3, <1>6, <1>7

\* A tick of the collector begins.
LEMMA BeginKeeps ==
    ASSUME AgentInv, Working, ProcessTick, UNCHANGED bootVars
    PROVE  ListInv' /\ ProcInv' /\ ScanInv' /\ CountInv' /\ JoinInv' /\ KeptInv' /\ RowsNamed'
<1> USE DEF AgentInv
<1>1. /\ TakenInv'
      /\ UNCHANGED <<hostProcs, hostVars, collector, useKfd, windowsPdhGpu, source, running, uuidOf, buses, rowVars, scanVars>>
      /\ UNCHANGED <<phase, vendor>>
    BY TickBegins DEF KeptInv, bootVars
<1>2. ~Booting /\ ~Booting'
    BY <1>1 DEF Working, Booting
<1>3. ProcInv' /\ ScanInv' /\ CountInv'
    <2>1. AtWork' = AtWork
        BY <1>1 DEF AtWork
    <2> QED BY <1>1, <1>2, <2>1, StillKeeps DEF Still, hostProcs, hostVars
<1>4. ListInv'
    BY <1>1, <1>2 DEF ListInv
<1>5. JoinInv'
    BY <1>1, <1>2 DEF JoinInv, hostVars, AmdgpuCards, Sysfs
<1>6. RowsNamed'
    BY <1>1 DEF RowsNamed, hostVars, rowVars
<1>7. Scans => (taken' # {} => UsesSmi /\ smiCards' # {}) /\ smiCards' \subseteq machine.amd
    <2> SUFFICES ASSUME Scans PROVE (taken' # {} => UsesSmi /\ smiCards' # {}) /\ smiCards' \subseteq machine.amd
        OBVIOUS
    <2>1. AmdTickBegins
        BY DEF Scans, ProcessTick, NvidiaTickBegins, PdhTickBegins
    <2>2. CASE ~UsesSmi
        BY <2>1, <2>2 DEF AmdTickBegins, KeptInv
    <2>3. CASE UsesSmi /\ smiAge < SmiRefresh
        BY <2>1, <2>3 DEF AmdTickBegins, SmiListed, KeptInv
    <2>4. CASE UsesSmi /\ ~(smiAge < SmiRefresh)
        <3>1. PICK ok \in BOOLEAN : taken' = (IF ok THEN Pairs(KfdPids) ELSE {}) /\ smiCards' = (IF ok THEN AmdgpuCards ELSE {})
            BY <2>1, <2>4 DEF AmdTickBegins, SmiListed
        <3>2. AmdgpuCards \subseteq machine.amd
            BY DEF AmdgpuCards, Sysfs
        <3>3. Pairs(KfdPids) # {} => AmdgpuCards # {}
            BY DEF Pairs, KfdPids, Alive, ProcInv
        <3> QED BY <3>1, <3>2, <3>3, <2>4
    <2> QED BY <2>2, <2>3, <2>4
<1>8. UsesSmi' = UsesSmi /\ FamilyCards' = FamilyCards /\ (Scans' <=> Scans)
    BY <1>1 DEF UsesSmi, FamilyCards, Scans, hostVars
<1>9. KeptInv'
    BY <1>1, <1>2, <1>7, <1>8 DEF KeptInv, hostVars
<1> QED BY <1>3, <1>4, <1>5, <1>6, <1>9

\* It ends: the list is made.
LEMMA EndKeeps ==
    ASSUME AgentInv, Working, ProcessTickEnds, UNCHANGED bootVars
    PROVE  ListInv' /\ ProcInv' /\ ScanInv' /\ CountInv' /\ JoinInv' /\ KeptInv' /\ RowsNamed'
<1> USE DEF AgentInv
<1>1. UNCHANGED <<proc, started, collector, useKfd, windowsPdhGpu, source, running, hostVars, phase, vendor>>
    BY DEF ProcessTickEnds, hostAndSource, bootVars
<1>2. ~Booting /\ ~Booting'
    BY <1>1 DEF Working, Booting
<1>3. /\ UsesSmi' = UsesSmi /\ FamilyCards' = FamilyCards /\ (Scans' <=> Scans)
      /\ Alive' = Alive /\ Usable' = Usable /\ AmdgpuCards' = AmdgpuCards
    BY <1>1 DEF UsesSmi, FamilyCards, Scans, hostVars, Alive, Usable, AmdgpuCards, Sysfs
<1>4. ProcInv' /\ ListInv' /\ JoinInv'
    BY <1>1, <1>2, <1>3 DEF ProcInv, ListInv, JoinInv
<1>5. CASE Scans
    <2>1. AmdTickEnds
        BY <1>5 DEF ProcessTickEnds, NvidiaTickEnds, PdhTickEnds, Scans
    <2>2. Scanned("processes") /\ UNCHANGED <<taken, smiAge, smiCards, uuidOf, mapAge>>
        BY <2>1 DEF AmdTickEnds
    <2>3. ScanInv'
        <3>1. "processes" \in Scanners /\ "processes" \in AtWork
            BY <1>5 DEF Scanners, AtWork, Scans
        <3> QED BY <1>1, <1>2, <1>5, <2>2, <3>1, ScanStep
    <2>4. PICK kfd, known :
            /\ kfd = IF useKfd THEN KfdPids ELSE PidsOf(taken)
            /\ known = IF UsesSmi /\ smiCards # {} THEN smiCards ELSE buses'
            /\ Snapshot(AmdRows(kfd, known))
        BY <2>1 DEF AmdTickEnds
    <2>5. BusIds \subseteq FamilyCards /\ (useKfd => BusIds # {})
        BY <1>5 DEF BusIds, FamilyCards, IntelCards, AmdgpuCards, Sysfs, JoinInv, Scans
    <2>6. \/ buses' = {"unread"}
          \/ buses' \subseteq FamilyCards /\ (useKfd => buses' # {})
        BY <1>5, <2>1, <2>5 DEF AmdTickEnds, CardBuses, KeptInv
    <2>7. ~(UsesSmi /\ smiCards # {}) => buses' \subseteq FamilyCards /\ (useKfd => buses' # {})
        BY <1>5, <2>1, <2>5 DEF AmdTickEnds, CardBuses, KeptInv
    <2>8. UsesSmi => smiCards \subseteq FamilyCards /\ ~useKfd
        BY <1>5 DEF UsesSmi, FamilyCards, KeptInv
    <2>9. known \in SUBSET FamilyCards
        BY <2>4, <2>7, <2>8
    <2>10. kfd \in SUBSET Pids
        BY <2>4 DEF KfdPids, Alive, PidsOf, KeptInv, TakenInv
    <2>11. kfd # {} => known # {}
        <3>1. CASE useKfd
            BY <3>1, <2>4, <2>7, <2>8
        <3>2. CASE ~useKfd
            <4>1. kfd # {} => taken # {}
                BY <2>4, <3>2 DEF PidsOf
            <4> QED BY <4>1, <2>4, <1>5 DEF KeptInv
        <3> QED BY <3>1, <3>2
    <2>12. \A r \in AmdRows(kfd, known) : r[1] \in Pids /\ r[2] \in Named(Scheme, FamilyCards)
        BY <2>9, <2>10, <2>11, AmdRowsOnCards
    <2>13. CountInv'
        BY <1>1, <2>4, <2>12, CountStep
    <2>14. source # "none" => Named(Scheme, FamilyCards) = Identities(source, machine)
        BY <1>5 DEF Scans, JoinInv, Scheme, FamilyCards, Identities
    <2>15. listed' = AmdRows(kfd, known)
        BY <2>4 DEF Snapshot
    <2>16. RowsNamed'
        BY <1>1, <2>12, <2>14, <2>15 DEF RowsNamed, hostVars
    <2>17. TakenInv'
        BY <1>3, <2>2 DEF TakenInv, KeptInv
    <2>18. KeptInv'
        BY <1>1, <1>2, <1>3, <1>5, <2>2, <2>6, <2>17 DEF KeptInv, hostVars
    <2> QED BY <1>4, <2>3, <2>13, <2>16, <2>18
<1>6. CASE collector \in {"nvidia", "pdh"}
    <2>1. NvidiaTickEnds \/ PdhTickEnds
        BY <1>6 DEF ProcessTickEnds, AmdTickEnds
    <2>2. taken' = {} /\ UNCHANGED <<smiCards, buses>> /\ ListedWithoutScan
        BY <2>1 DEF NvidiaTickEnds, PdhTickEnds
    <2>3. ScanInv'
        BY <1>1, <1>6, <2>2, NoScanStep
    <2>4. PICK rows : /\ Snapshot(rows)
                      /\ \A r \in rows : r[1] \in Pids
                      /\ source # "none" => \A r \in rows : r[2] \in Identities(source, machine)
                      /\ \A a \in DOMAIN uuidOf' : uuidOf'[a] \in Named("GPU", machine.nvidia)
        <3>1. CASE collector = "nvidia"
            <4>1. PICK map : /\ map = [c \in machine.nvidia |-> Uuid("GPU", c)]
                             /\ LookedUp(map) /\ Snapshot(MergedRows(uuidOf'))
                BY <2>1, <3>1 DEF NvidiaTickEnds, PdhTickEnds
            <4>2. \A a \in DOMAIN map : map[a] \in Named("GPU", machine.nvidia)
                BY <4>1 DEF Named
            <4>3. \A a \in DOMAIN uuidOf' : uuidOf'[a] \in Named("GPU", machine.nvidia)
                BY <4>1, <4>2, LookupOnCards
            <4>4. \A r \in MergedRows(uuidOf') : r[1] \in Pids /\ r[2] \in Named("GPU", machine.nvidia)
                BY <4>3, MergedOnCards DEF KeptInv
            <4>5. source # "none" => Named("GPU", machine.nvidia) = Identities(source, machine)
                BY <3>1 DEF JoinInv, Identities
            <4> QED BY <4>1, <4>3, <4>4, <4>5
        <3>2. CASE collector = "pdh" /\ windowsPdhGpu
            <4>1. PICK rows : /\ rows = {<<x[1], Uuid("PDH", x[2])>> : x \in taken}
                              /\ Snapshot(rows) /\ uuidOf' = uuidOf
                BY <2>1, <3>2 DEF NvidiaTickEnds, PdhTickEnds, PdhOnly
            <4>2. Usable \subseteq machine.amd \cup machine.intel \cup machine.nvidia
                BY DEF Usable
            <4>3. \A r \in rows : r[1] \in Pids /\ r[2] \in Named("PDH", machine.amd \cup machine.intel \cup machine.nvidia)
                BY <4>1, <4>2 DEF KeptInv, TakenInv, Named
            <4>4. source # "none" => Identities(source, machine) = Named("PDH", machine.amd \cup machine.intel \cup machine.nvidia)
                BY <3>2 DEF JoinInv, Identities
            <4> QED BY <4>1, <4>3, <4>4 DEF KeptInv
        <3>3. CASE collector = "pdh" /\ ~windowsPdhGpu
            <4>1. PICK m \in AdapterMatches : LookedUp([a \in DOMAIN m |-> Uuid("GPU", m[a])]) /\ Snapshot(MergedRows(uuidOf'))
                BY <2>1, <3>3 DEF NvidiaTickEnds, PdhTickEnds, PdhOnly
            <4>2. \A a \in DOMAIN m : m[a] \in machine.nvidia
                BY <4>1 DEF AdapterMatches, Injection
            <4>3. \A a \in DOMAIN [b \in DOMAIN m |-> Uuid("GPU", m[b])] :
                     [b \in DOMAIN m |-> Uuid("GPU", m[b])][a] \in Named("GPU", machine.nvidia)
                BY <4>2 DEF Named
            <4>4. \A a \in DOMAIN uuidOf' : uuidOf'[a] \in Named("GPU", machine.nvidia)
                BY <4>1, <4>3, LookupOnCards
            <4>5. \A r \in MergedRows(uuidOf') : r[1] \in Pids /\ r[2] \in Named("GPU", machine.nvidia)
                BY <4>4, MergedOnCards DEF KeptInv
            <4>6. source # "none" => Named("GPU", machine.nvidia) = Identities(source, machine)
                BY <3>3 DEF JoinInv, Identities
            <4> QED BY <4>1, <4>4, <4>5, <4>6
        <3> QED BY <1>6, <3>1, <3>2, <3>3
    <2>5. CountInv'
        BY <1>1, <2>4, CountStep
    <2>6. RowsNamed'
        BY <1>1, <2>4 DEF Snapshot, RowsNamed, hostVars
    <2>7. TakenInv'
        BY <2>2 DEF TakenInv
    <2>8. KeptInv'
        BY <1>1, <1>2, <1>3, <1>6, <2>4, <2>7 DEF KeptInv, hostVars, Scans
    <2> QED BY <1>4, <2>3, <2>5, <2>6, <2>8
<1>7. CASE collector = "none"
    BY <1>7 DEF ProcessTickEnds, AmdTickEnds, NvidiaTickEnds, PdhTickEnds
<1> QED BY <1>5, <1>6, <1>7 DEF ListInv, Scans

\* A process starts or ends.
LEMMA HostKeeps ==
    ASSUME AgentInv, Working, ProcessStarts \/ ProcessExits, UNCHANGED <<bootVars, hostVars, sourceVars>>
    PROVE  ListInv' /\ ProcInv' /\ ScanInv' /\ CountInv' /\ JoinInv' /\ KeptInv' /\ RowsNamed'
<1> USE DEF AgentInv
<1>1. /\ UNCHANGED <<collector, useKfd, windowsPdhGpu, inflight, taken, firstSeen, denied, kernels, early, mapVars, rowVars>>
      /\ UNCHANGED <<machine, bound, source, running, phase, vendor>>
    BY DEF ProcessStarts, ProcessExits, listVars, bootVars, hostVars, sourceVars
<1>2. /\ UsesSmi' = UsesSmi /\ FamilyCards' = FamilyCards /\ (Scans' <=> Scans) /\ (Booting' <=> Booting)
      /\ Usable' = Usable /\ AmdgpuCards' = AmdgpuCards /\ AtWork' = AtWork
    BY <1>1 DEF UsesSmi, FamilyCards, Scans, Booting, Usable, AmdgpuCards, Sysfs, AtWork
<1>3. JoinInv' /\ ListInv' /\ RowsNamed'
    BY <1>1, <1>2 DEF JoinInv, ListInv, RowsNamed, rowVars
<1>4. KeptInv'
    BY <1>1, <1>2 DEF KeptInv, TakenInv, mapVars, rowVars
<1>5. \A k \in Scanners : (Idle(k)' <=> Idle(k)) /\ \A p \in Pids : Fresh(k, p)' <=> Fresh(k, p)
    BY <1>1, <1>2 DEF Fresh, Idle
<1>6. CASE ProcessStarts
    <2>1. recent' = recent /\ AtWork # {}
        BY <1>6 DEF ProcessStarts
    <2>2. PICK p \in Pids \ Alive :
              /\ ~Known(p)
              /\ started' = started + 1
              /\ DOMAIN proc' = Pids
              /\ proc'[p].number = started' /\ proc'[p].cards \subseteq Usable
              /\ proc'[p].kfd => AmdgpuCards # {}
              /\ \A q \in Pids \ {p} : proc'[q] = proc[q]
              /\ Alive' = Alive \cup {p}
              /\ DOMAIN refusals' = Scanners
              /\ \A k \in Scanners : refusals'[k] = [refusals[k] EXCEPT ![p] = 0]
        BY <1>6, StartedProcess DEF ScanInv
    <2>3. ProcInv'
        BY <1>2, <2>2 DEF ProcInv
    <2>4. ASSUME NEW k \in Scanners PROVE ScannerOK(k)'
        <3>1. ScannerOK(k)
            BY DEF ScanInv
        <3>2. k \notin AtWork => Idle(k)
            BY <2>1 DEF Idle
        <3>3. k \in AtWork => p \notin recent[k]
            BY <2>2 DEF Known
        <3>4. Fresh(k, p)
            BY <2>1, <2>2, <3>1, <3>2, <3>3 DEF ScannerOK, PidOK
        <3>5. /\ DOMAIN refusals'[k] = Pids /\ refusals'[k][p] = 0
              /\ \A q \in Pids \ {p} : refusals'[k][q] = refusals[k][q]
            BY <2>2, <3>1 DEF ScannerOK
        <3>6. PidOK(k, p)'
            BY <1>1, <1>5, <2>2, <3>1, <3>4, <3>5 DEF ScannerOK, PidOK, Fresh
        <3>7. ASSUME NEW q \in Pids \ {p} PROVE PidOK(k, q)'
            BY <1>1, <1>2, <1>5, <2>1, <2>2, <3>1, <3>5 DEF ScannerOK, PidOK
        <3> QED BY <1>1, <3>1, <3>5, <3>6, <3>7 DEF ScannerOK
    <2>5. ScanInv'
        BY <1>1, <2>1, <2>2, <2>4 DEF ScanInv, ScanDomains
    <2>6. counted[p] = 0
        BY <2>2 DEF Known, CountInv, PidsOf
    <2>7. CountInv'
        <3>1. \A q \in Alive' : q # p => q \in Alive /\ proc'[q] = proc[q]
            BY <2>2 DEF Alive
        <3> QED BY <1>1, <2>6, <3>1 DEF CountInv, rowVars, PidsOf
    <2> QED BY <1>3, <1>4, <2>3, <2>5, <2>7
<1>7. CASE ProcessExits
    <2>1. UNCHANGED <<started, refusals>>
        BY <1>7 DEF ProcessExits
    <2>2. PICK p \in Alive :
              /\ recent' = [k \in Scanners |-> IF k \in AtWork THEN recent[k] \cup {p} ELSE recent[k]]
              /\ DOMAIN proc' = Pids
              /\ proc'[p] = Gone /\ Alive' = Alive \ {p}
              /\ \A q \in Pids \ {p} : proc'[q] = proc[q]
        BY <1>7, EndedProcess
    <2>3. Gone.number = 0 /\ Gone.cards = {} /\ ~Gone.kfd
        BY DEF Gone
    <2>4. ProcInv'
        BY <1>2, <2>1, <2>2, <2>3 DEF ProcInv
    <2>5. ASSUME NEW k \in Scanners PROVE ScannerOK(k)'
        <3>1. ScannerOK(k)
            BY DEF ScanInv
        <3>2. k \notin AtWork /\ AtWork # {} => Idle(k)
            BY DEF Idle
        <3>3. recent'[k] = IF k \in AtWork THEN recent[k] \cup {p} ELSE recent[k]
            BY <2>2
        <3>4. ASSUME NEW q \in Pids PROVE PidOK(k, q)'
            <4>1. PidOK(k, q)
                BY <3>1 DEF ScannerOK
            <4>2. q \in Alive' => q \in Alive /\ proc'[q] = proc[q]
                BY <2>2
            <4>3. q \notin Alive' => q \notin Alive \/ q = p
                BY <2>2
            <4>4. AtWork' # {} /\ q \notin Alive' /\ q \notin recent'[k] => Fresh(k, q)'
                BY <1>2, <1>5, <3>2, <3>3, <4>1, <4>3 DEF PidOK
            <4> QED BY <1>1, <1>5, <2>1, <4>1, <4>2, <4>4 DEF PidOK
        <3> QED BY <1>1, <2>1, <3>1, <3>4 DEF ScannerOK
    <2>6. ScanInv'
        BY <1>1, <2>1, <2>2, <2>5 DEF ScanInv, ScanDomains
    <2>7. CountInv'
        BY <1>1, <2>2 DEF CountInv, rowVars, PidsOf, Alive
    <2> QED BY <1>3, <1>4, <2>4, <2>6, <2>7
<1> QED BY <1>6, <1>7

\* A source s may be started with the counters or without.
Startable(s, counters) ==
    \/ s = "none"
    \/ s = "mock" /\ env.mock
    \/ s = "pdh" /\ machine.os = "win32" /\ counters
    \/ /\ s = Chosen /\ (counters <=> machine.os = "win32" /\ vendor # "nvidia")
       /\ \E tools \in SUBSET Tools : Available(Chosen, tools)

\* The collectors are joined as the samples' source is.
LEMMA ListFitsSource ==
    ASSUME NEW s, NEW counters \in BOOLEAN, Startable(s, counters), s # "none",
           vendor \in {"nvidia", "amd", "intel", "apple"}, ListChosen # "none"
    PROVE  \/ ListChosen = "nvidia" /\ s = "nvidia-smi"
           \/ ListChosen = "amd" /\ s \in {"rocm-smi", "amdgpu"}
           \/ ListChosen = "intel" /\ s = "intel"
           \/ ListChosen = "pdh" /\ s = IF counters THEN "pdh" ELSE "nvidia-smi"
<1>1. ~env.mock /\ machine.os # "darwin"
    BY DEF ListChosen
<1>2. CASE s = "pdh" /\ machine.os = "win32" /\ counters
    BY <1>1, <1>2 DEF ListChosen
<1>3. CASE s = Chosen /\ (counters <=> machine.os = "win32" /\ vendor # "nvidia")
    <2>1. ASSUME ~(s = "pdh" /\ machine.os = "win32" /\ counters)
          PROVE  \E tools \in SUBSET Tools : Available(Chosen, tools)
        BY <1>1, <2>1 DEF Startable
    <2>2. CASE vendor = "nvidia"
        <3>1. s = "nvidia-smi" /\ ~counters
            BY <1>3, <2>2 DEF Chosen
        <3> QED BY <1>1, <2>2, <3>1 DEF ListChosen
    <2>3. CASE vendor = "amd" /\ machine.os # "win32"
        <3>1. s \in {"rocm-smi", "amdgpu"}
            BY <1>3, <2>3 DEF Chosen
        <3> QED BY <1>1, <2>3, <3>1 DEF ListChosen
    <2>4. CASE vendor = "amd" /\ machine.os = "win32"
        <3>1. s = "pdh" /\ counters
            BY <1>3, <2>4 DEF Chosen
        <3> QED BY <1>1, <2>4, <3>1 DEF ListChosen
    <2>5. CASE vendor = "intel"
        <3>1. s = "intel" /\ Chosen = "intel"
            BY <1>3, <2>5 DEF Chosen
        <3>2. machine.os = "linux"
            BY <2>1, <3>1 DEF Available, IntelCards, Sysfs
        <3> QED BY <1>1, <2>5, <3>1, <3>2 DEF ListChosen
    <2>6. CASE vendor = "apple"
        <3>1. s = "powermetrics" /\ Chosen = "powermetrics"
            BY <1>3, <2>6 DEF Chosen
        <3> QED BY <1>1, <2>1, <3>1 DEF Available
    <2> QED BY <2>2, <2>3, <2>4, <2>5, <2>6
<1> QED BY <1>1, <1>2, <1>3 DEF Startable

LEMMA StartKeeps ==
    ASSUME AgentInv, Starts
    PROVE  ListInv' /\ ProcInv' /\ ScanInv' /\ CountInv' /\ JoinInv' /\ KeptInv' /\ RowsNamed'
<1> USE DEF AgentInv
<1>1. phase = "boot" /\ UNCHANGED <<vendor, machine, bound>>
    BY DEF Starts, hostVars
<1>2. Booting /\ source = "none" /\ collector = "none"
    BY <1>1 DEF Booting, JoinInv, ListInv
<1>3. vendor \in {"nvidia", "amd", "intel", "apple"}
    BY <1>1 DEF JoinInv
<1>4. CASE Exits
    <2>1. UNCHANGED <<source, running, hostProcs, scanVars, listVars>> /\ phase' = "down"
        BY <1>4 DEF Exits, processVars
    <2> QED BY <1>1, <1>2, <2>1, FrameKeeps DEF Booting, listVars, lastVars
<1>5. ASSUME NEW s, NEW counters \in BOOLEAN, StartsWith(s, counters), Startable(s, counters)
      PROVE  ListInv' /\ ProcInv' /\ ScanInv' /\ CountInv' /\ JoinInv' /\ KeptInv' /\ RowsNamed'
    <2>1. phase' = "running" /\ source' = s /\ ListStarts(ListChosen, counters)
        BY <1>2, <1>5 DEF StartsWith, StartSource
    <2>2. /\ UNCHANGED <<hostProcs, inflight, taken, scanVars, mapVars, rowVars>>
          /\ collector' \in {ListChosen, "none"}
          /\ useKfd' = (ListChosen = "amd" /\ KfdAvailable)
          /\ windowsPdhGpu' = counters
        BY <2>1 DEF ListStarts
    <2>3. ~Booting' /\ AmdgpuCards' = AmdgpuCards /\ Usable' = Usable
        BY <1>1, <2>1 DEF Booting, AmdgpuCards, Sysfs, Usable
    <2>4. ProcInv' /\ ScanInv' /\ CountInv'
        BY <1>1, <1>2, <2>2, StillKeeps DEF Still, hostProcs
    <2>5. ListChosen \in {"none", "nvidia", "amd", "intel", "pdh"}
        BY DEF ListChosen
    <2>6. ListInv'
        <3>1. source' # "none" => running'
            BY <1>2, <1>5 DEF StartsWith, StartSource
        <3> QED BY <2>2, <2>3, <2>5, <3>1 DEF ListInv
    <2>7. collector' # "none" /\ s # "none" =>
              \/ collector' = "nvidia" /\ s = "nvidia-smi"
              \/ collector' = "amd" /\ s \in {"rocm-smi", "amdgpu"}
              \/ collector' = "intel" /\ s = "intel"
              \/ collector' = "pdh" /\ s = IF counters THEN "pdh" ELSE "nvidia-smi"
        BY <1>3, <1>5, <2>2, ListFitsSource
    <2>8. useKfd' => AmdgpuCards # {} /\ collector' # "intel"
        BY <2>2 DEF KfdAvailable
    <2>9. JoinInv'
        BY <1>1, <1>3, <2>1, <2>2, <2>3, <2>7, <2>8 DEF JoinInv
    <2>10. /\ taken' = {} /\ buses' = {"unread"} /\ DOMAIN uuidOf' = {} /\ smiCards' = {} /\ listed' = {}
        BY <1>2, <2>2 DEF KeptInv, mapVars, rowVars
    <2>11. KeptInv'
        BY <2>10 DEF KeptInv, TakenInv
    <2>12. RowsNamed'
        BY <2>10 DEF RowsNamed
    <2> QED BY <2>4, <2>6, <2>9, <2>11, <2>12
<1>6. PICK tools \in SUBSET Tools :
        IF "gpu" \notin Features THEN StartsWith("none", machine.os = "win32" /\ vendor # "nvidia")
        ELSE IF env.mock THEN StartsWith("mock", FALSE)
        ELSE IF Available(Chosen, tools) THEN StartsWith(Chosen, machine.os = "win32" /\ vendor # "nvidia")
        ELSE IF machine.os = "win32" THEN StartsWith("pdh", TRUE)
        ELSE Exits
    BY DEF Starts
<1>7. PICK counters \in BOOLEAN : counters <=> machine.os = "win32" /\ vendor # "nvidia"
    OBVIOUS
<1>8. counters = (machine.os = "win32" /\ vendor # "nvidia")
    BY <1>7
<1>9. CASE "gpu" \notin Features
    BY <1>5, <1>6, <1>8, <1>9 DEF Startable
<1>10. CASE "gpu" \in Features /\ env.mock
    BY <1>5, <1>6, <1>10 DEF Startable
<1>11. CASE "gpu" \in Features /\ ~env.mock /\ Available(Chosen, tools)
    <2>1. StartsWith(Chosen, counters)
        BY <1>6, <1>8, <1>11
    <2>2. Startable(Chosen, counters)
        BY <1>7, <1>11 DEF Startable
    <2> QED BY <1>5, <2>1, <2>2
<1>12. CASE "gpu" \in Features /\ ~env.mock /\ ~Available(Chosen, tools)
    BY <1>4, <1>5, <1>6, <1>12 DEF Startable
<1> QED BY <1>9, <1>10, <1>11, <1>12

LEMMA StopKeeps ==
    ASSUME AgentInv, Stops
    PROVE  ListInv' /\ ProcInv' /\ ScanInv' /\ CountInv' /\ JoinInv' /\ KeptInv' /\ RowsNamed'
<1> USE DEF AgentInv
<1>1. /\ UNCHANGED <<vendor, hostVars, hostProcs, useKfd, windowsPdhGpu, inflight, taken, scanVars, mapVars, rowVars, source>>
      /\ phase' \in {"stopping", "off"} /\ collector' \in {"none", collector}
      /\ phase = "running" => collector' = "none"
    BY DEF Stops, StopSource, sourceVars
<1>2. phase # "down" /\ collector' = "none"
    BY <1>1 DEF Stops, ListInv, Booting
<1>3. ~Booting' /\ AmdgpuCards' = AmdgpuCards /\ Usable' = Usable
    BY <1>1 DEF Booting, AmdgpuCards, Sysfs, Usable, hostVars
<1>4. ProcInv' /\ ScanInv' /\ CountInv'
    <2>1. CASE phase = "running"
        <3>1. AtWork' = {}
            BY <1>2, <2>1 DEF Stops, StopSource, AtWork
        <3> QED BY <1>1, <1>2, <1>3, <3>1, StillKeeps DEF Still, hostProcs, hostVars
    <2>2. CASE phase = "boot"
        BY <1>1, <1>2, <1>3, <2>2, StillKeeps DEF Still, hostProcs, hostVars, Booting
    <2> QED BY <2>1, <2>2 DEF Stops
<1>5. ListInv' /\ JoinInv'
    BY <1>1, <1>2, <1>3 DEF ListInv, JoinInv
<1>6. KeptInv'
    BY <1>1, <1>2, <1>3 DEF KeptInv, TakenInv, Scans, mapVars, hostVars
<1>7. RowsNamed'
    BY <1>1 DEF RowsNamed, hostVars, rowVars
<1> QED BY <1>4, <1>5, <1>6, <1>7

\* A reading of the Intel cards ends, with the scan of its own.
LEMMA IntelKeeps ==
    ASSUME AgentInv, Working, IntelReads, UNCHANGED <<bootVars, started, listVars>>
    PROVE  ListInv' /\ ProcInv' /\ ScanInv' /\ CountInv' /\ JoinInv' /\ KeptInv' /\ RowsNamed'
<1> USE DEF AgentInv
<1>1. /\ UNCHANGED <<proc, started, hostVars, source, running, phase, vendor>> /\ source = "intel"
      /\ UNCHANGED <<collector, useKfd, windowsPdhGpu, taken, mapVars, rowVars>> /\ Scanned("samples")
    BY DEF IntelReads, bootVars, listVars
<1>2. ~Booting /\ ~Booting'
    BY <1>1 DEF Working, Booting
<1>3. Alive' = Alive /\ Usable' = Usable /\ AmdgpuCards' = AmdgpuCards
    BY <1>1 DEF hostVars, Alive, Usable, AmdgpuCards, Sysfs
<1>4. "samples" \in Scanners /\ (AtWork = {} \/ "samples" \in AtWork)
    BY <1>1 DEF Scanners, AtWork, ListInv
<1>5. ScanInv'
    BY <1>1, <1>2, <1>4, ScanStep
<1>6. ProcInv' /\ ListInv' /\ JoinInv' /\ RowsNamed'
    BY <1>1, <1>2, <1>3 DEF ProcInv, ListInv, JoinInv, RowsNamed, hostVars, rowVars
<1>7. CountInv'
    BY <1>1, <1>3 DEF CountInv, rowVars, PidsOf
<1>8. UsesSmi' = UsesSmi /\ FamilyCards' = FamilyCards /\ (Scans' <=> Scans)
    BY <1>1 DEF UsesSmi, FamilyCards, Scans, hostVars
<1>9. KeptInv'
    BY <1>1, <1>2, <1>3, <1>8 DEF KeptInv, TakenInv, mapVars, rowVars, hostVars
<1> QED BY <1>5, <1>6, <1>7, <1>9

-----------------------------------------------------------------------------
LEMMA AgentInitial == RuntimeInit => AgentInv
<1> SUFFICES ASSUME RuntimeInit PROVE AgentInv
    OBVIOUS
<1> USE DEF RuntimeInit, SourceInit, ListInit
<1>1. ChildInv /\ ListInv
    BY DEF ChildInv, ListInv
<1>2. \A p \in Pids : proc[p] = Gone
    BY DEF ScanInit
<1>3. Gone.number = 0 /\ Gone.cards = {} /\ ~Gone.kfd
    BY DEF Gone
<1>4. Alive = {}
    BY <1>2, <1>3 DEF Alive
<1>5. ProcInv
    BY <1>2, <1>3 DEF ProcInv, ScanInit
<1>6. ScanInv
    <2>1. \A k \in Scanners, p \in Pids : PidOK(k, p)
        BY <1>4, ScanConstantsOK DEF PidOK, Fresh, Unseen, ScanInit
    <2> QED BY <2>1 DEF ScanInv, ScanInit, ScannerOK, ScanDomains
<1>7. CountInv
    BY <1>4 DEF CountInv
<1>8. JoinInv /\ RowsNamed
    BY DEF JoinInv, RowsNamed
<1>9. KeptInv
    BY DEF KeptInv, TakenInv, Scans
<1> QED BY <1>1, <1>5, <1>6, <1>7, <1>8, <1>9 DEF AgentInv

LEMMA AgentStep == AgentInv /\ [RuntimeNext]_runtimeVars => AgentInv'
<1> SUFFICES ASSUME AgentInv, [RuntimeNext]_runtimeVars PROVE AgentInv'
    OBVIOUS
<1> SUFFICES ListInv' /\ ProcInv' /\ ScanInv' /\ CountInv' /\ JoinInv' /\ KeptInv' /\ RowsNamed'
    BY ChildStep DEF AgentInv
<1>1. CASE Boots
    <2>1. /\ UNCHANGED <<source, running, hostProcs, scanVars, listVars, machine, bound>> /\ phase = "down"
          /\ \E tools : vendor' = ResolveVendor(tools)
        BY <1>1 DEF Boots, hostVars, processVars
    <2> QED BY <2>1, FrameKeeps, VendorResolved DEF Booting, listVars, lastVars
<1>2. CASE Discovers
    <2>1. UNCHANGED <<source, running, hostProcs, scanVars, listVars, machine, bound, phase, vendor>>
        BY <1>2 DEF Discovers, hostVars, processVars
    <2> QED BY <2>1, FrameKeeps DEF Booting, AgentInv, JoinInv, listVars, lastVars
<1>3. CASE Starts
    BY <1>3, StartKeeps
<1>4. CASE Stops
    BY <1>4, StopKeeps
<1>5. CASE Ends
    <2>1. UNCHANGED <<source, running, hostProcs, scanVars, listVars, machine, bound, vendor>> /\ phase' = "off" /\ phase = "stopping"
        BY <1>5 DEF Ends, hostVars, sourceVars, processVars
    <2> QED BY <2>1, FrameKeeps DEF Booting, AgentInv, JoinInv, listVars, lastVars
<1>6. CASE Binds
    <2>1. UNCHANGED <<source, running, hostProcs, scanVars, listVars, machine, vendor, phase>> /\ bound'
        BY <1>6 DEF Binds, bootVars, sourceVars, processVars
    <2> QED BY <2>1, FrameKeeps DEF Booting, AgentInv, JoinInv, listVars, lastVars
<1>7. CASE Working /\ SourceNext /\ UNCHANGED <<bootVars, processVars>>
    <2>1. UNCHANGED <<hostProcs, scanVars, listVars, machine, bound, vendor, phase>>
        BY <1>7, SourceIsQuiet DEF Quiet, bootVars, hostVars
    <2>2. source' = source /\ running' = running
        <3>1. ASSUME NEW c, Line(c) PROVE UNCHANGED <<source, running>>
            BY <3>1 DEF Line
        <3>2. ASSUME FlushFires \/ LoopLine \/ ChildExits \/ ChildHangs \/ StaleCloses \/ RespawnFires
              PROVE  UNCHANGED <<source, running>>
            BY <3>2 DEF FlushFires, LoopLine, ChildExits, ChildHangs, StaleCloses, RespawnFires
        <3>3. ASSUME SourceTick \/ MockTick \/ ForkEnds \/ PcieRefreshed PROVE UNCHANGED <<source, running>>
            BY <3>3 DEF SourceTick, MockTick, ForkEnds, PcieRefreshed
        <3>4. ASSUME RocmReads \/ AmdgpuReads \/ ToolHangs PROVE UNCHANGED <<source, running>>
            BY <3>4 DEF RocmReads, AmdgpuReads, ToolHangs
        <3> QED BY <1>7, <3>1, <3>2, <3>3, <3>4 DEF SourceNext
    <2> QED BY <2>1, <2>2, FrameKeeps DEF Booting, AgentInv, JoinInv, listVars, lastVars
<1>8. CASE Working /\ (ProcessTick \/ ProcessTickEnds \/ ListToolHangs) /\ UNCHANGED bootVars
    <2>1. CASE ProcessTick
        BY <1>8, <2>1, BeginKeeps
    <2>2. CASE ProcessTickEnds
        BY <1>8, <2>2, EndKeeps
    <2>3. CASE ListToolHangs
        <3>1. /\ UNCHANGED <<source, running, hostProcs, collector, useKfd, windowsPdhGpu, taken, scanVars, mapVars, rowVars, machine, bound>>
              /\ UNCHANGED <<phase, vendor>>
            BY <1>8, <2>3 DEF ListToolHangs, hostAndSource, hostVars, bootVars
        <3> QED BY <3>1, FrameKeeps DEF Booting, AgentInv, JoinInv, lastVars
    <2> QED BY <1>8, <2>1, <2>2, <2>3
<1>9. CASE Working /\ (ProcessStarts \/ ProcessExits) /\ UNCHANGED <<bootVars, hostVars, sourceVars>>
    BY <1>9, HostKeeps
<1>10. CASE UNCHANGED runtimeVars
    <2>1. UNCHANGED <<source, running, hostProcs, scanVars, listVars, machine, bound, vendor, phase>>
        BY <1>10 DEF runtimeVars, bootVars, hostVars, sourceVars, processVars
    <2> QED BY <2>1, FrameKeeps DEF Booting, AgentInv, JoinInv, listVars, lastVars
<1>11. CASE Working /\ IntelReads /\ UNCHANGED <<bootVars, started, listVars>>
    BY <1>11, IntelKeeps
<1> QED
    BY <1>1, <1>2, <1>3, <1>4, <1>5, <1>6, <1>7, <1>8, <1>9, <1>10, <1>11 DEF RuntimeNext

LEMMA AgentInvariant == RuntimeSpec => []AgentInv
BY AgentInitial, AgentStep, PTL DEF RuntimeSpec

\* The agent never has a second child and none after it was stopped, and each of
\* its scans of fdinfo, that of the process list and that of the Intel samples,
\* opens no kernel thread, nobody just seen, and nobody twice that refused it
\* (gpu.ts, gpuWindowsPdh.ts, processesAmdgpuFdinfo.ts, gpuIntel.ts).
THEOREM AgentIsQuietHolds == RuntimeSpec => []AgentIsQuiet
<1>1. AgentInv => AgentIsQuiet
    BY DEF AgentInv, ChildInv, ScanInv, ScannerOK, PidOK, AgentIsQuiet, OneChild, ScanIsQuiet
<1> QED BY <1>1, AgentInvariant, PTL

\* The rows of processes name cards as the samples do, whichever collectors the
\* boot combined, and no percentage is computed from two processes that had the
\* same pid (index.ts, processes.ts, processesRocm.ts, processesWindowsPdh.ts).
THEOREM RowsTrueHolds == RuntimeSpec => []RowsTrue
<1>1. AgentInv => RowsTrue
    BY UuidsOfSamples DEF AgentInv, RowsNamed, CountInv, RowsTrue, RowsOnCards, OneProcessCounted
<1> QED BY <1>1, AgentInvariant, PTL

-----------------------------------------------------------------------------

(***************************************************************************)
(* The replay's clock.  A timeout is a session's own until the session     *)
(* ends: there is one at most, and when it fires the chunk before it has   *)
(* left the window, however late that chunk arrived.  So the wire and the  *)
(* window together hold one chunk of the session's own replay, one hello,  *)
(* one ping, and of each collector frames LivePeriod apart.                *)
(***************************************************************************)
Own(i) == i \in 1..Len(drainIn) /\ ~drainIn[i].stale

Timeouts == [in : 0..ReplayDelay, stale : BOOLEAN]
InOrder(timers) == \A i, j \in 1..Len(timers) : i < j => timers[i].in <= timers[j].in

ClocksOK ==
  /\ drainIn \in Seq(Timeouts)
  /\ Len(drainIn) = drains[Hub]
  /\ InOrder(drainIn)
  /\ pingIn \in Nat
  /\ liveIn \in [Collectors -> Nat]

OwnOK ==
  /\ \A i : Own(i) => welcomed[Hub]
  /\ \A i, j : Own(i) /\ Own(j) => i = j

(* The frames of a session, and what each waited. *)
Traffic == [of : Senders \cup Collectors, no : Nat, sent : 0..Reach, got : {OnTheWay} \cup (0..WindowTicks)]
Waited(f) == IF f.got = OnTheWay THEN f.sent <= MaxDelay ELSE f.sent <= f.got + MaxDelay

FramesOK ==
  /\ IsFiniteSet(frames)
  /\ frames \subseteq Traffic
  /\ \A f \in frames : Waited(f)

By(of) == {f \in frames : f.of = of}
Single(of) == \A f, g \in By(of) : f = g
Apart(of) == \A f, g \in By(of) : f # g => f.sent >= g.sent + LivePeriod \/ g.sent >= f.sent + LivePeriod

(* What keeps them few. *)
FewOK ==
  /\ Single("hello") /\ Single("ping")
  /\ Cardinality(By("own")) <= ReplayChunk
  /\ \A c \in Collectors : Apart(c)

(* What the timers still have to wait for, and the frames they sent before. *)
SpacedOK ==
  /\ \A f \in By("hello") \cup By("own") : welcomed[Hub]
  /\ \A f \in By("ping") : f.sent + pingIn >= PingPeriod
  /\ \A i : Own(i) => \A f \in By("own") : f.sent + drainIn[i].in >= ReplayDelay
  /\ \A c \in Collectors : \A f \in By(c) : f.sent + liveIn[c] >= LivePeriod

PacedInv == ClocksOK /\ OwnOK /\ FramesOK /\ FewOK /\ SpacedOK

LEMMA Lengths ==
  /\ Hub \in Hubs
  /\ {ReplayDelay, WindowTicks, RateLimit, LivePeriod, PingPeriod, ReplayChunk} \subseteq Nat \ {0}
  /\ MaxDelay \in Nat /\ Reach \in Nat /\ Reach = WindowTicks + MaxDelay
  /\ IsFiniteSet(Collectors) /\ Collectors \cap Senders = {}
BY ConstantsOK, PacingConstantsOK DEF ConstantsOK, PacingConstantsOK, Reach

LEMMA FrameFacts ==
  ASSUME FramesOK
  PROVE  \A f \in frames : /\ f.sent \in 0..Reach /\ f.sent \in Nat /\ f.no \in Nat
                           /\ f.of \in Senders \cup Collectors
                           /\ f.got = OnTheWay \/ f.got \in 0..WindowTicks
                           /\ f = [of |-> f.of, no |-> f.no, sent |-> f.sent, got |-> f.got]
<1> SUFFICES ASSUME NEW f \in frames
             PROVE  /\ f.sent \in 0..Reach /\ f.sent \in Nat /\ f.no \in Nat
                    /\ f.of \in Senders \cup Collectors
                    /\ f.got = OnTheWay \/ f.got \in 0..WindowTicks
                    /\ f = [of |-> f.of, no |-> f.no, sent |-> f.sent, got |-> f.got]
  OBVIOUS
<1>1. f \in Traffic
  BY DEF FramesOK
<1>2. f.sent \in 0..Reach /\ f.no \in Nat /\ f.of \in Senders \cup Collectors /\ f.got \in {OnTheWay} \cup (0..WindowTicks)
  BY <1>1 DEF Traffic
<1>3. f = [of |-> f.of, no |-> f.no, sent |-> f.sent, got |-> f.got]
  BY <1>1 DEF Traffic
<1> QED BY <1>2, <1>3, Lengths

-----------------------------------------------------------------------------

(* Division into periods: two ages in the same period are less than one apart. *)
LEMMA Periods ==
  \A p \in Nat \ {0}, a \in Nat : a \div p \in Nat /\ p * (a \div p) <= a /\ a < p * (a \div p) + p
OBVIOUS

LEMMA SamePeriod ==
  ASSUME NEW p \in Nat \ {0}, NEW a \in Nat, NEW b \in Nat, a \div p = b \div p
  PROVE  a < b + p
<1>1. p * (a \div p) \in Int
  OBVIOUS
<1> QED BY <1>1, Periods

LEMMA LaterPeriod ==
  ASSUME NEW p \in Nat \ {0}, NEW a \in Nat, NEW b \in Nat, a <= b
  PROVE  a \div p <= b \div p
<1> DEFINE k == a \div p
           l == b \div p
<1>1. k \in Nat /\ l \in Nat /\ p * k <= b /\ b < p * l + p
  BY Periods
<1> HIDE DEF k, l
<1>2. p * k < p * (l + 1)
  BY <1>1
<1>3. \A u, v \in Int : p * u < p * v => u < v
  OBVIOUS
<1> QED BY <1>1, <1>2, <1>3 DEF k, l

(* One kind at a time: a frame of hello, one of the ping, a chunk, and of    *)
(* every collector one frame for each period the window and the delay touch. *)
LEMMA SingleCount ==
  ASSUME FramesOK, NEW of, Single(of) PROVE IsFiniteSet(By(of)) /\ Cardinality(By(of)) \in 0..1
<1>1. IsFiniteSet(By(of))
  BY FS_Subset DEF FramesOK, By
<1>2. CASE By(of) = {}
  BY <1>1, <1>2, FS_EmptySet
<1>3. CASE By(of) # {}
  <2>1. PICK f : f \in By(of)
    BY <1>3
  <2>2. By(of) = {f}
    BY <2>1 DEF Single
  <2> QED BY <1>1, <2>2, FS_Singleton
<1> QED BY <1>2, <1>3

Live == {f \in frames : f.of \in Collectors}
Room == 1 + Reach \div LivePeriod

LEMMA LiveCount ==
  ASSUME FramesOK, \A c \in Collectors : Apart(c)
  PROVE  IsFiniteSet(Live) /\ Cardinality(Live) \in Nat /\ Cardinality(Live) <= Cardinality(Collectors) * Room
<1> DEFINE lastPlace == Reach \div LivePeriod
           place == [f \in Live |-> <<f.of, f.sent \div LivePeriod>>]
           places == Collectors \X (0..lastPlace)
<1>1. lastPlace \in Nat /\ Room = lastPlace + 1
  BY Periods, Lengths DEF Room
<1>2. IsFiniteSet(0..lastPlace) /\ Cardinality(0..lastPlace) = Room
  <2>1. lastPlace \in Int /\ 0 \in Int /\ ~(0 > lastPlace) /\ lastPlace - 0 + 1 = Room
    BY <1>1
  <2> HIDE DEF lastPlace
  <2> QED BY <2>1, FS_Interval
<1> HIDE DEF lastPlace
<1>3. IsFiniteSet(places) /\ Cardinality(places) = Cardinality(Collectors) * Room
  BY <1>2, FS_Product, Lengths
<1>4. \A f \in Live : f.of \in Collectors /\ f.sent \div LivePeriod \in 0..lastPlace
  <2> SUFFICES ASSUME NEW f \in Live PROVE f.of \in Collectors /\ f.sent \div LivePeriod \in 0..lastPlace
    OBVIOUS
  <2>1. f.sent \in Nat /\ f.sent <= Reach /\ f.of \in Collectors
    BY FrameFacts, Lengths DEF Live
  <2>2. f.sent \div LivePeriod <= Reach \div LivePeriod /\ f.sent \div LivePeriod \in Nat
    BY <2>1, LaterPeriod, Periods, Lengths
  <2> QED BY <1>1, <2>1, <2>2 DEF lastPlace
<1>5. place \in [Live -> places]
  BY <1>4
<1>6. ASSUME NEW f \in Live, NEW g \in Live, place[f] = place[g] PROVE f = g
  <2>1. f.of = g.of /\ f.sent \div LivePeriod = g.sent \div LivePeriod
    BY <1>6
  <2>2. f.sent \in Nat /\ g.sent \in Nat /\ f.of \in Collectors /\ LivePeriod \in Nat \ {0}
    BY FrameFacts, Lengths DEF Live
  <2>3. f.sent < g.sent + LivePeriod /\ g.sent < f.sent + LivePeriod
    BY <2>1, <2>2, SamePeriod
  <2>4. f \in By(f.of) /\ g \in By(f.of)
    BY <2>1 DEF Live, By
  <2>5. ~(f.sent >= g.sent + LivePeriod) /\ ~(g.sent >= f.sent + LivePeriod)
    BY <2>2, <2>3
  <2> QED BY <2>2, <2>4, <2>5 DEF Apart
<1>7. place \in Injection(Live, places)
  <2> HIDE DEF place
  <2> QED BY <1>5, <1>6 DEF Injection, IsInjective
<1>8. IsFiniteSet(Live) /\ Cardinality(Live) <= Cardinality(places)
  <2> HIDE DEF place, places
  <2> QED BY <1>3, <1>7, FS_Injection
<1>9. Cardinality(Live) \in Nat
  BY <1>8, FS_CardinalityType
<1> QED BY <1>3, <1>8, <1>9

LEMMA UnionCount ==
  ASSUME NEW S, NEW T, IsFiniteSet(S), IsFiniteSet(T)
  PROVE  /\ IsFiniteSet(S \cup T) /\ Cardinality(S \cup T) \in Nat
         /\ Cardinality(S \cup T) <= Cardinality(S) + Cardinality(T)
<1>1. IsFiniteSet(S \cup T) /\ Cardinality(S \cup T) = Cardinality(S) + Cardinality(T) - Cardinality(S \cap T)
  BY FS_Union
<1>2. IsFiniteSet(S \cap T)
  BY FS_Intersection
<1>3. Cardinality(S) \in Nat /\ Cardinality(T) \in Nat /\ Cardinality(S \cap T) \in Nat /\ Cardinality(S \cup T) \in Nat
  BY <1>1, <1>2, FS_CardinalityType
<1> QED BY <1>1, <1>3

LEMMA FewAreWithin == ASSUME PacingRoom, FramesOK, FewOK PROVE OwnReplayWithinLimit
<1> SUFFICES ASSUME \A f \in messageWindow : f.of # "stale"
             PROVE  Cardinality(messageWindow) <= RateLimit
  <2>1. IsFiniteSet(messageWindow)
    BY FS_Subset DEF FramesOK, messageWindow
  <2>2. Cardinality(messageWindow) \in Nat
    BY <2>1, FS_CardinalityType
  <2> QED BY <2>2, Lengths DEF OwnReplayWithinLimit, OverLimit
<1> DEFINE greet == By("hello") \cup By("ping")
           told == greet \cup By("own")
           all == told \cup Live
<1>1. messageWindow \subseteq all
  <2> SUFFICES ASSUME NEW f \in messageWindow PROVE f \in all
    OBVIOUS
  <2>1. f \in frames /\ f.of \in Senders \cup Collectors /\ f.of # "stale"
    BY FrameFacts DEF messageWindow
  <2> QED BY <2>1 DEF Senders, By, Live
<1>2. IsFiniteSet(By("own"))
  BY FS_Subset DEF FramesOK, By
<1>3. Cardinality(By("own")) \in Nat /\ Cardinality(By("own")) <= ReplayChunk
  BY <1>2, FS_CardinalityType DEF FewOK
<1>4. /\ IsFiniteSet(By("hello")) /\ Cardinality(By("hello")) \in 0..1
      /\ IsFiniteSet(By("ping")) /\ Cardinality(By("ping")) \in 0..1
  BY SingleCount DEF FewOK
<1>5. IsFiniteSet(greet) /\ Cardinality(greet) \in Nat /\ Cardinality(greet) <= 2
  BY <1>4, UnionCount
<1> HIDE DEF greet
<1>6. IsFiniteSet(told) /\ Cardinality(told) \in Nat /\ Cardinality(told) <= 2 + ReplayChunk
  BY <1>2, <1>3, <1>5, UnionCount, Lengths
<1> HIDE DEF told
<1>7. IsFiniteSet(Live) /\ Cardinality(Live) \in Nat /\ Cardinality(Live) <= Cardinality(Collectors) * Room
  BY LiveCount DEF FewOK
<1> DEFINE most == Cardinality(Collectors) * Room
<1>8. most \in Nat /\ RateLimit >= 2 + ReplayChunk + most
  <2>1. Cardinality(Collectors) \in Nat
    BY Lengths, FS_CardinalityType
  <2>2. Room \in Nat
    BY Periods, Lengths DEF Room
  <2> QED BY <2>1, <2>2 DEF PacingRoom, Room
<1>9. Cardinality(Live) <= most
  BY <1>7
<1> HIDE DEF most
<1>10. IsFiniteSet(all) /\ Cardinality(all) \in Nat /\ Cardinality(all) <= 2 + ReplayChunk + most
  <2>1. IsFiniteSet(all) /\ Cardinality(all) \in Nat /\ Cardinality(all) <= Cardinality(told) + Cardinality(Live)
    BY <1>6, <1>7, UnionCount
  <2> QED BY <1>6, <1>7, <1>8, <1>9, <2>1, Lengths
<1> HIDE DEF all
<1>11. IsFiniteSet(messageWindow) /\ Cardinality(messageWindow) <= Cardinality(all)
  BY <1>1, <1>10, FS_Subset
<1>12. Cardinality(messageWindow) \in Nat
  BY <1>11, FS_CardinalityType
<1> QED BY <1>8, <1>10, <1>11, <1>12, Lengths

-----------------------------------------------------------------------------

(* Frames that are counted, or grow older, keep what makes them few. *)
LEMMA Moved ==
  ASSUME FramesOK, FewOK, NEW S \in SUBSET frames, NEW h \in [S -> Traffic], NEW d \in {0, 1},
         \A f \in S : h[f].of = f.of /\ h[f].sent = f.sent + d /\ Waited(h[f]),
         frames' = {h[f] : f \in S}
  PROVE  /\ FramesOK' /\ FewOK'
         /\ \A of : \A g \in By(of)' : \E f \in By(of) : g.sent = f.sent + d
<1>1. h \in Surjection(S, frames')
  BY DEF Surjection
<1>2. IsFiniteSet(S)
  BY FS_Subset DEF FramesOK
<1>3. FramesOK'
  <2>1. IsFiniteSet(frames')
    BY <1>1, <1>2, FS_Surjection
  <2>2. \A g \in frames' : g \in Traffic /\ Waited(g)
    OBVIOUS
  <2> QED BY <2>1, <2>2 DEF FramesOK
<1>4. \A of : \A g \in By(of)' : \E f \in By(of) : f \in S /\ g = h[f] /\ g.sent = f.sent + d
  BY DEF By
<1>5. \A f \in frames : f.sent \in Nat
  BY FrameFacts
<1>6. ASSUME NEW of, Single(of) PROVE Single(of)'
  <2> SUFFICES ASSUME NEW g1 \in By(of)', NEW g2 \in By(of)' PROVE g1 = g2
    BY DEF Single
  <2>1. PICK f1 \in By(of) : g1 = h[f1]
    BY <1>4
  <2>2. PICK f2 \in By(of) : g2 = h[f2]
    BY <1>4
  <2> QED BY <1>6, <2>1, <2>2 DEF Single
<1>7. ASSUME NEW of, Apart(of) PROVE Apart(of)'
  <2> SUFFICES ASSUME NEW g1 \in By(of)', NEW g2 \in By(of)', g1 # g2
               PROVE  g1.sent >= g2.sent + LivePeriod \/ g2.sent >= g1.sent + LivePeriod
    BY DEF Apart
  <2>1. PICK f1 \in By(of) : g1 = h[f1] /\ g1.sent = f1.sent + d
    BY <1>4
  <2>2. PICK f2 \in By(of) : g2 = h[f2] /\ g2.sent = f2.sent + d
    BY <1>4
  <2>3. f1.sent >= f2.sent + LivePeriod \/ f2.sent >= f1.sent + LivePeriod
    BY <1>7, <2>1, <2>2 DEF Apart
  <2>4. f1.sent \in Nat /\ f2.sent \in Nat
    BY <1>5 DEF By
  <2> QED BY <2>1, <2>2, <2>3, <2>4, Lengths
<1>8. Cardinality(By("own"))' <= ReplayChunk
  <2> DEFINE T == {f \in S : f.of = "own"}
             T2 == {g \in frames' : g.of = "own"}
             k == [f \in T |-> h[f]]
  <2>1. k \in Surjection(T, T2)
    <3>1. \A f \in T : h[f] \in T2
      OBVIOUS
    <3>2. \A g \in T2 : \E f \in T : g = h[f]
      OBVIOUS
    <3> HIDE DEF T, T2
    <3> QED BY <3>1, <3>2 DEF Surjection
  <2>2. IsFiniteSet(T) /\ T \subseteq By("own")
    BY <1>2, FS_Subset DEF By
  <2>3. IsFiniteSet(By("own"))
    BY FS_Subset DEF FramesOK, By
  <2> HIDE DEF k, T
  <2>4. Cardinality(T2) <= Cardinality(T) /\ IsFiniteSet(T2)
    BY <2>1, <2>2, FS_Surjection
  <2>5. Cardinality(T) <= Cardinality(By("own"))
    BY <2>2, <2>3, FS_Subset
  <2>6. Cardinality(T) \in Nat /\ Cardinality(T2) \in Nat /\ Cardinality(By("own")) \in Nat
    BY <2>2, <2>3, <2>4, FS_CardinalityType
  <2>7. Cardinality(T2) <= ReplayChunk
    BY <2>4, <2>5, <2>6, Lengths DEF FewOK
  <2> QED BY <2>7 DEF By
<1>9. FewOK'
  BY <1>6, <1>7, <1>8 DEF FewOK
<1> QED BY <1>3, <1>4, <1>9

(* Frames handed over are new on the wire. *)
JustHanded(S, of) ==
  /\ IsFiniteSet(S)
  /\ \A f \in S : f \in Traffic /\ f.of = of /\ f.sent = 0 /\ f.got = OnTheWay

LEMMA FrameIs ==
  ASSUME NEW of \in Senders \cup Collectors, NEW no \in Nat
  PROVE  /\ Frame(of, no) \in Traffic
         /\ Frame(of, no).of = of /\ Frame(of, no).sent = 0 /\ Frame(of, no).got = OnTheWay
BY Lengths DEF Frame, Traffic

LEMMA FreshOne ==
  ASSUME NEW of \in Senders \cup Collectors, NEW no \in Nat
  PROVE  JustHanded({Frame(of, no)}, of)
<1>1. IsFiniteSet({Frame(of, no)})
  BY FS_Singleton
<1>2. \A f \in {Frame(of, no)} : f \in Traffic /\ f.of = of /\ f.sent = 0 /\ f.got = OnTheWay
  BY FrameIs
<1> QED BY <1>1, <1>2 DEF JustHanded

LEMMA HandedIs ==
  ASSUME NEW of \in Senders \cup Collectors, NEW news \in SUBSET Nat, IsFiniteSet(news),
         news = sent'[Hub] \ sent[Hub]
  PROVE  JustHanded(Handed(of), of) /\ Cardinality(Handed(of)) <= Cardinality(news)
<1> DEFINE k == [no \in news |-> Frame(of, no)]
<1>1. Handed(of) = {Frame(of, no) : no \in news}
  BY DEF Handed
<1>2. k \in Surjection(news, Handed(of))
  BY <1>1 DEF Surjection
<1> HIDE DEF k
<1>3. IsFiniteSet(Handed(of)) /\ Cardinality(Handed(of)) <= Cardinality(news)
  BY <1>2, FS_Surjection
<1> QED BY <1>1, <1>3, FrameIs DEF JustHanded

LEMMA Grown ==
  ASSUME FramesOK, NEW S, NEW of, JustHanded(S, of), frames' = frames \cup S
  PROVE  /\ FramesOK'
         /\ By(of)' = By(of) \cup S
         /\ \A o : o # of => By(o)' = By(o)
<1>1. IsFiniteSet(frames')
  BY FS_Union DEF FramesOK, JustHanded
<1>2. \A f \in S : Waited(f)
  BY Lengths DEF JustHanded, Waited
<1>3. FramesOK'
  BY <1>1, <1>2 DEF FramesOK, JustHanded
<1> QED BY <1>3 DEF By, JustHanded

LEMMA Unchanged ==
  ASSUME FramesOK, FewOK, UNCHANGED frames
  PROVE  FramesOK' /\ FewOK' /\ \A of : By(of)' = By(of)
BY DEF FramesOK, FewOK, By, Single, Apart

(* A drain hands over a chunk at most. *)
LEMMA HandedByDrain ==
  ASSUME TypeOK, NEW others \in Nat, NEW was, NEW heard,
         DrainChunk(Hub, others, was, heard)
  PROVE  /\ drains'[Hub] \in {others, others + 1}
         /\ \A of \in Senders \cup Collectors :
              JustHanded(Handed(of), of) /\ Cardinality(Handed(of)) <= ReplayChunk
<1> DEFINE n == ChunkSize(Hub)
           b == buffer[Hub]
           c == SubSeq(b, 1, n)
           news == sent'[Hub] \ sent[Hub]
<1>1. n \in 0..Len(b) /\ n <= ReplayChunk /\ c \in Seq(Nat \ {0}) /\ Len(b) \in Nat
  BY ChunkType, LenProperties, Lengths DEF TypeOK
<1>2. Len(c) = n
  BY <1>1, LenProperties, SubSeqProperties, Lengths DEF TypeOK
<1>3. /\ sent'[Hub] = sent[Hub] \cup Frames(c)
      /\ drains'[Hub] \in {others, others + 1}
  BY Lengths DEF DrainChunk, DrainOutcome, TypeOK
<1> HIDE DEF n, c, b
<1>4. Frames(c) = {c[i] : i \in 1..n} /\ \A i \in 1..n : c[i] \in Nat
  <2>1. \A i \in 1..n : c[i] \in Nat \ {0}
    BY <1>1, <1>2, ElementOfSeq
  <2> QED BY <1>2, <2>1 DEF Frames
<1> DEFINE f == [i \in 1..n |-> c[i]]
<1>5. f \in Surjection(1..n, Frames(c))
  BY <1>4 DEF Surjection
<1>6. IsFiniteSet(1..n) /\ Cardinality(1..n) = n
  BY <1>1, FS_Interval
<1>7. IsFiniteSet(Frames(c)) /\ Cardinality(Frames(c)) <= n
  <2> HIDE DEF f
  <2> QED BY <1>5, <1>6, FS_Surjection
<1>8. news \subseteq Frames(c) /\ news \in SUBSET Nat
  BY <1>3, <1>4
<1>9. IsFiniteSet(news) /\ Cardinality(news) <= Cardinality(Frames(c))
  <2> HIDE DEF news
  <2> QED BY <1>7, <1>8, FS_Subset
<1>10. Cardinality(news) \in Nat /\ Cardinality(Frames(c)) \in Nat
  BY <1>7, <1>9, FS_CardinalityType
<1>11. ASSUME NEW of \in Senders \cup Collectors
       PROVE  JustHanded(Handed(of), of) /\ Cardinality(Handed(of)) <= ReplayChunk
  <2>1. JustHanded(Handed(of), of) /\ Cardinality(Handed(of)) <= Cardinality(news)
    <3>1. news = sent'[Hub] \ sent[Hub]
      OBVIOUS
    <3> HIDE DEF news
    <3> QED BY <1>8, <1>9, <3>1, HandedIs
  <2>2. Cardinality(Handed(of)) \in Nat
    BY <2>1, FS_CardinalityType DEF JustHanded
  <2> HIDE DEF news
  <2> QED BY <1>1, <1>7, <1>9, <1>10, <2>1, <2>2, Lengths
<1> QED BY <1>3, <1>11

LEMMA HandedByNobody ==
  ASSUME UNCHANGED sent PROVE \A of : Handed(of) = {}
BY DEF Handed
LEMMA TimerFacts ==
  ASSUME ClocksOK
  PROVE  /\ Len(drainIn) \in Nat /\ (drainIn = <<>> <=> Len(drainIn) = 0)
         /\ \A i \in 1..Len(drainIn) : drainIn[i] \in Timeouts
         /\ \A i \in 1..Len(drainIn) : drainIn[i].in \in 0..ReplayDelay /\ drainIn[i].stale \in BOOLEAN
<1>1. Len(drainIn) \in Nat /\ (drainIn = <<>> <=> Len(drainIn) = 0)
  BY LenProperties, EmptySeq DEF ClocksOK
<1>2. \A i \in 1..Len(drainIn) : drainIn[i] \in Timeouts
  BY ElementOfSeq DEF ClocksOK
<1> QED BY <1>1, <1>2 DEF Timeouts

(* A timeout armed now is due last. *)
LEMMA Armed ==
  ASSUME NEW timers \in Seq(Timeouts), InOrder(timers), NEW old \in BOOLEAN
  PROVE  /\ Append(timers, Timeout(old)) \in Seq(Timeouts)
         /\ Len(Append(timers, Timeout(old))) = Len(timers) + 1
         /\ \A i \in 1..Len(timers) : Append(timers, Timeout(old))[i] = timers[i]
         /\ Append(timers, Timeout(old))[Len(timers) + 1] = [in |-> ReplayDelay, stale |-> old]
         /\ InOrder(Append(timers, Timeout(old)))
<1> DEFINE t == Timeout(old)
           a == Append(timers, t)
<1>1. t = [in |-> ReplayDelay, stale |-> old] /\ t \in Timeouts /\ t.in = ReplayDelay
  BY Lengths DEF Timeout, Timeouts
<1>2. Len(timers) \in Nat /\ \A i \in 1..Len(timers) : timers[i].in \in 0..ReplayDelay
  <2>1. Len(timers) \in Nat /\ \A i \in 1..Len(timers) : timers[i] \in Timeouts
    BY LenProperties, ElementOfSeq
  <2> QED BY <2>1 DEF Timeouts
<1> HIDE DEF t
<1>3. /\ a \in Seq(Timeouts)
      /\ Len(a) = Len(timers) + 1
      /\ \A i \in 1..Len(timers) : a[i] = timers[i]
      /\ a[Len(timers) + 1] = t
  BY <1>1, AppendProperties
<1> HIDE DEF a
<1>4. ASSUME NEW i \in 1..Len(a), NEW j \in 1..Len(a), i < j
      PROVE  a[i].in <= a[j].in
  <2>1. i \in 1..Len(timers)
    BY <1>2, <1>3, <1>4
  <2>2. CASE j \in 1..Len(timers)
    BY <1>3, <1>4, <2>1, <2>2 DEF InOrder
  <2>3. CASE j \notin 1..Len(timers)
    <3>1. j = Len(timers) + 1
      BY <1>2, <1>3, <2>3
    <3>2. a[j].in = ReplayDelay /\ a[i].in \in 0..ReplayDelay
      BY <1>1, <1>2, <1>3, <2>1, <3>1
    <3> QED BY <3>2, Lengths
  <2> QED BY <2>2, <2>3
<1>5. InOrder(a)
  BY <1>4 DEF InOrder
<1> QED BY <1>1, <1>3, <1>5 DEF a, t

LEMMA HeadGone ==
  ASSUME ClocksOK, drainIn # <<>>
  PROVE  /\ Tail(drainIn) \in Seq(Timeouts)
         /\ Len(Tail(drainIn)) = Len(drainIn) - 1
         /\ \A i \in 1..(Len(drainIn) - 1) : Tail(drainIn)[i] = drainIn[i + 1]
         /\ InOrder(Tail(drainIn))
         /\ Head(drainIn) = drainIn[1]
<1>1. /\ Tail(drainIn) \in Seq(Timeouts)
      /\ Len(Tail(drainIn)) = Len(drainIn) - 1
      /\ \A i \in 1..Len(Tail(drainIn)) : Tail(drainIn)[i] = drainIn[i + 1]
      /\ Head(drainIn) = drainIn[1]
  BY HeadTailProperties DEF ClocksOK
<1>2. Len(drainIn) \in Nat
  BY TimerFacts
<1>3. InOrder(Tail(drainIn))
  <2> SUFFICES ASSUME NEW i \in 1..Len(Tail(drainIn)), NEW j \in 1..Len(Tail(drainIn)), i < j
               PROVE  Tail(drainIn)[i].in <= Tail(drainIn)[j].in
    BY DEF InOrder
  <2>1. i + 1 \in 1..Len(drainIn) /\ j + 1 \in 1..Len(drainIn) /\ i + 1 < j + 1
    BY <1>1, <1>2
  <2> QED BY <1>1, <2>1 DEF ClocksOK, InOrder
<1> QED BY <1>1, <1>3

(* What a drain timeout that fires leaves of the timers: those behind it,    *)
(* and itself again, last, while frames remain.                              *)
LEMMA TimersAfterDrain ==
  ASSUME TypeOK, PacedInv, DrainTimed
  PROVE  /\ ClocksOK' /\ OwnOK'
         /\ \A i : Own(i)' =>
              \/ Own(i + 1)
              \/ Own(1) /\ drains'[Hub] = drains[Hub] /\ drainIn'[i].in = ReplayDelay
<1> DEFINE l == Len(drainIn)
           rearmed == drains'[Hub] = drains[Hub]
<1>1. /\ drainIn # <<>> /\ DrainFires(Hub) /\ drains[Hub] > 0 /\ drains[Hub] \in Nat
      /\ UNCHANGED <<liveIn, pingIn, welcomed>>
      /\ drainIn' = IF rearmed
                    THEN Append(Tail(drainIn), Timeout(Head(drainIn).stale)) ELSE Tail(drainIn)
  BY Lengths DEF DrainTimed, DrainFires, TypeOK
<1>2. ClocksOK /\ OwnOK
  BY DEF PacedInv
<1>3. drains'[Hub] \in {drains[Hub] - 1, drains[Hub]}
  <2>1. CASE IsOpen(Hub)
    <3>1. DrainChunk(Hub, drains[Hub] - 1, replaying[Hub], welcomed[Hub])
      BY <1>1, <2>1 DEF DrainFires
    <3>2. drains[Hub] - 1 \in Nat /\ replaying[Hub] \in BOOLEAN /\ welcomed[Hub] \in BOOLEAN
      BY <1>1, Lengths DEF TypeOK
    <3>3. drains'[Hub] \in {drains[Hub] - 1, drains[Hub] - 1 + 1}
      BY <3>1, <3>2, HandedByDrain
    <3> QED BY <1>1, <3>3
  <2>2. CASE ~IsOpen(Hub)
    BY <1>1, <2>2, Lengths DEF DrainFires, TypeOK
  <2> QED BY <2>1, <2>2
<1>4. /\ l \in Nat \ {0} /\ l = drains[Hub]
      /\ \A i \in 1..l : drainIn[i].in \in 0..ReplayDelay /\ drainIn[i].stale \in BOOLEAN
  BY <1>1, <1>2, TimerFacts DEF ClocksOK
<1>5. /\ Tail(drainIn) \in Seq(Timeouts)
      /\ Len(Tail(drainIn)) = l - 1
      /\ \A i \in 1..(l - 1) : Tail(drainIn)[i] = drainIn[i + 1]
      /\ InOrder(Tail(drainIn))
      /\ Head(drainIn) = drainIn[1] /\ Head(drainIn).stale \in BOOLEAN
  BY <1>1, <1>2, <1>4, HeadGone
<1>6. /\ drainIn' \in Seq(Timeouts)
      /\ Len(drainIn') = drains'[Hub]
      /\ \A i \in 1..(l - 1) : drainIn'[i] = drainIn[i + 1]
      /\ rearmed => drainIn'[l] = [in |-> ReplayDelay, stale |-> drainIn[1].stale]
      /\ InOrder(drainIn')
  <2>1. CASE rearmed
    <3>1. drainIn' = Append(Tail(drainIn), Timeout(Head(drainIn).stale))
      BY <1>1, <2>1
    <3>2. /\ drainIn' \in Seq(Timeouts)
          /\ Len(drainIn') = Len(Tail(drainIn)) + 1
          /\ \A i \in 1..Len(Tail(drainIn)) : drainIn'[i] = Tail(drainIn)[i]
          /\ drainIn'[Len(Tail(drainIn)) + 1] = [in |-> ReplayDelay, stale |-> Head(drainIn).stale]
          /\ InOrder(drainIn')
      BY <1>5, <3>1, Armed
    <3>3. Len(Tail(drainIn)) + 1 = l
      BY <1>4, <1>5
    <3> QED BY <1>4, <1>5, <2>1, <3>2, <3>3
  <2>2. CASE ~rearmed
    BY <1>1, <1>3, <1>4, <1>5, <2>2
  <2> QED BY <2>1, <2>2
<1>7. ClocksOK'
  BY <1>1, <1>2, <1>6 DEF ClocksOK, InOrder
<1>8. ASSUME NEW i, Own(i)'
      PROVE  \/ i \in 1..(l - 1) /\ Own(i + 1)
             \/ i = l /\ Own(1) /\ rearmed /\ drainIn'[i].in = ReplayDelay
  <2>1. i \in 1..drains'[Hub] /\ ~drainIn'[i].stale
    BY <1>6, <1>8 DEF Own
  <2>2. CASE i \in 1..(l - 1)
    <3>1. i + 1 \in 1..l /\ drainIn'[i] = drainIn[i + 1]
      BY <1>4, <1>6, <2>2
    <3> QED BY <2>1, <2>2, <3>1 DEF Own
  <2>3. CASE i \notin 1..(l - 1)
    <3>1. i = l /\ rearmed
      BY <1>3, <1>4, <2>1, <2>3
    <3>2. drainIn'[i] = [in |-> ReplayDelay, stale |-> drainIn[1].stale] /\ 1 \in 1..l
      BY <1>4, <1>6, <3>1
    <3>3. drainIn'[i].in = ReplayDelay /\ ~drainIn[1].stale
      BY <2>1, <3>2
    <3> QED BY <3>1, <3>2, <3>3 DEF Own
  <2> QED BY <2>2, <2>3
<1>9. OwnOK'
  <2>1. ASSUME NEW i, Own(i)' PROVE welcomed'[Hub]
    BY <1>1, <1>2, <1>8, <2>1 DEF OwnOK
  <2>2. ASSUME NEW i, NEW j, Own(i)', Own(j)' PROVE i = j
    <3>1. i \in 1..l /\ j \in 1..l
      BY <1>4, <1>8, <2>2
    <3>2. (Own(i + 1) \/ Own(1)) /\ (Own(j + 1) \/ Own(1))
      BY <1>8, <2>2
    <3>3. \A m, n : Own(m) /\ Own(n) => m = n
      BY <1>2 DEF OwnOK
    <3>4. CASE i = l
      <4>1. Own(1)
        BY <1>4, <1>8, <2>2, <3>4
      <4>2. ~(j \in 1..(l - 1) /\ Own(j + 1))
        BY <1>4, <3>3, <4>1
      <4> QED BY <1>8, <2>2, <3>4, <4>2
    <3>5. CASE i # l
      <4>1. i \in 1..(l - 1) /\ Own(i + 1)
        BY <1>8, <2>2, <3>5
      <4>2. ~Own(1)
        BY <1>4, <3>3, <4>1
      <4>3. j \in 1..(l - 1) /\ Own(j + 1)
        BY <1>8, <2>2, <4>2
      <4>4. i + 1 = j + 1
        BY <3>3, <4>1, <4>3
      <4> QED BY <1>4, <4>1, <4>3, <4>4
    <3> QED BY <3>4, <3>5
  <2> QED BY <2>1, <2>2 DEF OwnOK
<1> QED BY <1>7, <1>8, <1>9


-----------------------------------------------------------------------------

(* A collector's next frame comes LivePeriod after the one before it.        *)
LEMMA PacedLiveTick ==
  ASSUME TypeOK, PacedInv, NEW c \in Collectors, LiveTick(c) PROVE PacedInv'
<1>1. /\ UNCHANGED <<drainIn, pingIn, drains, welcomed>>
      /\ liveIn[c] = 0 /\ liveIn' = [liveIn EXCEPT ![c] = LivePeriod]
      /\ frames' = frames \cup Handed(c)
      /\ Broadcast
  BY DEF LiveTick, Broadcast, replay
<1>2. ClocksOK /\ OwnOK /\ FramesOK /\ FewOK /\ SpacedOK
  BY DEF PacedInv
<1>3. JustHanded(Handed(c), c) /\ (\A f, g \in Handed(c) : f = g)
  <2> DEFINE news == sent'[Hub] \ sent[Hub]
  <2>1. news \subseteq {nextFrame} /\ nextFrame \in Nat
    BY <1>1, Lengths DEF Broadcast, TypeOK
  <2>2. IsFiniteSet(news) /\ news \in SUBSET Nat
    <3>1. IsFiniteSet({nextFrame})
      BY FS_Singleton
    <3> HIDE DEF news
    <3> QED BY <2>1, <3>1, FS_Subset
  <2>3. JustHanded(Handed(c), c)
    <3>1. news = sent'[Hub] \ sent[Hub]
      OBVIOUS
    <3> HIDE DEF news
    <3> QED BY <2>2, <3>1, HandedIs
  <2>4. \A f, g \in Handed(c) : f = g
    BY <2>1 DEF Handed
  <2> QED BY <2>3, <2>4
<1>4. c \notin Senders
  BY Lengths
<1>5. FramesOK' /\ By(c)' = By(c) \cup Handed(c) /\ \A o : o # c => By(o)' = By(o)
  BY <1>1, <1>2, <1>3, Grown
<1>6. \A o \in Senders : By(o)' = By(o)
  BY <1>4, <1>5
<1>7. \A f \in By(c) : f.sent \in Nat /\ f.sent >= LivePeriod
  <2>1. \A f \in By(c) : f.sent \in Nat
    BY <1>2, FrameFacts DEF By
  <2>2. \A f \in By(c) : f.sent + liveIn[c] >= LivePeriod
    BY <1>2 DEF SpacedOK
  <2> QED BY <1>1, <2>1, <2>2
<1>8. ClocksOK'
  BY <1>1, <1>2, Lengths DEF ClocksOK
<1>9. OwnOK'
  BY <1>1, <1>2 DEF OwnOK, Own
<1>10. FewOK'
  <2>1. /\ Single("hello")' /\ Single("ping")' /\ Cardinality(By("own"))' <= ReplayChunk
    BY <1>2, <1>6 DEF FewOK, Single, Senders
  <2>2. Apart(c)'
    <3> SUFFICES ASSUME NEW f \in By(c)', NEW g \in By(c)', f # g
                 PROVE  f.sent >= g.sent + LivePeriod \/ g.sent >= f.sent + LivePeriod
      BY DEF Apart
    <3>1. CASE f \in By(c) /\ g \in By(c)
      BY <1>2, <3>1 DEF FewOK, Apart
    <3>2. CASE f \in By(c) /\ g \in Handed(c)
      BY <1>3, <1>7, <3>2, Lengths DEF JustHanded
    <3>3. CASE f \in Handed(c) /\ g \in By(c)
      BY <1>3, <1>7, <3>3, Lengths DEF JustHanded
    <3> QED BY <1>3, <1>5, <3>1, <3>2, <3>3
  <2>3. \A o \in Collectors \ {c} : Apart(o)'
    BY <1>2, <1>5 DEF FewOK, Apart
  <2> QED BY <2>1, <2>2, <2>3 DEF FewOK
<1>11. SpacedOK'
  <2>1. \A f \in By("hello")' \cup By("own")' : welcomed'[Hub]
    BY <1>1, <1>2, <1>6 DEF SpacedOK, Senders
  <2>2. \A f \in By("ping")' : f.sent + pingIn' >= PingPeriod
    BY <1>1, <1>2, <1>6 DEF SpacedOK, Senders
  <2>3. \A i : Own(i)' => \A f \in By("own")' : f.sent + drainIn'[i].in >= ReplayDelay
    BY <1>1, <1>2, <1>6 DEF SpacedOK, Senders, Own
  <2>4. \A f \in By(c)' : f.sent + liveIn'[c] >= LivePeriod
    <3>1. liveIn'[c] = LivePeriod
      BY <1>1, <1>2 DEF ClocksOK
    <3> QED BY <1>3, <1>5, <1>7, <3>1, Lengths DEF JustHanded
  <2>5. \A o \in Collectors \ {c} : \A f \in By(o)' : f.sent + liveIn'[o] >= LivePeriod
    BY <1>1, <1>2, <1>5 DEF SpacedOK, ClocksOK
  <2> QED BY <2>1, <2>2, <2>3, <2>4, <2>5 DEF SpacedOK
<1> QED BY <1>5, <1>8, <1>9, <1>10, <1>11 DEF PacedInv

(* The ping before has left the window when the interval fires again.        *)
LEMMA PacedPingTimed ==
  ASSUME PacingRoom, TypeOK, PacedInv, PingTimed PROVE PacedInv'
<1>1. /\ UNCHANGED <<drainIn, liveIn, drains, welcomed>>
      /\ pingIn = 0 /\ pingIn' = PingPeriod
      /\ frames' = frames \/ frames' = frames \cup {Frame("ping", 0)}
  BY DEF PingTimed, vars, replay, history
<1>2. ClocksOK /\ OwnOK /\ FramesOK /\ FewOK /\ SpacedOK
  BY DEF PacedInv
<1>3. By("ping") = {}
  <2> SUFFICES ASSUME NEW f \in By("ping") PROVE FALSE
    OBVIOUS
  <2>1. f.sent \in Nat /\ f.sent <= Reach
    BY <1>2, FrameFacts, Lengths DEF By
  <2>2. f.sent + pingIn >= PingPeriod
    BY <1>2 DEF SpacedOK
  <2> QED BY <1>1, <2>1, <2>2, Lengths DEF PacingRoom
<1>4. PICK S : JustHanded(S, "ping") /\ (\A f, g \in S : f = g) /\ frames' = frames \cup S
  <2>1. CASE frames' = frames
    <3>1. JustHanded({}, "ping") /\ frames' = frames \cup {}
      BY <2>1, FS_EmptySet DEF JustHanded
    <3> QED BY <3>1
  <2>2. CASE frames' = frames \cup {Frame("ping", 0)}
    <3>1. JustHanded({Frame("ping", 0)}, "ping")
      BY FreshOne DEF Senders
    <3> QED BY <2>2, <3>1
  <2> QED BY <1>1, <2>1, <2>2
<1>5. FramesOK' /\ By("ping")' = S /\ \A o : o # "ping" => By(o)' = By(o)
  <2>1. FramesOK' /\ By("ping")' = By("ping") \cup S /\ \A o : o # "ping" => By(o)' = By(o)
    BY <1>2, <1>4, Grown
  <2> QED BY <1>3, <2>1
<1>6. ClocksOK' /\ OwnOK'
  BY <1>1, <1>2, Lengths DEF ClocksOK, OwnOK, Own
<1>7. \A c \in Collectors : c # "ping"
  BY Lengths DEF Senders
<1>8. FewOK'
  <2>1. Single("ping")'
    BY <1>4, <1>5 DEF Single
  <2>2. Single("hello")' /\ Cardinality(By("own"))' <= ReplayChunk
    BY <1>2, <1>5 DEF FewOK, Single
  <2>3. \A c \in Collectors : Apart(c)'
    BY <1>2, <1>5, <1>7 DEF FewOK, Apart
  <2> QED BY <2>1, <2>2, <2>3 DEF FewOK
<1>9. SpacedOK'
  <2>1. \A f \in By("hello")' \cup By("own")' : welcomed'[Hub]
    BY <1>1, <1>2, <1>5 DEF SpacedOK
  <2>2. \A f \in By("ping")' : f.sent + pingIn' >= PingPeriod
    BY <1>1, <1>4, <1>5, Lengths DEF JustHanded
  <2>3. \A i : Own(i)' => \A f \in By("own")' : f.sent + drainIn'[i].in >= ReplayDelay
    BY <1>1, <1>2, <1>5 DEF SpacedOK, Own
  <2>4. \A c \in Collectors : \A f \in By(c)' : f.sent + liveIn'[c] >= LivePeriod
    BY <1>1, <1>2, <1>5, <1>7 DEF SpacedOK
  <2> QED BY <2>1, <2>2, <2>3, <2>4 DEF SpacedOK
<1> QED BY <1>5, <1>6, <1>8, <1>9 DEF PacedInv

(* The first chunk and hello are the session's own first frames.             *)
LEMMA PacedWelcomeTimed == ASSUME TypeOK, PacedInv, WelcomeTimed PROVE PacedInv'
<1>1. /\ UNCHANGED <<liveIn, pingIn>>
      /\ frames' = frames \cup {Frame("hello", 0)} \cup Handed("own")
      /\ drainIn' = IF drains'[Hub] > drains[Hub] THEN Append(drainIn, Timeout(FALSE)) ELSE drainIn
      /\ ~welcomed[Hub] /\ welcomed'[Hub]
      /\ Welcome(Hub)
  BY Lengths DEF WelcomeTimed, Welcome, TypeOK
<1>2. ClocksOK /\ OwnOK /\ FramesOK /\ FewOK /\ SpacedOK
  BY DEF PacedInv
<1>3. By("hello") = {} /\ By("own") = {} /\ \A i : ~Own(i)
  BY <1>1, <1>2 DEF SpacedOK, OwnOK
<1>4. drains[Hub] \in Nat
  BY Lengths DEF TypeOK
<1>5. /\ drains'[Hub] \in {drains[Hub], drains[Hub] + 1}
      /\ JustHanded(Handed("own"), "own") /\ Cardinality(Handed("own")) <= ReplayChunk
  <2>1. "own" \in Senders \cup Collectors
    BY DEF Senders
  <2>2. CASE replaying[Hub]
    <3>1. UNCHANGED <<drains, sent>>
      BY <1>1, <2>2 DEF Welcome, replay
    <3>2. Handed("own") = {}
      BY <3>1, HandedByNobody
    <3>3. JustHanded({}, "own") /\ Cardinality({}) <= ReplayChunk
      BY FS_EmptySet, Lengths DEF JustHanded
    <3> QED BY <3>1, <3>2, <3>3
  <2>3. CASE ~replaying[Hub]
    <3>1. DrainChunk(Hub, drains[Hub], TRUE, TRUE)
      BY <1>1, <2>3 DEF Welcome
    <3> QED BY <1>4, <2>1, <3>1, HandedByDrain
  <2> QED BY <2>2, <2>3
<1> DEFINE H == {Frame("hello", 0)}
           O == Handed("own")
<1>6. JustHanded(H, "hello")
  BY FreshOne DEF Senders
<1>7. /\ FramesOK'
      /\ By("hello")' = H /\ By("own")' = O
      /\ \A o : o \notin {"hello", "own"} => By(o)' = By(o)
  <2>1. \A f \in O : f.of = "own" /\ f \in Traffic /\ f.sent = 0 /\ f.got = OnTheWay
    BY <1>5 DEF JustHanded
  <2>2. \A f \in H : f.of = "hello" /\ f \in Traffic /\ f.sent = 0 /\ f.got = OnTheWay
    BY <1>6 DEF JustHanded
  <2>3. frames' = frames \cup H \cup O
    BY <1>1
  <2>4. IsFiniteSet(frames \cup H) /\ IsFiniteSet(H) /\ IsFiniteSet(O)
    BY <1>2, <1>5, <1>6, FS_Union DEF FramesOK, JustHanded
  <2> HIDE DEF H, O
  <2>5. FramesOK'
    <3>1. IsFiniteSet(frames')
      BY <2>3, <2>4, FS_Union
    <3>2. \A f \in H \cup O : Waited(f)
      BY <2>1, <2>2, Lengths DEF Waited
    <3> QED BY <1>2, <2>1, <2>2, <2>3, <3>1, <3>2 DEF FramesOK
  <2>6. By("hello")' = By("hello") \cup H /\ By("own")' = By("own") \cup O
        /\ \A o : o \notin {"hello", "own"} => By(o)' = By(o)
    BY <2>1, <2>2, <2>3 DEF By
  <2> QED BY <1>3, <2>5, <2>6
<1> HIDE DEF O
<1>8. \A c \in Collectors : c \notin {"hello", "own"}
  BY Lengths DEF Senders
<1>9. FewOK'
  <2>1. Single("hello")'
    BY <1>7 DEF Single
  <2>2. Single("ping")'
    BY <1>2, <1>7 DEF FewOK, Single
  <2>3. Cardinality(By("own"))' <= ReplayChunk
    BY <1>5, <1>7 DEF O
  <2>4. \A c \in Collectors : Apart(c)'
    BY <1>2, <1>7, <1>8 DEF FewOK, Apart
  <2> QED BY <2>1, <2>2, <2>3, <2>4 DEF FewOK
<1>10. /\ ClocksOK'
       /\ \A i : Own(i)' => i = Len(drainIn) + 1 /\ drainIn'[i].in = ReplayDelay
  <2>1. CASE drains'[Hub] = drains[Hub]
    <3>1. drainIn' = drainIn
      <4>1. ~(drains'[Hub] > drains[Hub])
        BY <1>4, <2>1
      <4> QED BY <1>1, <4>1
    <3> QED BY <1>1, <1>2, <1>3, <2>1, <3>1 DEF ClocksOK, Own
  <2>2. CASE drains'[Hub] = drains[Hub] + 1
    <3>1. drainIn' = Append(drainIn, Timeout(FALSE))
      <4>1. drains'[Hub] > drains[Hub]
        BY <1>4, <2>2
      <4> QED BY <1>1, <4>1
    <3>2. /\ drainIn' \in Seq(Timeouts)
          /\ Len(drainIn') = Len(drainIn) + 1
          /\ \A i \in 1..Len(drainIn) : drainIn'[i] = drainIn[i]
          /\ drainIn'[Len(drainIn) + 1] = [in |-> ReplayDelay, stale |-> FALSE]
          /\ InOrder(drainIn')
      BY <1>2, <3>1, Armed DEF ClocksOK
    <3>3. ClocksOK'
      BY <1>1, <1>2, <2>2, <3>2 DEF ClocksOK, InOrder
    <3>4. ASSUME NEW i, Own(i)' PROVE i = Len(drainIn) + 1 /\ drainIn'[i].in = ReplayDelay
      <4>1. i \in 1..(Len(drainIn) + 1) /\ Len(drainIn) \in Nat /\ ~drainIn'[i].stale
        BY <1>2, <3>2, <3>4, TimerFacts DEF Own
      <4>2. CASE i \in 1..Len(drainIn)
        BY <1>3, <3>2, <4>1, <4>2 DEF Own
      <4>3. CASE i \notin 1..Len(drainIn)
        <5>1. i = Len(drainIn) + 1
          BY <4>1, <4>3
        <5> QED BY <3>2, <5>1
      <4> QED BY <4>2, <4>3
    <3> QED BY <3>3, <3>4
  <2> QED BY <1>5, <2>1, <2>2
<1>11. OwnOK'
  <2>1. \A i, j : Own(i)' /\ Own(j)' => i = j
    BY <1>10
  <2> QED BY <1>1, <2>1 DEF OwnOK
<1>12. SpacedOK'
  <2>1. \A f \in By("ping")' : f.sent + pingIn' >= PingPeriod
    BY <1>1, <1>2, <1>7 DEF SpacedOK
  <2>2. ASSUME NEW i, Own(i)', NEW f \in By("own")' PROVE f.sent + drainIn'[i].in >= ReplayDelay
    <3>1. drainIn'[i].in = ReplayDelay /\ f.sent = 0
      BY <1>5, <1>7, <1>10, <2>2 DEF O, JustHanded
    <3> QED BY <3>1, Lengths
  <2>3. \A c \in Collectors : \A f \in By(c)' : f.sent + liveIn'[c] >= LivePeriod
    BY <1>1, <1>2, <1>7, <1>8 DEF SpacedOK
  <2> QED BY <1>1, <2>1, <2>2, <2>3 DEF SpacedOK
<1> QED BY <1>7, <1>9, <1>10, <1>11, <1>12 DEF PacedInv

(* The session's own chunk goes out ReplayDelay after the one before it,     *)
(* which has left the window by then, however late it arrived.               *)
LEMMA PacedDrainTimed == ASSUME PacingRoom, TypeOK, PacedInv, DrainTimed PROVE PacedInv'
<1> DEFINE of == IF Head(drainIn).stale THEN "stale" ELSE "own"
           H == Handed(of)
<1>1. /\ drainIn # <<>> /\ Head(drainIn).in = 0
      /\ UNCHANGED <<liveIn, pingIn, welcomed>>
      /\ frames' = frames \cup H
      /\ DrainFires(Hub)
  BY DEF DrainTimed, DrainFires
<1>2. ClocksOK /\ OwnOK /\ FramesOK /\ FewOK /\ SpacedOK
  BY DEF PacedInv
<1>3. /\ ClocksOK' /\ OwnOK'
      /\ \A i : Own(i)' =>
           \/ Own(i + 1)
           \/ Own(1) /\ drains'[Hub] = drains[Hub] /\ drainIn'[i].in = ReplayDelay
  BY TimersAfterDrain
<1>4. 1 \in 1..Len(drainIn) /\ Head(drainIn) = drainIn[1] /\ drainIn[1].stale \in BOOLEAN
  BY <1>1, <1>2, TimerFacts, HeadGone
<1>5. of \in {"own", "stale"} /\ of \in Senders \cup Collectors
  BY DEF Senders
<1>6. /\ JustHanded(H, of) /\ Cardinality(H) <= ReplayChunk
      /\ of = "own" /\ H # {} => welcomed[Hub]
  <2>1. of = "own" => Own(1)
    BY <1>4 DEF Own
  <2>2. of = "own" => welcomed[Hub]
    BY <1>2, <2>1 DEF OwnOK
  <2> HIDE DEF of
  <2>3. CASE IsOpen(Hub)
    <3>1. DrainChunk(Hub, drains[Hub] - 1, replaying[Hub], welcomed[Hub])
      BY <1>1, <2>3 DEF DrainFires
    <3>2. drains[Hub] - 1 \in Nat
      BY <1>1, Lengths DEF DrainFires, TypeOK
    <3> QED BY <1>5, <2>2, <3>1, <3>2, HandedByDrain
  <2>4. CASE ~IsOpen(Hub)
    <3>1. UNCHANGED sent
      BY <1>1, <2>4 DEF DrainFires
    <3>2. H = {}
      BY <3>1, HandedByNobody
    <3>3. JustHanded({}, of) /\ Cardinality({}) <= ReplayChunk
      BY FS_EmptySet, Lengths DEF JustHanded
    <3> QED BY <3>2, <3>3
  <2> QED BY <2>3, <2>4
<1>7. /\ FramesOK'
      /\ \A k \in {"own", "stale"} :
           of = k => By(k)' = By(k) \cup H /\ \A o : o # k => By(o)' = By(o)
  <2> HIDE DEF of, H
  <2>1. ASSUME NEW k \in {"own", "stale"}, of = k
        PROVE  FramesOK' /\ By(k)' = By(k) \cup H /\ \A o : o # k => By(o)' = By(o)
    <3>1. JustHanded(H, k) /\ frames' = frames \cup H
      BY <1>1, <1>6, <2>1
    <3> QED BY <1>2, <3>1, Grown
  <2> QED BY <1>5, <2>1
<1>8. \A c \in Collectors : c \notin {"own", "stale"}
  BY Lengths DEF Senders
<1>9. \A c \in Collectors \cup {"hello", "ping"} : By(c)' = By(c)
  <2> HIDE DEF H
  <2> QED BY <1>5, <1>7, <1>8
<1>10. of = "own" => Own(1) /\ By("own") = {}
  <2> SUFFICES ASSUME of = "own" PROVE Own(1) /\ By("own") = {}
    OBVIOUS
  <2>1. Own(1)
    BY <1>4 DEF Own
  <2>2. ASSUME NEW f \in By("own") PROVE FALSE
    <3>1. f.sent + drainIn[1].in >= ReplayDelay /\ drainIn[1].in = 0
      BY <1>1, <1>2, <1>4, <2>1 DEF SpacedOK
    <3>2. f.sent \in Nat /\ f.sent <= Reach
      BY <1>2, FrameFacts, Lengths DEF By
    <3> QED BY <3>1, <3>2, Lengths DEF PacingRoom
  <2> QED BY <2>1, <2>2
<1> HIDE DEF of, H
<1>11. CASE of = "own"
  <2>1. By("own")' = H
    BY <1>7, <1>10, <1>11
  <2>2. Cardinality(By("own"))' <= ReplayChunk
    BY <1>6, <2>1
  <2>3. FewOK'
    BY <1>2, <1>9, <2>2 DEF FewOK, Single, Apart
  <2>4. ASSUME NEW i, Own(i)' PROVE drainIn'[i].in = ReplayDelay
    <3>1. ~Own(i + 1)
      <4>1. i \in 1..Len(drainIn') /\ Len(drainIn') \in Nat
        BY <1>3, <2>4, LenProperties DEF Own, ClocksOK
      <4>2. i + 1 # 1
        BY <4>1
      <4> QED BY <1>2, <1>10, <1>11, <4>2 DEF OwnOK
    <3> QED BY <1>3, <2>4, <3>1
  <2>5. ASSUME NEW i, Own(i)', NEW f \in By("own")' PROVE f.sent + drainIn'[i].in >= ReplayDelay
    <3>1. drainIn'[i].in = ReplayDelay /\ f.sent = 0
      BY <1>6, <2>1, <2>4, <2>5 DEF JustHanded
    <3> QED BY <3>1, Lengths
  <2>6. \A f \in By("hello")' \cup By("own")' : welcomed'[Hub]
    BY <1>1, <1>2, <1>6, <1>9, <1>11, <2>1 DEF SpacedOK
  <2>7. /\ \A f \in By("ping")' : f.sent + pingIn' >= PingPeriod
        /\ \A c \in Collectors : \A f \in By(c)' : f.sent + liveIn'[c] >= LivePeriod
    BY <1>1, <1>2, <1>9 DEF SpacedOK
  <2>8. SpacedOK'
    BY <2>5, <2>6, <2>7 DEF SpacedOK
  <2> QED BY <1>3, <1>7, <2>3, <2>8 DEF PacedInv
<1>12. CASE of = "stale"
  <2>1. By("own")' = By("own")
    BY <1>7, <1>12
  <2>2. FewOK'
    BY <1>2, <1>9, <2>1 DEF FewOK, Single, Apart
  <2>3. ~Own(1)
    BY <1>4, <1>12 DEF of, Own
  <2>4. ASSUME NEW i, Own(i)' PROVE Own(i + 1) /\ drainIn'[i].in = drainIn[i + 1].in
    <3>1. Own(i + 1)
      BY <1>3, <2>3, <2>4
    <3>2. i \in 1..Len(drainIn') /\ Len(drainIn') \in Nat /\ i + 1 \in 1..Len(drainIn)
      BY <1>3, <2>4, <3>1, LenProperties DEF Own, ClocksOK
    <3>3. i \in 1..(Len(drainIn) - 1) /\ Len(drainIn) \in Nat
      BY <1>2, <3>2, TimerFacts
    <3>4. Tail(drainIn)[i] = drainIn[i + 1] /\ Tail(drainIn) \in Seq(Timeouts) /\ InOrder(Tail(drainIn))
          /\ Len(Tail(drainIn)) = Len(drainIn) - 1
      BY <1>1, <1>2, <3>3, HeadGone
    <3>5. drainIn'[i] = Tail(drainIn)[i]
      <4>1. drainIn' = Tail(drainIn) \/ drainIn' = Append(Tail(drainIn), Timeout(Head(drainIn).stale))
        BY DEF DrainTimed
      <4>2. Head(drainIn).stale \in BOOLEAN
        BY <1>4
      <4> QED BY <3>3, <3>4, <4>1, <4>2, Armed
    <3> QED BY <3>1, <3>4, <3>5
  <2>5. \A i : Own(i)' => \A f \in By("own")' : f.sent + drainIn'[i].in >= ReplayDelay
    BY <1>2, <2>1, <2>4 DEF SpacedOK
  <2>6. SpacedOK'
    <3>1. \A f \in By("hello")' \cup By("own")' : welcomed'[Hub]
      BY <1>1, <1>2, <1>9, <2>1 DEF SpacedOK
    <3>2. /\ \A f \in By("ping")' : f.sent + pingIn' >= PingPeriod
          /\ \A c \in Collectors : \A f \in By(c)' : f.sent + liveIn'[c] >= LivePeriod
      BY <1>1, <1>2, <1>9 DEF SpacedOK
    <3> QED BY <2>5, <3>1, <3>2 DEF SpacedOK
  <2> QED BY <1>3, <1>7, <2>2, <2>6 DEF PacedInv
<1> QED BY <1>5, <1>11, <1>12

(* A frame that arrives is counted: it has waited MaxDelay at most.          *)
LEMMA PacedArrive == ASSUME TypeOK, PacedInv, Arrive PROVE PacedInv'
<1> DEFINE first == {f \in InFlight : \A g \in InFlight : g.sent <= f.sent}
           S == IF hubEnd = "listens" THEN frames ELSE frames \ first
           h == [f \in S |-> IF f \in first THEN [f EXCEPT !.got = 0] ELSE f]
<1>1. ClocksOK /\ OwnOK /\ FramesOK /\ FewOK /\ SpacedOK
  BY DEF PacedInv
<1>2. UNCHANGED <<drainIn, pingIn, liveIn, drains, welcomed>>
  BY DEF Arrive, clocks, vars, replay, history
<1>3. S \in SUBSET frames /\ first \subseteq frames /\ \A f \in first : f.got = OnTheWay
  BY DEF InFlight
<1>4. frames' = {h[f] : f \in S}
  <2>1. frames' = (frames \ first)
                    \cup (IF hubEnd = "listens" THEN {[f EXCEPT !.got = 0] : f \in first} ELSE {})
    BY DEF Arrive
  <2> HIDE DEF first
  <2>2. CASE hubEnd = "listens"
    <3>1. S = frames /\ first \subseteq frames
      BY <1>3, <2>2
    <3>2. {h[f] : f \in S} = (frames \ first) \cup {[f EXCEPT !.got = 0] : f \in first}
      BY <3>1
    <3> QED BY <2>1, <2>2, <3>2
  <2>3. CASE hubEnd # "listens"
    <3>1. S = frames \ first /\ \A f \in S : h[f] = f
      BY <2>3
    <3> QED BY <2>1, <2>3, <3>1
  <2> QED BY <2>2, <2>3
<1>5. \A f \in S : h[f] \in Traffic /\ h[f].of = f.of /\ h[f].sent = f.sent + 0 /\ Waited(h[f])
  <2> SUFFICES ASSUME NEW f \in S
               PROVE  h[f] \in Traffic /\ h[f].of = f.of /\ h[f].sent = f.sent + 0 /\ Waited(h[f])
    OBVIOUS
  <2>1. f \in frames /\ f \in Traffic /\ Waited(f) /\ f.sent \in Nat
    BY <1>1, <1>3, FrameFacts DEF FramesOK
  <2>2. CASE f \notin first
    <3>1. h[f] = f
      BY <2>2
    <3> QED BY <2>1, <3>1
  <2>3. CASE f \in first
    <3>1. h[f] = [f EXCEPT !.got = 0] /\ f.got = OnTheWay
      BY <1>3, <2>3
    <3>2. f = [of |-> f.of, no |-> f.no, sent |-> f.sent, got |-> f.got]
      BY <1>1, <2>1, FrameFacts
    <3> HIDE DEF h, first
    <3>3. h[f] = [of |-> f.of, no |-> f.no, sent |-> f.sent, got |-> 0]
      BY <3>1, <3>2
    <3>4. f.of \in Senders \cup Collectors /\ f.no \in Nat /\ f.sent \in 0..Reach /\ 0 \in 0..WindowTicks
      BY <1>1, <2>1, FrameFacts, Lengths
    <3>5. h[f].of = f.of /\ h[f].sent = f.sent /\ h[f].got = 0 /\ h[f] \in Traffic
      BY <3>3, <3>4 DEF Traffic
    <3>6. f.sent <= MaxDelay
      BY <2>1, <3>1 DEF Waited
    <3>7. Waited(h[f])
      BY <3>5, <3>6, Lengths DEF Waited, OnTheWay
    <3> QED BY <2>1, <3>5, <3>7
  <2> QED BY <2>2, <2>3
<1>6. h \in [S -> Traffic]
  BY <1>5
<1> HIDE DEF h, S
<1>7. /\ FramesOK' /\ FewOK'
      /\ \A of : \A g \in By(of)' : \E f \in By(of) : g.sent = f.sent + 0
  BY <1>1, <1>3, <1>4, <1>5, <1>6, Moved
<1>8. \A of : \A g \in By(of)' : \E f \in By(of) : g.sent = f.sent
  <2>1. \A of : \A f \in By(of) : f.sent + 0 = f.sent
    BY <1>1, FrameFacts DEF By
  <2> QED BY <1>7, <2>1
<1>9. ClocksOK' /\ OwnOK'
  BY <1>1, <1>2 DEF ClocksOK, OwnOK, Own
<1>10. SpacedOK'
  BY <1>1, <1>2, <1>8 DEF SpacedOK, Own
<1> QED BY <1>7, <1>9, <1>10 DEF PacedInv

LEMMA OneLessIs == \A n \in Nat : OneLess(n) \in Nat /\ OneLess(n) + 1 >= n
BY DEF OneLess

(* With the clock the frames grow older, and none older than the window and  *)
(* the delay is kept.                                                        *)
LEMMA PacedTick == ASSUME TypeOK, PacedInv, Tick PROVE PacedInv'
<1> DEFINE l == Len(drainIn)
<1>1. /\ UNCHANGED <<drains, welcomed>>
      /\ drainIn' = [i \in DOMAIN drainIn |-> [drainIn[i] EXCEPT !.in = @ - 1]]
      /\ pingIn' = OneLess(pingIn)
      /\ liveIn' = [c \in Collectors |-> OneLess(liveIn[c])]
      /\ frames' = {Older(f) : f \in {g \in frames : InWindow(g)}}
      /\ ~(drainIn # <<>> /\ Head(drainIn).in = 0)
      /\ \A f \in InFlight : f.sent # MaxDelay
  BY DEF Tick, Due, vars, replay, history
<1>2. ClocksOK /\ OwnOK /\ FramesOK /\ FewOK /\ SpacedOK
  BY DEF PacedInv
<1>3. /\ l \in Nat /\ DOMAIN drainIn = 1..l
      /\ \A i \in 1..l : drainIn[i] \in Timeouts
      /\ \A i \in 1..l : drainIn[i].in \in 0..ReplayDelay
  BY <1>2, TimerFacts, LenProperties DEF ClocksOK
<1>4. \A i \in 1..l : drainIn[i].in > 0
  <2> SUFFICES ASSUME NEW i \in 1..l PROVE drainIn[i].in > 0
    OBVIOUS
  <2>1. 1 \in 1..l /\ drainIn # <<>>
    BY <1>2, <1>3, TimerFacts
  <2>2. drainIn[1].in # 0
    BY <1>1, <1>2, <2>1, HeadGone
  <2>3. drainIn[1].in > 0
    BY <1>3, <2>1, <2>2, Lengths
  <2>4. CASE i = 1
    BY <2>3, <2>4
  <2>5. CASE i # 1
    <3>1. 1 < i
      BY <1>3, <2>5
    <3>2. drainIn[1].in <= drainIn[i].in
      BY <1>2, <2>1, <3>1 DEF ClocksOK, InOrder
    <3> QED BY <1>3, <2>1, <2>3, <3>2, Lengths
  <2> QED BY <2>4, <2>5
<1>5. \A i \in 1..l : /\ drainIn'[i] = [in |-> drainIn[i].in - 1, stale |-> drainIn[i].stale]
                      /\ drainIn'[i] \in Timeouts
  <2> SUFFICES ASSUME NEW i \in 1..l
               PROVE  /\ drainIn'[i] = [in |-> drainIn[i].in - 1, stale |-> drainIn[i].stale]
                      /\ drainIn'[i] \in Timeouts
    OBVIOUS
  <2>1. drainIn[i] \in Timeouts /\ drainIn[i].in - 1 \in 0..ReplayDelay
    BY <1>3, <1>4, Lengths
  <2> QED BY <1>1, <1>3, <2>1 DEF Timeouts
<1>6. drainIn' \in Seq(Timeouts) /\ Len(drainIn') = l
  <2>1. drainIn' \in [1..l -> Timeouts]
    BY <1>1, <1>3, <1>5
  <2>2. drainIn' \in Seq(Timeouts)
    <3> DEFINE timer(i) == drainIn'[i]
    <3>1. drainIn' = [i \in 1..l |-> timer(i)]
      BY <2>1
    <3>2. \A i \in 1..l : timer(i) \in Timeouts
      BY <1>5
    <3> HIDE DEF timer
    <3>3. [i \in 1..l |-> timer(i)] \in Seq(Timeouts)
      BY <1>3, <3>2, IsASeq
    <3> QED BY <3>1, <3>3
  <2>3. DOMAIN drainIn' = 1..l /\ DOMAIN drainIn' = 1..Len(drainIn') /\ Len(drainIn') \in Nat
    BY <2>1, <2>2, LenProperties
  <2> QED BY <1>3, <2>2, <2>3
<1>7. \A i \in 1..l : drainIn'[i].in = drainIn[i].in - 1 /\ drainIn'[i].stale = drainIn[i].stale
  <2> SUFFICES ASSUME NEW i \in 1..l
               PROVE  drainIn'[i].in = drainIn[i].in - 1 /\ drainIn'[i].stale = drainIn[i].stale
    OBVIOUS
  <2>1. drainIn'[i] = [in |-> drainIn[i].in - 1, stale |-> drainIn[i].stale]
    BY <1>5
  <2> QED BY <2>1
<1>8. ClocksOK'
  <2>1. InOrder(drainIn')
    <3> SUFFICES ASSUME NEW i \in 1..l, NEW j \in 1..l, i < j
                 PROVE  drainIn'[i].in <= drainIn'[j].in
      BY <1>6 DEF InOrder
    <3>1. drainIn[i].in <= drainIn[j].in
      BY <1>2 DEF ClocksOK, InOrder
    <3>2. drainIn[i].in \in Int /\ drainIn[j].in \in Int
      BY <1>3, Lengths
    <3> QED BY <1>7, <3>1, <3>2
  <2>2. Len(drainIn') = drains'[Hub]
    BY <1>1, <1>2, <1>6 DEF ClocksOK
  <2>3. pingIn' \in Nat /\ liveIn' \in [Collectors -> Nat]
    BY <1>1, <1>2, OneLessIs DEF ClocksOK
  <2> QED BY <1>6, <2>1, <2>2, <2>3 DEF ClocksOK, InOrder
<1>9. \A i : Own(i)' <=> Own(i)
  BY <1>6, <1>7 DEF Own
<1>10. OwnOK'
  BY <1>1, <1>2, <1>9 DEF OwnOK
<1> HIDE DEF l
<1> DEFINE S == {g \in frames : InWindow(g)}
           h == [f \in S |-> Older(f)]
<1>11. S \in SUBSET frames /\ frames' = {h[f] : f \in S}
  BY <1>1
<1>12. \A f \in S : h[f] \in Traffic /\ h[f].of = f.of /\ h[f].sent = f.sent + 1 /\ Waited(h[f])
  <2> SUFFICES ASSUME NEW f \in S
               PROVE  h[f] \in Traffic /\ h[f].of = f.of /\ h[f].sent = f.sent + 1 /\ Waited(h[f])
    OBVIOUS
  <2> DEFINE g == IF f.got = OnTheWay THEN OnTheWay ELSE f.got + 1
  <2>1. f \in frames /\ Waited(f) /\ InWindow(f)
    BY <1>2 DEF FramesOK
  <2>2. /\ f.sent \in Nat /\ f.no \in Nat /\ f.of \in Senders \cup Collectors
        /\ f.got = OnTheWay \/ f.got \in 0..WindowTicks
        /\ f = [of |-> f.of, no |-> f.no, sent |-> f.sent, got |-> f.got]
    BY <1>2, <2>1, FrameFacts
  <2>3. h[f] = [f EXCEPT !.sent = @ + 1, !.got = IF @ = OnTheWay THEN OnTheWay ELSE @ + 1]
    BY DEF Older
  <2> HIDE DEF h
  <2>4. h[f] = [of |-> f.of, no |-> f.no, sent |-> f.sent + 1, got |-> g]
    BY <2>2, <2>3
  <2>5. h[f].of = f.of /\ h[f].no = f.no /\ h[f].sent = f.sent + 1 /\ h[f].got = g
    BY <2>4
  <2>6. CASE f.got = OnTheWay
    <3>1. f.sent <= MaxDelay /\ f.sent # MaxDelay
      BY <1>1, <2>1, <2>6 DEF Waited, InFlight
    <3>2. g = OnTheWay /\ f.sent + 1 <= MaxDelay /\ f.sent + 1 \in 0..Reach
      BY <2>2, <2>6, <3>1, Lengths
    <3>3. Waited(h[f])
      BY <2>5, <3>2 DEF Waited
    <3>4. h[f] \in Traffic
      BY <2>2, <2>4, <3>2 DEF Traffic
    <3> QED BY <2>5, <3>3, <3>4
  <2>7. CASE f.got # OnTheWay
    <3>1. f.got \in Nat /\ f.got < WindowTicks /\ f.sent <= f.got + MaxDelay /\ g = f.got + 1
      BY <2>1, <2>2, <2>7, Lengths DEF Waited, InWindow
    <3> HIDE DEF g
    <3>2. g \in 0..WindowTicks /\ g # OnTheWay /\ f.sent + 1 <= g + MaxDelay /\ f.sent + 1 \in 0..Reach
      BY <2>2, <3>1, Lengths DEF OnTheWay
    <3>3. Waited(h[f])
      BY <2>5, <3>2 DEF Waited
    <3>4. h[f] \in Traffic
      BY <2>2, <2>4, <3>2 DEF Traffic
    <3> QED BY <2>5, <3>3, <3>4
  <2> QED BY <2>6, <2>7
<1>13. h \in [S -> Traffic]
  BY <1>12
<1> HIDE DEF h, S
<1>14. /\ FramesOK' /\ FewOK'
       /\ \A of : \A g \in By(of)' : \E f \in By(of) : g.sent = f.sent + 1
  BY <1>2, <1>11, <1>12, <1>13, Moved
<1>15. \A of : \A f \in By(of) : f.sent \in Nat
  BY <1>2, FrameFacts DEF By
<1>16. \A a, t, n \in Int : a + t >= n => (a + 1) + (t - 1) >= n
  OBVIOUS
<1>17. \A a, t, u, n \in Nat : a + t >= n /\ u + 1 >= t => (a + 1) + u >= n
  OBVIOUS
<1>18. SpacedOK'
  <2>1. \A f \in By("hello")' \cup By("own")' : welcomed'[Hub]
    BY <1>1, <1>2, <1>14 DEF SpacedOK
  <2>2. ASSUME NEW g \in By("ping")' PROVE g.sent + pingIn' >= PingPeriod
    <3>1. PICK f \in By("ping") : g.sent = f.sent + 1
      BY <1>14
    <3>2. f.sent + pingIn >= PingPeriod /\ pingIn \in Nat
      BY <1>2 DEF SpacedOK, ClocksOK
    <3>3. pingIn' \in Nat /\ pingIn' + 1 >= pingIn
      BY <1>1, <3>2, OneLessIs
    <3>4. f.sent \in Nat /\ PingPeriod \in Nat
      BY <1>15, <3>1, Lengths
    <3>5. (f.sent + 1) + pingIn' >= PingPeriod
      BY <1>17, <3>2, <3>3, <3>4
    <3> QED BY <3>1, <3>5
  <2>3. ASSUME NEW i, Own(i)', NEW g \in By("own")' PROVE g.sent + drainIn'[i].in >= ReplayDelay
    <3>1. PICK f \in By("own") : g.sent = f.sent + 1
      BY <1>14
    <3>2. Own(i) /\ f.sent + drainIn[i].in >= ReplayDelay
      BY <1>2, <1>9, <2>3 DEF SpacedOK
    <3>3. i \in 1..l
      BY <1>3, <3>2 DEF Own
    <3>4. drainIn'[i].in = drainIn[i].in - 1
      BY <1>7, <3>3
    <3>5. drainIn[i].in \in Int /\ f.sent \in Int /\ ReplayDelay \in Int
      BY <1>3, <1>15, <3>1, <3>3, Lengths
    <3>6. (f.sent + 1) + (drainIn[i].in - 1) >= ReplayDelay
      BY <1>16, <3>2, <3>5
    <3> QED BY <3>1, <3>4, <3>6
  <2>4. ASSUME NEW c \in Collectors, NEW g \in By(c)' PROVE g.sent + liveIn'[c] >= LivePeriod
    <3>1. PICK f \in By(c) : g.sent = f.sent + 1
      BY <1>14
    <3>2. f.sent + liveIn[c] >= LivePeriod /\ liveIn[c] \in Nat
      BY <1>2 DEF SpacedOK, ClocksOK
    <3>3. liveIn'[c] \in Nat /\ liveIn'[c] + 1 >= liveIn[c]
      BY <1>1, <3>2, OneLessIs
    <3>4. f.sent \in Nat /\ LivePeriod \in Nat
      BY <1>15, <3>1, Lengths
    <3>5. (f.sent + 1) + liveIn'[c] >= LivePeriod
      BY <1>17, <3>2, <3>3, <3>4
    <3> QED BY <3>1, <3>5
  <2> QED BY <2>1, <2>2, <2>3, <2>4 DEF SpacedOK
<1> QED BY <1>8, <1>10, <1>14, <1>18 DEF PacedInv

(* A session without frames has few of them. *)
LEMMA NoFrames ==
  ASSUME frames' = {}, ClocksOK', OwnOK' PROVE PacedInv'
<1>1. \A of : By(of)' = {}
  BY DEF By
<1>2. FramesOK'
  BY FS_EmptySet DEF FramesOK
<1>3. FewOK'
  <2>1. Cardinality(By("own"))' <= ReplayChunk
    <3>1. Cardinality({}) <= ReplayChunk
      BY FS_EmptySet, Lengths
    <3> QED BY <1>1, <3>1
  <2> QED BY <1>1, <2>1 DEF FewOK, Single, Apart
<1>4. SpacedOK'
  BY <1>1 DEF SpacedOK
<1> QED BY <1>2, <1>3, <1>4 DEF PacedInv

LEMMA PacedClosedTimed ==
  ASSUME TypeOK, PacedInv, NetworkDrop \/ RateLimitClosed PROVE PacedInv'
<1>1. /\ drainIn' = [i \in DOMAIN drainIn |-> [drainIn[i] EXCEPT !.stale = TRUE]]
      /\ UNCHANGED <<liveIn, drains>>
      /\ frames' = {} /\ pingIn' = 0
  BY DEF NetworkDrop, RateLimitClosed, ClosedTimed, Closed
<1>2. ClocksOK
  BY DEF PacedInv
<1> DEFINE l == Len(drainIn)
<1>5. l \in Nat /\ DOMAIN drainIn = 1..l /\ \A i \in 1..l : drainIn[i] \in Timeouts
  BY <1>2, TimerFacts, LenProperties DEF ClocksOK
<1>6. \A i \in 1..l : drainIn'[i] = [in |-> drainIn[i].in, stale |-> TRUE] /\ drainIn'[i] \in Timeouts
  BY <1>1, <1>5 DEF Timeouts
<1>7. drainIn' \in Seq(Timeouts) /\ Len(drainIn') = l
  <2>1. drainIn' \in [1..l -> Timeouts]
    BY <1>1, <1>5, <1>6
  <2>2. drainIn' \in Seq(Timeouts)
    <3> DEFINE timer(i) == drainIn'[i]
    <3>1. drainIn' = [i \in 1..l |-> timer(i)]
      BY <2>1
    <3>2. \A i \in 1..l : timer(i) \in Timeouts
      BY <1>6
    <3> HIDE DEF timer
    <3>3. [i \in 1..l |-> timer(i)] \in Seq(Timeouts)
      BY <1>5, <3>2, IsASeq
    <3> QED BY <3>1, <3>3
  <2>3. DOMAIN drainIn' = 1..l /\ DOMAIN drainIn' = 1..Len(drainIn') /\ Len(drainIn') \in Nat
    BY <2>1, <2>2, LenProperties
  <2> QED BY <1>5, <2>2, <2>3
<1>8. ClocksOK'
  <2>1. InOrder(drainIn')
    <3> SUFFICES ASSUME NEW i \in 1..l, NEW j \in 1..l, i < j
                 PROVE  drainIn'[i].in <= drainIn'[j].in
      BY <1>7 DEF InOrder
    <3>1. drainIn[i].in <= drainIn[j].in
      BY <1>2 DEF ClocksOK, InOrder
    <3>2. /\ drainIn'[i] = [in |-> drainIn[i].in, stale |-> TRUE]
          /\ drainIn'[j] = [in |-> drainIn[j].in, stale |-> TRUE]
      BY <1>6
    <3>3. drainIn'[i].in = drainIn[i].in /\ drainIn'[j].in = drainIn[j].in
      BY <3>2
    <3> QED BY <3>1, <3>3
  <2>2. Len(drainIn') = drains'[Hub] /\ liveIn' \in [Collectors -> Nat] /\ pingIn' \in Nat
    BY <1>1, <1>2, <1>7 DEF ClocksOK
  <2> QED BY <1>7, <2>1, <2>2 DEF ClocksOK, InOrder
<1>9. \A i : ~Own(i)'
  <2> SUFFICES ASSUME NEW i \in 1..l PROVE drainIn'[i].stale
    BY <1>7 DEF Own
  <2>1. drainIn'[i] = [in |-> drainIn[i].in, stale |-> TRUE]
    BY <1>6
  <2> QED BY <2>1
<1> QED BY <1>1, <1>8, <1>9, NoFrames DEF OwnOK

LEMMA PacedRateLimitClose == ASSUME TypeOK, PacedInv, RateLimitClose PROVE PacedInv'
<1>1. UNCHANGED <<drainIn, pingIn, liveIn, drains, welcomed>> /\ frames' = {}
  BY DEF RateLimitClose, clocks, vars, replay, history
<1>2. ClocksOK' /\ OwnOK'
  BY <1>1 DEF PacedInv, ClocksOK, OwnOK, Own
<1> QED BY <1>1, <1>2, NoFrames

(* The handshakes, the dial and the stability timer leave the replay alone. *)
LEMMA PacedOther ==
  ASSUME TypeOK, PacedInv,
         OpenTimed \/ HubWelcomes \/ ReconnectTimed \/ StableTimed \/ UNCHANGED pacingVars
  PROVE  PacedInv'
<1>1. /\ UNCHANGED <<drainIn, liveIn, frames, drains, welcomed>>
      /\ pingIn' = pingIn \/ pingIn' = PingPeriod
  <2>1. CASE OpenTimed
    BY <2>1 DEF OpenTimed, Open, replay, history, session
  <2>2. CASE HubWelcomes
    BY <2>2 DEF HubWelcomes, vars, replay, history, clocks
  <2>3. CASE ReconnectTimed
    BY <2>3 DEF ReconnectTimed, ReconnectFires, replay, history, clocks, session
  <2>4. CASE StableTimed
    BY <2>4 DEF StableTimed, StableFires, replay, history, clocks, session
  <2>5. CASE UNCHANGED pacingVars
    BY <2>5 DEF pacingVars, vars, replay, history, clocks, session
  <2> QED BY <2>1, <2>2, <2>3, <2>4, <2>5
<1>2. ClocksOK /\ OwnOK /\ FramesOK /\ FewOK /\ SpacedOK
  BY DEF PacedInv
<1>3. FramesOK' /\ FewOK' /\ \A of : By(of)' = By(of)
  BY <1>1, <1>2, Unchanged
<1>4. ClocksOK' /\ OwnOK'
  BY <1>1, <1>2, Lengths DEF ClocksOK, OwnOK, Own
<1>5. SpacedOK'
  <2>1. \A f \in By("ping") : f.sent + pingIn' >= PingPeriod
    <3>1. \A f \in By("ping") : f.sent \in Nat
      BY <1>2, FrameFacts DEF By
    <3> QED BY <1>1, <1>2, <3>1, Lengths DEF SpacedOK
  <2> QED BY <1>1, <1>2, <1>3, <2>1 DEF SpacedOK, Own
<1> QED BY <1>3, <1>4, <1>5 DEF PacedInv

LEMMA PacedInitial == PacingInit => PacedInv
<1> SUFFICES ASSUME PacingInit PROVE PacedInv
  OBVIOUS
<1>1. drainIn = <<>> /\ frames = {} /\ Len(drainIn) = 0 /\ drainIn \in Seq(Timeouts)
  BY EmptySeq DEF PacingInit
<1>2. ClocksOK
  <2>1. drains[Hub] = 0 /\ pingIn = 0 /\ liveIn \in [Collectors -> 1..LivePeriod]
    BY Lengths DEF PacingInit, Init
  <2>2. InOrder(drainIn)
    BY <1>1 DEF InOrder
  <2>3. liveIn \in [Collectors -> Nat]
    BY <2>1, Lengths
  <2> QED BY <1>1, <2>1, <2>2, <2>3 DEF ClocksOK
<1>3. OwnOK
  BY <1>1 DEF OwnOK, Own
<1>4. \A of : By(of) = {}
  BY <1>1 DEF By
<1>5. FramesOK
  BY <1>1, FS_EmptySet DEF FramesOK
<1>6. FewOK
  <2>1. Cardinality(By("own")) <= ReplayChunk
    <3>1. Cardinality({}) <= ReplayChunk
      BY FS_EmptySet, Lengths
    <3> QED BY <1>4, <3>1
  <2> QED BY <1>4, <2>1 DEF FewOK, Single, Apart
<1>7. SpacedOK
  BY <1>4 DEF SpacedOK
<1> QED BY <1>2, <1>3, <1>5, <1>6, <1>7 DEF PacedInv

LEMMA PacedStep == PacingRoom /\ TypeOK /\ PacedInv /\ [PacingNext]_pacingVars => PacedInv'
  BY PacedLiveTick, PacedPingTimed, PacedWelcomeTimed, PacedDrainTimed, PacedArrive, PacedClosedTimed,
     PacedRateLimitClose, PacedOther, PacedTick
  DEF PacingNext

-----------------------------------------------------------------------------

(* A clocked step is a step of the link. *)
LEMMA PacingIsLink == [PacingNext]_pacingVars => [Next]_vars
<1> SUFFICES ASSUME [PacingNext]_pacingVars PROVE [Next]_vars
  OBVIOUS
<1>1. CASE UNCHANGED pacingVars \/ Tick \/ PingTimed \/ HubWelcomes \/ Arrive \/ RateLimitClose
  BY <1>1 DEF pacingVars, Tick, PingTimed, HubWelcomes, Arrive, RateLimitClose
<1>2. CASE \E c \in Collectors : LiveTick(c)
  BY <1>2 DEF LiveTick, Next
<1>3. CASE OpenTimed \/ WelcomeTimed \/ DrainTimed \/ ReconnectTimed \/ StableTimed
  BY <1>3, Lengths DEF OpenTimed, WelcomeTimed, DrainTimed, ReconnectTimed, StableTimed, Next
<1>4. CASE NetworkDrop \/ RateLimitClosed
  BY <1>4, Lengths DEF NetworkDrop, RateLimitClosed, ClosedTimed, CloseCodes, Next
<1> QED BY <1>1, <1>2, <1>3, <1>4 DEF PacingNext

LEMMA PacingTyped == PacingSafety => []TypeOK
<1>1. PacingInit => Init
  BY DEF PacingInit
<1> QED BY <1>1, PacingIsLink, TypeCorrect, PTL DEF PacingSafety, Spec

(* A session's own replay never takes it over the hub's limit, whatever each *)
(* frame waits between send and count: REPLAY_DELAY_MS spaces the chunks     *)
(* (drainChunk) for every chunk, limit, delay, period and set of collectors  *)
(* that leave the room of PacingRoom.  Only beside a drain loop left over    *)
(* from an earlier session does the hub count too many (messageWindow).      *)
THEOREM OwnReplayWithinLimitHolds == PacingSafety => []OwnReplayWithinLimit
<1> DEFINE Paced == PacingRoom => PacedInv
<1>1. PacingInit => Paced
  BY PacedInitial
<1>2. TypeOK /\ Paced /\ [PacingNext]_pacingVars => Paced'
  BY PacedStep
<1>3. Paced => OwnReplayWithinLimit
  <2>1. CASE PacingRoom
    BY <2>1, FewAreWithin DEF PacedInv
  <2>2. CASE ~PacingRoom
    BY <2>2 DEF OwnReplayWithinLimit
  <2> QED BY <2>1, <2>2
<1>4. PacingSafety => []Paced
  <2> HIDE DEF Paced
  <2> QED BY <1>1, <1>2, PacingTyped, PTL DEF PacingSafety
<1> HIDE DEF Paced
<1> QED BY <1>3, <1>4, PTL

=============================================================================
